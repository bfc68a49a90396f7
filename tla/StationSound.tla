---------------------------- MODULE StationSound ----------------------------
(***************************************************************************)
(* When a world of the station is sound, and that every operation on tiles,*)
(* containers, slots, doors, walls and closets, and every creation and     *)
(* deletion, keeps it so: for any size of the map, any objects and players.*)
(*                                                                         *)
(* Sound(A, U, w) is the invariant with exceptions, because an operation   *)
(* calls others half way: the objects in A are on their way from one       *)
(* container to another, those in U have changed and their shape or walls  *)
(* have not been told yet; Nearly also leaves out the sums of one tile.    *)
(* Its parts:                                                              *)
(*   Formed   the types, closed under what the objects refer to;           *)
(*   Settled  an object is in the container it names, there only and once; *)
(*   Forces   what is under a force is in a queue of the physics engine;   *)
(*   Sums     what a tile lets pass is what stands on it;                  *)
(*   Shapes   what can pass an object follows from its state;              *)
(*   Minds    each player has a living mob of his own;                     *)
(*   Walls    a wall knows its neighbours.                                 *)
(* Since(r, w) says what became of the world r that a step began with:     *)
(* nothing is reborn, nothing leaves its class, and nothing but a          *)
(* projectile moves twice.  Sane joins the two.                            *)
(*                                                                         *)
(* The members of a world that an operation leaves alone are named by      *)
(* Only(S, w, v): v is w but for the members in S.                         *)
(***************************************************************************)
EXTENDS Station, FiniteSetTheorems, SequenceTheorems, WellFoundedInduction, TLAPS

Members ==
  {"obj", "own", "content", "turf", "sum", "flags", "tick", "last", "list", "to_add", "under_force",
   "chance", "failed", "mind", "music", "lobby", "env"}

\* The two worlds differ in these members only.
Only(S, w, v) ==
  DOMAIN w = Members /\ DOMAIN v = Members /\ \A m \in Members \ S : v[m] = w[m]

Object ==
  [kind : Kind, owner : Nat, pass : [Way -> PassableLevel], dir : Dir, anchored : BOOLEAN,
   motion : Motion, last_move : Nat, freq : Nat]

\* An id that was given, of an object of the class while it is there.
Refers(w, i, class) == i \in 0 .. w.last /\ (IsValid(w, i) => w.obj[i].kind \in class)

OwnFits(w, kind, own) ==
  /\ DOMAIN own = DOMAIN NewOwn(kind)
  /\ kind = "human" =>
       /\ own.slot \in [Slot -> Nat]
       /\ own.active_hand \in {"right_hand", "left_hand"}
       /\ Refers(w, own.pulled, Movable \ Projectile)
  /\ kind \in Projectile =>
       /\ own.movement \in Seq(Dir)
       /\ own.step \in Nat
       /\ own.movement # <<>> => own.step \in 1 .. Len(own.movement)
  /\ kind = "opener" => Refers(w, own.door, {"door"})
  /\ kind \in Wall => own.walls \subseteq Dir

Counted(w) == DOMAIN w = Members /\ w.last \in Nat /\ Width * Height <= w.last /\ w.tick \in Nat

Objects(w) ==
  /\ w.obj = [i \in DOMAIN w.obj |-> w.obj[i]]
  /\ \A i \in DOMAIN w.obj :
       /\ i \in Width * Height + 1 .. w.last
       /\ w.obj[i] \in Object
       /\ w.obj[i].last_move <= w.tick
       /\ w.obj[i].kind = "glassdoor" => w.obj[i].anchored

Owned(w) ==
  /\ w.own = [i \in DOMAIN w.obj |-> w.own[i]]
  /\ \A i \in DOMAIN w.obj : OwnFits(w, w.obj[i].kind, w.own[i])

Contents(w) ==
  /\ \A t \in Tile : t \in DOMAIN w.content
  /\ \A i \in DOMAIN w.obj : w.obj[i].kind \in Closet => i \in DOMAIN w.content
  /\ \A c \in DOMAIN w.content : (c \in Tile \/ Is(w, c, Closet)) /\ w.content[c] \in Seq(Nat)

Grid(w) ==
  /\ w.turf \in [Tile -> Nat]
  /\ w.sum \in [Tile -> [Way -> PassableLevel]]
  /\ w.flags \in [Tile -> SUBSET (Way \cup {"space", "no_objects"})]

Queues(w) ==
  /\ w.list \in Seq(1 .. w.last) /\ w.to_add \in Seq(1 .. w.last) /\ w.under_force \in Seq(1 .. w.last)
  /\ w.chance \in Chance

Formed(w) == Counted(w) /\ Objects(w) /\ Owned(w) /\ Contents(w) /\ Grid(w) /\ Queues(w)

-----------------------------------------------------------------------------
\* What a container has is there, is its own, and is of a class it takes.
Lies(A, w, i, c, class) ==
  i \in DOMAIN w.obj /\ i \notin A /\ w.obj[i].owner = c /\ w.obj[i].kind \in class

OnTiles(A, w) == \A t \in Tile : w.turf[t] # None => Lies(A, w, w.turf[t], t, Turf)

Suits(c) == IF c \in Tile THEN Kind \ Turf ELSE Item \cup {"human"}

InContents(A, w) ==
  \A c \in DOMAIN w.content :
    /\ \A n \in 1 .. Len(w.content[c]) : Lies(A, w, w.content[c][n], c, Suits(c))
    /\ \A m, n \in 1 .. Len(w.content[c]) : w.content[c][m] = w.content[c][n] => m = n

InSlots(A, w) ==
  \A h \in DOMAIN w.obj : w.obj[h].kind = "human" =>
    /\ \A s \in Slot : w.own[h].slot[s] # None => Lies(A, w, w.own[h].slot[s], h, Item)
    /\ \A s, u \in Slot : w.own[h].slot[s] = w.own[h].slot[u] /\ w.own[h].slot[s] # None => s = u

\* What is always on a tile.
Rooted == Turf \cup Closet \cup Projectile

Homed(A, w) ==
  \A i \in DOMAIN w.obj : i \notin A =>
    /\ w.obj[i].owner # None => Has(w, w.obj[i].owner, i)
    /\ w.obj[i].kind \in Rooted => w.obj[i].owner \in Tile

Settled(A, w) == OnTiles(A, w) /\ InContents(A, w) /\ InSlots(A, w) /\ Homed(A, w)

Forces(w) ==
  /\ \A i \in DOMAIN w.obj : ~IsZero(w.obj[i].motion.force) =>
       w.obj[i].kind \in Movable /\ i \in ToSet(w.to_add) \cup ToSet(w.under_force)
  /\ \A m, n \in 1 .. Len(w.under_force) : w.under_force[m] = w.under_force[n] => m = n

SumAt(w, t) == w.sum[t] = Summed(w, t) /\ w.flags[t] = AtmosFlags(w, t, w.sum[t])
Sums(t, w) == \A u \in Tile : u # t => SumAt(w, u)

ShapeFits(kind, pass, dir, own) ==
  /\ kind = "door" => pass["all"] = IF own.state = "open" THEN FULL ELSE EMPTY
  /\ kind = "glassdoor" => pass[dir] = IF own.state = "open" THEN FULL ELSE EMPTY
  /\ kind \in Closet => pass["all"] = IF own.open THEN FULL ELSE AIR
  /\ kind = "human" => pass["all"] = IF own.lying THEN FULL ELSE BIG_ITEM
  /\ kind = "glass" => pass["all"] # EMPTY /\ \A d \in Dir : pass[d] = EMPTY <=> d = dir
  /\ kind = "grille" => pass["all"] = IF own.cutted THEN FULL ELSE AIR

Shaped(w, i) == ShapeFits(w.obj[i].kind, w.obj[i].pass, w.obj[i].dir, w.own[i])
Shapes(U, w) == \A i \in DOMAIN w.obj : i \notin U => Shaped(w, i)

Minds(w) ==
  /\ w.mind \in [Player -> Nat] /\ w.music \in [Player -> {Unheard, LOBBY_MUSIC, Silence}]
  /\ \A p \in Player : w.mind[p] # None =>
       /\ w.mind[p] \in DOMAIN w.obj /\ w.obj[w.mind[p]].kind \in Mob
       /\ w.obj[w.mind[p]].kind = "human" => ~w.own[w.mind[p]].dead
  /\ \A p, q \in Player : w.mind[p] = w.mind[q] /\ w.mind[p] # None => p = q
  /\ \A p \in Player : w.music[p] = LOBBY_MUSIC <=> w.mind[p] # None /\ w.obj[w.mind[p]].kind = "loginmob"

IsInside(t, d) == Neighbour(t, d) # t /\ Neighbour(t, RevertDir(d)) # t
Knows(w, i, d) == d \in w.own[i].walls <=> WallAt(w, i, d) # None
Walls(U, w) ==
  \A i \in DOMAIN w.obj : i \notin U /\ w.obj[i].kind \in Wall =>
    \A d \in Dir : IsInside(w.obj[i].owner, d) /\ Neighbour(w.obj[i].owner, d) \notin U => Knows(w, i, d)

\* All of it, but for the sums of the tile t.
Nearly(A, U, t, w) ==
  Formed(w) /\ Settled(A, w) /\ Forces(w) /\ Sums(t, w) /\ Shapes(U, w) /\ Minds(w) /\ Walls(U, w)

Sound(A, U, w) == Nearly(A, U, None, w)

-----------------------------------------------------------------------------
NextTo(t, u) == Abs(X(t) - X(u)) + Abs(Y(t) - Y(u)) = 1

\* What is no projectile leaves its tile for one next to it only, and once a tick.
Moves(r, w, i) ==
  /\ r.obj[i].last_move <= w.obj[i].last_move
  /\ r.obj[i].kind \notin Projectile =>
       /\ r.obj[i].owner \in Tile => w.obj[i].owner \in Tile
       /\ r.obj[i].owner \in Tile /\ w.obj[i].owner # r.obj[i].owner =>
            /\ NextTo(r.obj[i].owner, w.obj[i].owner)
            /\ r.obj[i].last_move < r.tick /\ w.obj[i].last_move = r.tick

\* What the physics engine has to look at.
Waiting(w) == ToSet(w.to_add) \cup ToSet(w.under_force)

Remains(r, w) ==
  /\ r.last <= w.last /\ w.tick = r.tick /\ Len(r.list) <= Len(w.list)
  /\ Waiting(r) \subseteq Waiting(w)
  /\ \A i \in DOMAIN w.obj : i \in DOMAIN r.obj \/ i > r.last
  /\ \A i \in DOMAIN r.obj : i \in DOMAIN w.obj => w.obj[i].kind = r.obj[i].kind
  /\ \A i \in DOMAIN r.obj : r.obj[i].kind \in Closet \cup {"human"} => i \in DOMAIN w.obj
  /\ \A h \in DOMAIN r.obj : r.obj[h].kind = "human" => w.own[h].pulled \in {r.own[h].pulled, None}

\* What became of one world in a part of a step.
Since(r, w) == Remains(r, w) /\ \A i \in DOMAIN r.obj : i \in DOMAIN w.obj => Moves(r, w, i)

Sane(A, U, r, w) == Formed(r) /\ Sound(A, U, w) /\ Since(r, w)

-----------------------------------------------------------------------------
\* A function rebuilt from its own values is the same function.
LEMMA KeptIs == \A f : Kept(f) = f
BY DEF Kept

\* What storing a tile's sum changes.
LEMMA WithSumIs ==
  ASSUME NEW w, DOMAIN w = Members, NEW t, NEW sum
  PROVE  /\ Only({"sum", "flags"}, w, WithSum(w, t, sum))
         /\ WithSum(w, t, sum).sum = [w.sum EXCEPT ![t] = sum]
         /\ WithSum(w, t, sum).flags = [w.flags EXCEPT ![t] = AtmosFlags(w, t, sum)]
BY DEF Only, Members, WithSum

\* What appending an id to a container changes: its content and the id's owner.
LEMMA PutIs ==
  ASSUME NEW w, DOMAIN w = Members, NEW c, NEW i
  PROVE  /\ Only({"obj", "content"}, w, Put(w, c, i))
         /\ Put(w, c, i).content = [w.content EXCEPT ![c] = Append(w.content[c], i)]
         /\ Put(w, c, i).obj = [w.obj EXCEPT ![i] = [w.obj[i] EXCEPT !.owner = c]]
BY DEF Only, Members, Put

\* The members of the world two worlds share.
LEMMA SameFields ==
  ASSUME NEW S, NEW w, NEW v, Only(S, w, v)
  PROVE  /\ "obj" \notin S => v.obj = w.obj
         /\ "own" \notin S => v.own = w.own
         /\ "content" \notin S => v.content = w.content
         /\ "turf" \notin S => v.turf = w.turf
         /\ "sum" \notin S => v.sum = w.sum
         /\ "flags" \notin S => v.flags = w.flags
         /\ "tick" \notin S => v.tick = w.tick
         /\ "last" \notin S => v.last = w.last
         /\ "list" \notin S => v.list = w.list
         /\ "to_add" \notin S => v.to_add = w.to_add
         /\ "under_force" \notin S => v.under_force = w.under_force
         /\ "chance" \notin S => v.chance = w.chance
         /\ "mind" \notin S => v.mind = w.mind
         /\ "music" \notin S => v.music = w.music
         /\ "lobby" \notin S => v.lobby = w.lobby
         /\ DOMAIN v = Members /\ DOMAIN w = Members
BY DEF Only, Members

-----------------------------------------------------------------------------
\* What became of a world in two parts became of it in both together.
LEMMA SinceTrans ==
  ASSUME NEW r, NEW w, NEW v, Counted(r), Objects(r), Counted(w), Objects(w), Counted(v), Objects(v),
         Queues(r), Queues(w), Queues(v), Since(r, w), Since(w, v)
  PROVE  Since(r, v)
<1>1. \A i \in DOMAIN r.obj : i \in DOMAIN v.obj => i \in DOMAIN w.obj
  BY DEF Since, Remains, Objects, Counted
<1>2. Remains(r, v)
  <2>1. Len(r.list) \in Nat /\ Len(w.list) \in Nat /\ Len(v.list) \in Nat
    BY LenProperties DEF Queues
  <2>2. r.last <= v.last /\ v.tick = r.tick /\ Len(r.list) <= Len(v.list)
    BY <2>1 DEF Since, Remains, Counted
  <2>3. \A i \in DOMAIN v.obj : i \in DOMAIN r.obj \/ i > r.last
    BY DEF Since, Remains, Objects, Counted
  <2>4. \A i \in DOMAIN r.obj : i \in DOMAIN v.obj => v.obj[i].kind = r.obj[i].kind
    BY <1>1 DEF Since, Remains
  <2>5. \A i \in DOMAIN r.obj : r.obj[i].kind \in Closet \cup {"human"} => i \in DOMAIN v.obj
    BY DEF Since, Remains
  <2>6. \A h \in DOMAIN r.obj : r.obj[h].kind = "human" => v.own[h].pulled \in {r.own[h].pulled, None}
    BY DEF Since, Remains
  <2>7. Waiting(r) \subseteq Waiting(v)
    BY DEF Since, Remains
  <2> QED BY <2>2, <2>3, <2>4, <2>5, <2>6, <2>7 DEF Remains
<1>3. ASSUME NEW i \in DOMAIN r.obj, i \in DOMAIN v.obj PROVE Moves(r, v, i)
  <2>1. i \in DOMAIN w.obj /\ w.obj[i].kind = r.obj[i].kind /\ w.tick = r.tick /\ v.tick = r.tick /\ r.tick \in Nat
    BY <1>1, <1>3 DEF Since, Remains, Counted
  <2>2. Moves(r, w, i) /\ Moves(w, v, i)
    BY <1>3, <2>1 DEF Since
  <2>3. /\ r.obj[i].last_move \in Nat /\ w.obj[i].last_move \in Nat /\ v.obj[i].last_move \in Nat
        /\ v.obj[i].last_move <= v.tick
    BY <1>3, <2>1 DEF Objects, Object
  <2> QED BY <2>1, <2>2, <2>3 DEF Moves
<1> QED BY <1>2, <1>3 DEF Since

\* Nothing becomes of a world in no part of a step.
LEMMA SinceSelf ==
  ASSUME NEW w, Counted(w), Objects(w), Queues(w)
  PROVE  Since(w, w)
<1>1. Len(w.list) \in Nat /\ w.last \in Nat
  BY LenProperties DEF Queues, Counted
<1>2. \A i \in DOMAIN w.obj : w.obj[i].last_move \in Nat
  BY DEF Objects, Object
<1> QED BY <1>1, <1>2 DEF Since, Remains, Moves

\* A chain of steps of which each is sound.
LEMMA SaneStep ==
  ASSUME NEW A, NEW U, NEW r, NEW w, NEW B, NEW V, NEW v,
         Sane(A, U, r, w), Sound(B, V, v), Since(w, v)
  PROVE  Sane(B, V, r, v)
BY SinceTrans DEF Sane, Sound, Nearly, Formed

\* A sound world is sane with respect to itself.
LEMMA SaneStart ==
  ASSUME NEW A, NEW U, NEW w, Sound(A, U, w)
  PROVE  Sane(A, U, w, w)
BY SinceSelf DEF Sane, Sound, Nearly, Formed

-----------------------------------------------------------------------------
(* Parts of soundness that a change does not touch.                        *)

Kin(w, v) == DOMAIN v.obj = DOMAIN w.obj /\ \A j \in DOMAIN w.obj : v.obj[j].kind = w.obj[j].kind

Twins(w, v) ==
  /\ DOMAIN v.obj = DOMAIN w.obj
  /\ \A j \in DOMAIN w.obj : v.obj[j].kind = w.obj[j].kind /\ v.obj[j].owner = w.obj[j].owner

SameSlots(w, v) ==
  \A h \in DOMAIN w.obj : w.obj[h].kind = "human" => v.own[h].slot = w.own[h].slot

\* Objects that kept kind and owner kept their kind.
LEMMA TwinsAreKin ==
  ASSUME NEW w, NEW v, Twins(w, v)
  PROVE  Kin(w, v)
BY DEF Twins, Kin

\* What a container has does not depend on the rest of the world.
LEMMA HasSame ==
  ASSUME NEW w, NEW v, NEW c, NEW i, Twins(w, v), SameSlots(w, v), v.turf = w.turf, v.content = w.content
  PROVE  Has(v, c, i) <=> Has(w, c, i)
<1>1. KindOf(v, c) = KindOf(w, c)
  BY DEF KindOf, IsValid, Twins
<1>2. KindOf(w, c) = "human" => SlotsOf(v, c, i) = SlotsOf(w, c, i)
  BY DEF KindOf, IsValid, SameSlots, SlotsOf
<1>3. /\ \A class : Is(v, c, class) <=> Is(w, c, class)
      /\ Is(w, c, {"human"}) => KindOf(w, c) = "human"
  BY <1>1 DEF Is
<1> QED BY <1>2, <1>3 DEF Has

\* Being settled does not depend on anything but owners, contents, turfs and slots.
LEMMA SettledSame ==
  ASSUME NEW A, NEW w, NEW v, Settled(A, w),
         Twins(w, v), SameSlots(w, v), v.turf = w.turf, v.content = w.content
  PROVE  Settled(A, v)
<1>1. \A i, c, class : Lies(A, w, i, c, class) => Lies(A, v, i, c, class)
  BY DEF Lies, Twins
<1>2. OnTiles(A, v)
  BY <1>1 DEF OnTiles, Settled
<1>3. InContents(A, v)
  BY <1>1 DEF InContents, Settled
<1>4. InSlots(A, v)
  BY <1>1 DEF InSlots, Settled, Twins, SameSlots
<1>5. Homed(A, v)
  BY HasSame DEF Homed, Settled, Twins
<1> QED BY <1>2, <1>3, <1>4, <1>5 DEF Settled

SamePass(w, v) == \A j \in DOMAIN w.obj : v.obj[j].pass = w.obj[j].pass

\* The sum of a tile depends on the passabilities of what stands there only.
LEMMA SummedSame ==
  ASSUME NEW w, NEW v, NEW t, Standing(v, t) = Standing(w, t),
         \A i \in Standing(w, t) : v.obj[i].pass = w.obj[i].pass
  PROVE  Summed(v, t) = Summed(w, t)
<1>1. \A d \in Way : {v.obj[i].pass[d] : i \in Standing(v, t)} = {w.obj[i].pass[d] : i \in Standing(w, t)}
  OBVIOUS
<1>2. [d \in Way |-> Least({FULL} \cup {v.obj[i].pass[d] : i \in Standing(v, t)})]
      = [d \in Way |-> Least({FULL} \cup {w.obj[i].pass[d] : i \in Standing(w, t)})]
  BY <1>1
<1> QED BY <1>2, KeptIs DEF Summed

\* So does the record of it.
LEMMA SumAtSame ==
  ASSUME NEW w, NEW v, NEW t, SumAt(w, t), v.sum[t] = w.sum[t], v.flags[t] = w.flags[t],
         v.turf[t] = w.turf[t], v.content[t] = w.content[t],
         \A i \in Standing(w, t) : v.obj[i].pass = w.obj[i].pass /\ v.obj[i].kind = w.obj[i].kind
  PROVE  SumAt(v, t)
<1>1. Standing(v, t) = Standing(w, t)
  BY DEF Standing
<1>2. Summed(v, t) = Summed(w, t)
  BY <1>1, SummedSame
<1>3. w.turf[t] # None => w.turf[t] \in Standing(w, t)
  BY DEF Standing
<1>4. AtmosFlags(v, t, v.sum[t]) = AtmosFlags(w, t, w.sum[t])
  BY <1>3 DEF AtmosFlags
<1> QED BY <1>2, <1>4 DEF SumAt

\* What stands on a tile is there, and its own.
LEMMA StandingLies ==
  ASSUME NEW A, NEW w, Settled(A, w), Contents(w), NEW t \in Tile, NEW i \in Standing(w, t)
  PROVE  i \in DOMAIN w.obj /\ i \notin A /\ w.obj[i].owner = t
<1>1. CASE i = w.turf[t] /\ i # None
  BY <1>1 DEF Settled, OnTiles, Lies
<1>2. CASE i \in ToSet(w.content[t])
  <2>1. t \in DOMAIN w.content /\ w.content[t] \in Seq(Nat)
    BY DEF Contents
  <2>2. PICK n \in 1 .. Len(w.content[t]) : i = w.content[t][n]
    BY <1>2, <2>1, LenProperties DEF ToSet
  <2> QED BY <2>1, <2>2 DEF Settled, InContents, Lies
<1> QED BY <1>1, <1>2 DEF Standing

\* A change of one object elsewhere leaves the sums of the other tiles current.
LEMMA SumsSame ==
  ASSUME NEW A, NEW w, NEW v, NEW t, NEW i, Settled(A, w), Contents(w), Sums(t, w),
         Twins(w, v), \A j \in DOMAIN w.obj : j = i \/ v.obj[j].pass = w.obj[j].pass,
         i \in DOMAIN w.obj => w.obj[i].owner = t \/ w.obj[i].owner \notin Tile \/ v.obj[i].pass = w.obj[i].pass \/ i \in A,
         v.turf = w.turf, v.content = w.content, v.sum = w.sum, v.flags = w.flags
  PROVE  Sums(t, v)
<1> SUFFICES ASSUME NEW u \in Tile, u # t PROVE SumAt(v, u)
  BY DEF Sums
<1>1. SumAt(w, u)
  BY DEF Sums
<1>2. ASSUME NEW j \in Standing(w, u) PROVE v.obj[j].pass = w.obj[j].pass /\ v.obj[j].kind = w.obj[j].kind
  <2>1. j \in DOMAIN w.obj /\ j \notin A /\ w.obj[j].owner = u
    BY StandingLies
  <2> QED BY <2>1 DEF Twins
<1> QED BY <1>1, <1>2, SumAtSame

\* A change of one object leaves the shapes of the others.
LEMMA ShapesSame ==
  ASSUME NEW U, NEW w, NEW v, NEW i, Shapes(U, w), DOMAIN v.obj = DOMAIN w.obj,
         \A j \in DOMAIN w.obj : j # i => v.obj[j] = w.obj[j] /\ v.own[j] = w.own[j]
  PROVE  Shapes(U \cup {i}, v)
BY DEF Shapes, Shaped

\* Forces stay queued while motions and queues stay.
LEMMA ForcesSame ==
  ASSUME NEW w, NEW v, Forces(w), DOMAIN v.obj = DOMAIN w.obj,
         \A j \in DOMAIN w.obj : v.obj[j].kind = w.obj[j].kind /\ v.obj[j].motion = w.obj[j].motion,
         v.to_add = w.to_add, v.under_force = w.under_force
  PROVE  Forces(v)
BY DEF Forces

\* Minds stay sound while the mobs and their lives stay.
LEMMA MindsSame ==
  ASSUME NEW w, NEW v, Minds(w), v.mind = w.mind, v.music = w.music,
         \A j \in DOMAIN w.obj : w.obj[j].kind \in Mob /\ (\E p \in Player : w.mind[p] = j) =>
           /\ j \in DOMAIN v.obj /\ v.obj[j].kind = w.obj[j].kind
           /\ w.obj[j].kind = "human" /\ v.own[j].dead => w.own[j].dead
  PROVE  Minds(v)
<1>1. ASSUME NEW p \in Player, w.mind[p] # None
      PROVE  /\ w.mind[p] \in DOMAIN w.obj /\ w.obj[w.mind[p]].kind \in Mob
             /\ w.mind[p] \in DOMAIN v.obj /\ v.obj[w.mind[p]].kind = w.obj[w.mind[p]].kind
             /\ v.obj[w.mind[p]].kind = "human" => ~v.own[w.mind[p]].dead
  BY <1>1 DEF Minds
<1> QED BY <1>1 DEF Minds

\* Walls stay matched while walls and turfs stay.
LEMMA WallsSame ==
  ASSUME NEW U, NEW w, NEW v, Walls(U, w), Twins(w, v), v.turf = w.turf,
         \A j \in DOMAIN w.obj : w.obj[j].kind \in Wall => v.own[j].walls = w.own[j].walls
  PROVE  Walls(U, v)
<1> SUFFICES ASSUME NEW i \in DOMAIN v.obj, i \notin U, v.obj[i].kind \in Wall, NEW d \in Dir,
                    IsInside(v.obj[i].owner, d), Neighbour(v.obj[i].owner, d) \notin U
             PROVE  Knows(v, i, d)
  BY DEF Walls
<1>1. i \in DOMAIN w.obj /\ w.obj[i].kind \in Wall /\ w.obj[i].owner = v.obj[i].owner
  BY DEF Twins
<1>2. Knows(w, i, d)
  BY <1>1 DEF Walls
<1>3. \A j : KindOf(v, j) = KindOf(w, j)
  BY DEF KindOf, IsValid, Twins
<1>4. WallAt(v, i, d) = WallAt(w, i, d)
  BY <1>1, <1>3 DEF WallAt, Owner, Is
<1> QED BY <1>1, <1>2, <1>4 DEF Knows

\* What is matched but for some tiles and walls is matched but for more.
LEMMA WallsMore ==
  ASSUME NEW U, NEW V, NEW w, Walls(U, w), U \subseteq V
  PROVE  Walls(V, w)
BY DEF Walls

\* Contents stay well formed while kinds stay.
LEMMA ContentsSame ==
  ASSUME NEW w, NEW v, Contents(w), Kin(w, v), v.content = w.content
  PROVE  Contents(v)
<1>1. \A c, class : Is(w, c, class) => Is(v, c, class)
  BY DEF Is, KindOf, IsValid, Kin
<1> QED BY <1>1 DEF Contents, Kin

\* Members of one object change, and its place does not.
LEMMA OwnedSame ==
  ASSUME NEW w, NEW v, NEW i, Owned(w), Kin(w, v), w.last <= v.last, w.last \in Nat, v.last \in Nat,
         v.own = [j \in DOMAIN w.obj |-> v.own[j]],
         \A j \in DOMAIN w.obj : j # i => v.own[j] = w.own[j],
         i \in DOMAIN w.obj => OwnFits(w, w.obj[i].kind, v.own[i])
  PROVE  Owned(v)
<1>1. \A j, class : Refers(w, j, class) => Refers(v, j, class)
  BY DEF Refers, IsValid, Kin
<1>2. \A kind, own : OwnFits(w, kind, own) => OwnFits(v, kind, own)
  BY <1>1 DEF OwnFits
<1>3. \A j \in DOMAIN w.obj : OwnFits(w, w.obj[j].kind, v.own[j])
  BY DEF Owned
<1> QED BY <1>2, <1>3 DEF Owned, Kin

-----------------------------------------------------------------------------
(* Changes of one object that stays where it is.                           *)

ObjFits(w, v, i) ==
  /\ v.obj[i] \in Object
  /\ v.obj[i].kind = w.obj[i].kind /\ v.obj[i].owner = w.obj[i].owner
  /\ v.obj[i].last_move <= w.tick
  /\ w.obj[i].kind = "glassdoor" => v.obj[i].anchored
  /\ ~IsZero(v.obj[i].motion.force) =>
       w.obj[i].kind \in Movable /\ i \in ToSet(v.to_add) \cup ToSet(v.under_force)

OwnStays(w, v, i) ==
  /\ OwnFits(w, w.obj[i].kind, v.own[i])
  /\ w.obj[i].kind = "human" =>
       /\ v.own[i].slot = w.own[i].slot
       /\ v.own[i].dead => w.own[i].dead \/ \A p \in Player : w.mind[p] # i
  /\ w.obj[i].kind \in Wall => v.own[i].walls = w.own[i].walls

QueuesGrow(w, v) ==
  /\ v.list \in Seq(1 .. w.last) /\ v.to_add \in Seq(1 .. w.last)
  /\ ToSet(w.to_add) \subseteq ToSet(v.to_add)
  /\ v.chance \in Chance

Changes(w, v, i) ==
  /\ Only({"obj", "own", "list", "to_add", "chance", "failed", "lobby", "env"}, w, v)
  /\ v.obj = [j \in DOMAIN w.obj |-> v.obj[j]] /\ v.own = [j \in DOMAIN w.obj |-> v.own[j]]
  /\ \A j \in DOMAIN w.obj : j # i => v.obj[j] = w.obj[j] /\ v.own[j] = w.own[j]
  /\ i \in DOMAIN w.obj => ObjFits(w, v, i) /\ OwnStays(w, v, i)
  /\ QueuesGrow(w, v)

\* A change of one object's own data keeps all of the invariant but that object's shape and its tile's sum.
LEMMA Changed ==
  ASSUME NEW A, NEW U, NEW t, NEW w, NEW v, NEW i, Nearly(A, U, t, w), Changes(w, v, i),
         i \in DOMAIN w.obj =>
           v.obj[i].pass = w.obj[i].pass \/ w.obj[i].owner = t \/ w.obj[i].owner \notin Tile \/ i \in A
  PROVE  Nearly(A, U \cup {i}, t, v)
<1>1. /\ v.content = w.content /\ v.turf = w.turf /\ v.sum = w.sum /\ v.flags = w.flags /\ v.tick = w.tick
      /\ v.last = w.last /\ v.under_force = w.under_force /\ v.mind = w.mind /\ v.music = w.music
      /\ DOMAIN v = Members
  BY SameFields DEF Changes
<1>2. Twins(w, v) /\ SameSlots(w, v)
  BY DEF Twins, SameSlots, Changes, ObjFits, OwnStays
<1>3. Formed(v)
  <2>1. Counted(v)
    BY <1>1 DEF Counted, Nearly, Formed
  <2>2. Objects(v)
    <3>1. Objects(w)
      BY DEF Nearly, Formed
    <3>2. DOMAIN v.obj = DOMAIN w.obj /\ v.obj = [j \in DOMAIN w.obj |-> v.obj[j]]
      BY <1>2 DEF Twins, Changes
    <3>3. ASSUME NEW j \in DOMAIN w.obj
          PROVE  /\ v.obj[j] \in Object /\ v.obj[j].last_move <= v.tick
                 /\ v.obj[j].kind = "glassdoor" => v.obj[j].anchored
      <4>1. CASE j = i
        BY <1>1, <4>1 DEF Changes, ObjFits
      <4>2. CASE j # i
        BY <1>1, <3>1, <4>2 DEF Changes, Objects
      <4> QED BY <4>1, <4>2
    <3> QED BY <1>1, <3>1, <3>2, <3>3 DEF Objects
  <2>3. Owned(v)
    <3>1. Owned(w) /\ w.last \in Nat
      BY DEF Nearly, Formed, Counted
    <3> QED BY <1>1, <1>2, <3>1, OwnedSame, TwinsAreKin DEF Changes, OwnStays
  <2>4. Contents(v)
    BY <1>1, <1>2, ContentsSame, TwinsAreKin DEF Nearly, Formed
  <2>5. Grid(v)
    BY <1>1 DEF Grid, Nearly, Formed
  <2>6. Queues(v)
    BY <1>1 DEF Queues, Nearly, Formed, Changes, QueuesGrow
  <2> QED BY <2>1, <2>2, <2>3, <2>4, <2>5, <2>6 DEF Formed
<1>4. Settled(A, v)
  BY <1>1, <1>2, SettledSame DEF Nearly
<1>5. Forces(v)
  <2>1. Forces(w) /\ DOMAIN v.obj = DOMAIN w.obj /\ ToSet(w.to_add) \subseteq ToSet(v.to_add)
    BY <1>2 DEF Nearly, Twins, Changes, QueuesGrow
  <2>2. ASSUME NEW j \in DOMAIN w.obj, ~IsZero(v.obj[j].motion.force)
        PROVE  v.obj[j].kind \in Movable /\ j \in ToSet(v.to_add) \cup ToSet(v.under_force)
    <3>1. CASE j = i
      BY <1>1, <2>2, <3>1 DEF Changes, ObjFits
    <3>2. CASE j # i
      BY <1>1, <2>1, <2>2, <3>2 DEF Changes, Forces
    <3> QED BY <3>1, <3>2
  <2> QED BY <1>1, <2>1, <2>2 DEF Forces
<1>6. Sums(t, v)
  <2>1. \A j \in DOMAIN w.obj : j = i \/ v.obj[j].pass = w.obj[j].pass
    BY DEF Changes
  <2> QED BY <1>1, <1>2, <2>1, SumsSame DEF Nearly, Formed
<1>7. Shapes(U \cup {i}, v)
  BY ShapesSame DEF Nearly, Changes
<1>8. Minds(v)
  <2>1. \A j \in DOMAIN w.obj : w.obj[j].kind \in Mob /\ (\E p \in Player : w.mind[p] = j) =>
           /\ j \in DOMAIN v.obj /\ v.obj[j].kind = w.obj[j].kind
           /\ w.obj[j].kind = "human" /\ v.own[j].dead => w.own[j].dead
    BY DEF Changes, ObjFits, OwnStays
  <2> QED BY <1>1, <2>1, MindsSame DEF Nearly
<1>9. Walls(U \cup {i}, v)
  <2>1. \A j \in DOMAIN w.obj : w.obj[j].kind \in Wall => v.own[j].walls = w.own[j].walls
    BY DEF Changes, OwnStays
  <2>2. Walls(U, v)
    BY <1>1, <1>2, <2>1, WallsSame DEF Nearly
  <2> QED BY <2>2, WallsMore
<1> QED BY <1>3, <1>4, <1>5, <1>6, <1>7, <1>8, <1>9 DEF Nearly

\* And it is no move.
LEMMA ChangedSince ==
  ASSUME NEW w, NEW v, NEW i, Formed(w), Changes(w, v, i), Len(w.list) <= Len(v.list),
         i \in DOMAIN w.obj =>
           /\ v.obj[i].last_move = w.obj[i].last_move
           /\ w.obj[i].kind = "human" => v.own[i].pulled \in {w.own[i].pulled, None}
  PROVE  Since(w, v)
<1>1. v.tick = w.tick /\ v.last = w.last /\ w.last \in Nat
  BY SameFields DEF Changes, Formed, Counted
<1>2. Twins(w, v)
  BY DEF Twins, Changes, ObjFits
<1>3. Remains(w, v)
  <2>1. Len(w.list) <= Len(v.list) /\ DOMAIN v.obj = DOMAIN w.obj /\ \A j \in DOMAIN w.obj : v.obj[j].kind = w.obj[j].kind
    BY <1>2 DEF Twins
  <2>2. \A h \in DOMAIN w.obj : w.obj[h].kind = "human" => v.own[h].pulled \in {w.own[h].pulled, None}
    BY DEF Changes
  <2>3. Waiting(w) \subseteq Waiting(v)
    BY SameFields DEF Changes, QueuesGrow, Waiting
  <2> QED BY <1>1, <2>1, <2>2, <2>3 DEF Remains
<1>4. \A j \in DOMAIN w.obj : v.obj[j].last_move = w.obj[j].last_move /\ w.obj[j].last_move \in Nat
  BY DEF Changes, Formed, Objects, Object
<1> QED BY <1>2, <1>3, <1>4 DEF Since, Moves, Twins

\* Coordinates on the map are those of a tile.
LEMMA AtIsTile ==
  ASSUME NEW x \in 0 .. Width - 1, NEW y \in 0 .. Height - 1
  PROVE  At(x, y) \in Tile
<1>1. Width \in Nat /\ Height \in Nat /\ Width * y \in Nat /\ Width * (Height - 1 - y) \in Nat
  BY MapAssumption
<1>2. Width * Height = Width * y + Width * (Height - 1 - y) + Width
  BY <1>1
<1>3. Width * Height \in Nat
  BY <1>1
<1> QED BY <1>1, <1>2, <1>3 DEF At, Tile

\* A neighbour that is another tile is a tile of the map.
LEMMA NeighbourIsTile ==
  ASSUME NEW t, NEW d, Neighbour(t, d) # t \/ t \in Tile
  PROVE  Neighbour(t, d) \in Tile
BY AtIsTile DEF Neighbour

\* An object whose shape is right needs no settling.
LEMMA Straightened ==
  ASSUME NEW A, NEW U, NEW t, NEW w, NEW i, Nearly(A, U \cup {i}, t, w),
         i \in DOMAIN w.obj => Shaped(w, i) /\ w.obj[i].kind \notin Wall, i \notin Tile
  PROVE  Nearly(A, U, t, w)
<1>1. Shapes(U, w)
  BY DEF Nearly, Shapes
<1>2. Walls(U, w)
  <2> SUFFICES ASSUME NEW j \in DOMAIN w.obj, j \notin U, w.obj[j].kind \in Wall, NEW d \in Dir,
                      IsInside(w.obj[j].owner, d), Neighbour(w.obj[j].owner, d) \notin U
               PROVE  Knows(w, j, d)
    BY DEF Walls
  <2>1. j \notin U \cup {i}
    OBVIOUS
  <2>2. Neighbour(w.obj[j].owner, d) # i
    BY NeighbourIsTile DEF IsInside
  <2> QED BY <2>1, <2>2 DEF Nearly, Walls
<1> QED BY <1>1, <1>2 DEF Nearly

-----------------------------------------------------------------------------
(* The sums of a tile.                                                     *)

\* The least of a set of levels that has FULL is in it and bounds it.
LEMMA LeastIs ==
  ASSUME NEW S, S \subseteq PassableLevel, FULL \in S
  PROVE  Least(S) \in S /\ \A n \in S : Least(S) <= n
<1>1. \E m \in S : \A n \in S : m <= n
  <2> USE DEF PassableLevel, EMPTY, AIR, SMALL_ITEM, BIG_ITEM, SMALL_CREATURE, BIG_CREATURE, FULL
  <2>1. CASE 0 \in S
    BY <2>1
  <2>2. CASE 0 \notin S /\ 10 \in S
    BY <2>2
  <2>3. CASE {0, 10} \cap S = {} /\ 20 \in S
    BY <2>3
  <2>4. CASE {0, 10, 20} \cap S = {} /\ 30 \in S
    BY <2>4
  <2>5. CASE {0, 10, 20, 30} \cap S = {} /\ 40 \in S
    BY <2>5
  <2>6. CASE {0, 10, 20, 30, 40} \cap S = {} /\ 50 \in S
    BY <2>6
  <2>7. CASE {0, 10, 20, 30, 40, 50} \cap S = {}
    BY <2>7
  <2> QED BY <2>1, <2>2, <2>3, <2>4, <2>5, <2>6, <2>7
<1> QED BY <1>1 DEF Least

\* Levels are integers.
LEMMA LevelIsInt == PassableLevel \subseteq Int /\ FULL \in PassableLevel /\ EMPTY \in PassableLevel
BY DEF PassableLevel, EMPTY, AIR, SMALL_ITEM, BIG_ITEM, SMALL_CREATURE, BIG_CREATURE, FULL

\* A set of levels with one more: the new level, or the least of the old ones.
LEMMA LeastMore ==
  ASSUME NEW S, S \subseteq PassableLevel, FULL \in S, NEW p \in PassableLevel
  PROVE  Least(S \cup {p}) = AtMost(Least(S), p)
<1>1. Least(S) \in S /\ \A n \in S : Least(S) <= n
  BY LeastIs
<1>2. Least(S \cup {p}) \in S \cup {p} /\ \A n \in S \cup {p} : Least(S \cup {p}) <= n
  BY LeastIs
<1>3. Least(S) \in Int /\ p \in Int /\ Least(S \cup {p}) \in Int
  BY <1>1, <1>2, LevelIsInt
<1>4. Least(S \cup {p}) <= p /\ Least(S \cup {p}) <= Least(S)
  BY <1>1, <1>2
<1>5. CASE Least(S \cup {p}) = p
  BY <1>3, <1>4, <1>5 DEF AtMost
<1>6. CASE Least(S \cup {p}) \in S
  <2>1. Least(S) <= Least(S \cup {p})
    BY <1>1, <1>6
  <2>2. Least(S) = Least(S \cup {p})
    BY <1>3, <1>4, <2>1
  <2> QED BY <1>3, <1>4, <2>2 DEF AtMost
<1> QED BY <1>2, <1>5, <1>6

\* What stands on a tile has levels.
LEMMA StandingLevels ==
  ASSUME NEW A, NEW w, Settled(A, w), Contents(w), Objects(w), NEW t \in Tile, NEW d \in Way
  PROVE  {FULL} \cup {w.obj[i].pass[d] : i \in Standing(w, t)} \subseteq PassableLevel
<1>1. \A i \in Standing(w, t) : w.obj[i].pass[d] \in PassableLevel
  BY StandingLies DEF Objects, Object
<1> QED BY <1>1, LevelIsInt

\* A sum is a level for each way.
LEMMA SummedType ==
  ASSUME NEW A, NEW w, Settled(A, w), Contents(w), Objects(w), NEW t \in Tile
  PROVE  Summed(w, t) \in [Way -> PassableLevel]
<1>1. \A d \in Way : Least({FULL} \cup {w.obj[i].pass[d] : i \in Standing(w, t)}) \in PassableLevel
  <2> TAKE d \in Way
  <2>1. PICK S : S = {FULL} \cup {w.obj[i].pass[d] : i \in Standing(w, t)}
    OBVIOUS
  <2>2. S \subseteq PassableLevel /\ FULL \in S
    BY <2>1, StandingLevels
  <2> QED BY <2>1, <2>2, LeastIs
<1> DEFINE f(d) == Least({FULL} \cup {w.obj[i].pass[d] : i \in Standing(w, t)})
<1>2. Summed(w, t) = [d \in Way |-> f(d)]
  BY KeptIs DEF Summed
<1> HIDE DEF f
<1>3. \A d \in Way : f(d) \in PassableLevel
  BY <1>1 DEF f
<1> QED BY <1>2, <1>3

\* UpdatePassable makes the sums of its tile current, and with that all of them.
LEMMA Updated ==
  ASSUME NEW A, NEW U, NEW t, NEW w, Nearly(A, U, t, w)
  PROVE  Sound(A, U, UpdatePassable(w, t)) /\ Since(w, UpdatePassable(w, t))
<1>1. CASE t \notin Tile
  <2>1. UpdatePassable(w, t) = w
    BY <1>1 DEF UpdatePassable
  <2>2. Sums(None, w)
    BY <1>1 DEF Nearly, Sums
  <2>3. Since(w, w)
    BY SinceSelf DEF Nearly, Formed
  <2> QED BY <2>1, <2>2, <2>3 DEF Nearly, Sound
<1>2. CASE t \in Tile
  <2>1. PICK v : v = WithSum(w, t, Summed(w, t))
    OBVIOUS
  <2>2. UpdatePassable(w, t) = v
    BY <1>2, <2>1 DEF UpdatePassable
  <2>3. Formed(w) /\ Settled(A, w)
    BY DEF Nearly
  <2>4. /\ Only({"sum", "flags"}, w, v)
        /\ v.sum = [w.sum EXCEPT ![t] = Summed(w, t)]
        /\ v.flags = [w.flags EXCEPT ![t] = AtmosFlags(w, t, Summed(w, t))]
    BY <2>1, <2>3, WithSumIs DEF Formed, Counted
  <2>5. /\ v.obj = w.obj /\ v.own = w.own /\ v.content = w.content /\ v.turf = w.turf /\ v.tick = w.tick
        /\ v.last = w.last /\ v.list = w.list /\ v.to_add = w.to_add /\ v.under_force = w.under_force
        /\ v.chance = w.chance /\ v.mind = w.mind /\ v.music = w.music /\ DOMAIN v = Members
    BY <2>4, SameFields
  <2>6. Twins(w, v) /\ SameSlots(w, v)
    BY <2>5 DEF Twins, SameSlots
  <2>7. Formed(v)
    <3>1. Counted(v) /\ Objects(v) /\ Queues(v)
      BY <2>3, <2>5 DEF Formed, Counted, Objects, Queues
    <3>2. Contents(v)
      BY <2>3, <2>5, <2>6, ContentsSame, TwinsAreKin DEF Formed
    <3>3. Owned(v)
      BY <2>3, <2>5, <2>6 DEF Formed, Owned, OwnFits, Refers, IsValid
    <3>4. Grid(v)
      <4>1. Summed(w, t) \in [Way -> PassableLevel]
        BY <1>2, <2>3, SummedType DEF Formed
      <4>2. AtmosFlags(w, t, Summed(w, t)) \in SUBSET (Way \cup {"space", "no_objects"})
        BY DEF AtmosFlags
      <4> QED BY <2>3, <2>4, <2>5, <4>1, <4>2 DEF Formed, Grid
    <3> QED BY <3>1, <3>2, <3>3, <3>4 DEF Formed
  <2>8. Settled(A, v)
    BY <2>3, <2>5, <2>6, SettledSame
  <2>9. Sums(None, v)
    <3> SUFFICES ASSUME NEW u \in Tile PROVE SumAt(v, u)
      BY DEF Sums
    <3>0. t \in DOMAIN w.sum /\ t \in DOMAIN w.flags
      BY <1>2, <2>3 DEF Formed, Grid
    <3>1. CASE u = t
      <4>1. Summed(v, t) = Summed(w, t)
        BY <2>5, SummedSame DEF Standing
      <4>2. \A sum : AtmosFlags(v, t, sum) = AtmosFlags(w, t, sum)
        BY <2>5 DEF AtmosFlags
      <4> QED BY <2>4, <3>0, <3>1, <4>1, <4>2 DEF SumAt
    <3>2. CASE u # t
      <4>1. SumAt(w, u)
        BY <3>2 DEF Nearly, Sums
      <4>2. v.sum[u] = w.sum[u] /\ v.flags[u] = w.flags[u]
        BY <2>4, <3>2
      <4> QED BY <2>5, <4>1, <4>2, SumAtSame
    <3> QED BY <3>1, <3>2
  <2>10. Forces(v) /\ Shapes(U, v)
    BY <2>5 DEF Nearly, Forces, Shapes, Shaped
  <2>11. Minds(v)
    BY <2>5, MindsSame DEF Nearly
  <2>12. Walls(U, v)
    BY <2>5, <2>6, WallsSame DEF Nearly
  <2>13. Since(w, v)
    <3>1. Since(w, w)
      BY <2>3, SinceSelf DEF Formed
    <3> QED BY <2>5, <3>1 DEF Since, Remains, Moves, Waiting
  <2> QED BY <2>2, <2>7, <2>8, <2>9, <2>10, <2>11, <2>12, <2>13 DEF Nearly, Sound
<1> QED BY <1>1, <1>2

\* UpdatePassable writes sums and flags only.
LEMMA UpdateKeeps ==
  ASSUME NEW w, DOMAIN w = Members, NEW t
  PROVE  Only({"sum", "flags"}, w, UpdatePassable(w, t))
<1>1. CASE t \in Tile
  BY <1>1, WithSumIs DEF UpdatePassable
<1>2. CASE t \notin Tile
  BY <1>2 DEF UpdatePassable, Only
<1> QED BY <1>1, <1>2

\* The id of nothing is not the id of a tile.
LEMMA NoneIsNoTile == None \notin Tile
BY MapAssumption DEF None, Tile

\* What is sound is sound but for a tile.
LEMMA SoundIsNearly ==
  ASSUME NEW A, NEW U, NEW t, NEW w, Sound(A, U, w)
  PROVE  Nearly(A, U, t, w)
<1>1. \A u \in Tile : SumAt(w, u)
  BY NoneIsNoTile DEF Sound, Nearly, Sums
<1> QED BY <1>1 DEF Sound, Nearly, Sums

PassSet(w, i, d, p) == [w.obj EXCEPT ![i] = [w.obj[i] EXCEPT !.pass = [w.obj[i].pass EXCEPT ![d] = p]]]

\* A level is set, of an object that may be on a tile.
LEMMA SetPassableSound ==
  ASSUME NEW A, NEW U, NEW w, NEW i, Sound(A, U, w), NEW d, NEW p, i \in DOMAIN w.obj => p \in PassableLevel
  PROVE  /\ Sound(A, U \cup {i}, SetPassable(w, i, d, p))
         /\ Since(w, SetPassable(w, i, d, p))
         /\ Only({"obj", "sum", "flags"}, w, SetPassable(w, i, d, p))
         /\ SetPassable(w, i, d, p).obj = PassSet(w, i, d, p)
<1>0. Formed(w) /\ DOMAIN w = Members
  BY DEF Sound, Nearly, Formed, Counted
<1>v. PICK v : v = SetPassableSilently(w, i, d, p)
  OBVIOUS
<1>1. /\ SetPassable(w, i, d, p) = UpdatePassable(v, w.obj[i].owner)
      /\ Only({"obj"}, w, v)
      /\ v.obj = [w.obj EXCEPT ![i] = [w.obj[i] EXCEPT !.pass = [w.obj[i].pass EXCEPT ![d] = p]]]
  <2>1. SetPassable(w, i, d, p) = UpdatePassable(v, w.obj[i].owner)
    BY <1>v DEF SetPassable, SetPassableSilently
  <2>2. Only({"obj"}, w, v)
    BY <1>0, <1>v DEF SetPassableSilently, Only, Members
  <2>3. v.obj = [w.obj EXCEPT ![i] = [w.obj[i] EXCEPT !.pass = [w.obj[i].pass EXCEPT ![d] = p]]]
    BY <1>0, <1>v DEF SetPassableSilently, Members
  <2> QED BY <2>1, <2>2, <2>3
<1>2. PICK t : t = w.obj[i].owner
  OBVIOUS
<1>3. /\ v.own = w.own /\ v.list = w.list /\ v.to_add = w.to_add /\ v.under_force = w.under_force
      /\ v.chance = w.chance /\ DOMAIN v = Members /\ v.tick = w.tick /\ v.last = w.last
  BY <1>1, SameFields
<1>4. Nearly(A, U, t, w)
  BY SoundIsNearly
<1>5. Changes(w, v, i)
  <2>1. v.obj = [j \in DOMAIN w.obj |-> v.obj[j]] /\ v.own = [j \in DOMAIN w.obj |-> v.own[j]]
    BY <1>0, <1>1, <1>3 DEF Formed, Owned
  <2>2. \A j \in DOMAIN w.obj : j # i => v.obj[j] = w.obj[j] /\ v.own[j] = w.own[j]
    BY <1>1, <1>3
  <2>3. ASSUME i \in DOMAIN w.obj PROVE ObjFits(w, v, i) /\ OwnStays(w, v, i)
    <3>1. w.obj[i] \in Object /\ p \in PassableLevel /\ w.obj[i].last_move <= w.tick
      BY <1>0, <2>3 DEF Formed, Objects
    <3>2. v.obj[i] = [w.obj[i] EXCEPT !.pass = [w.obj[i].pass EXCEPT ![d] = p]]
      BY <1>1, <2>3
    <3>3. v.obj[i] \in Object
      BY <3>1, <3>2 DEF Object
    <3>4. ObjFits(w, v, i)
      <4>1. w.obj[i].kind = "glassdoor" => w.obj[i].anchored
        BY <1>0, <2>3 DEF Formed, Objects
      <4>2. ~IsZero(w.obj[i].motion.force) =>
              w.obj[i].kind \in Movable /\ i \in ToSet(v.to_add) \cup ToSet(v.under_force)
        BY <1>3, <2>3 DEF Sound, Nearly, Forces
      <4>3. /\ v.obj[i].kind = w.obj[i].kind /\ v.obj[i].owner = w.obj[i].owner
            /\ v.obj[i].last_move = w.obj[i].last_move /\ v.obj[i].anchored = w.obj[i].anchored
            /\ v.obj[i].motion = w.obj[i].motion
        BY <3>1, <3>2 DEF Object
      <4> QED BY <3>1, <3>3, <4>1, <4>2, <4>3 DEF ObjFits
    <3>5. OwnStays(w, v, i)
      BY <1>0, <1>3, <2>3 DEF OwnStays, Formed, Owned
    <3> QED BY <3>4, <3>5
  <2>4. QueuesGrow(w, v)
    BY <1>0, <1>3 DEF QueuesGrow, Formed, Queues
  <2>5. Only({"obj", "own", "list", "to_add", "chance", "failed", "lobby", "env"}, w, v)
    BY <1>1 DEF Only
  <2> QED BY <2>1, <2>2, <2>3, <2>4, <2>5 DEF Changes
<1>6. Nearly(A, U \cup {i}, t, v)
  BY <1>2, <1>4, <1>5, Changed
<1>7. Since(w, v)
  <2>1. Len(w.list) <= Len(v.list)
    BY <1>0, <1>3, LenProperties DEF Formed, Queues
  <2>2. i \in DOMAIN w.obj => v.obj[i].last_move = w.obj[i].last_move
    BY <1>0, <1>1 DEF Formed, Objects, Object
  <2> QED BY <1>0, <1>3, <1>5, <2>1, <2>2, ChangedSince
<1>8. Sound(A, U \cup {i}, UpdatePassable(v, t)) /\ Since(v, UpdatePassable(v, t))
  BY <1>6, Updated
<1>9. Since(w, UpdatePassable(v, t))
  BY <1>0, <1>6, <1>7, <1>8, SinceTrans DEF Sound, Nearly, Formed
<1>10. Only({"sum", "flags"}, v, UpdatePassable(v, t))
  BY <1>3, UpdateKeeps
<1>11. /\ Only({"obj", "sum", "flags"}, w, UpdatePassable(v, t))
       /\ UpdatePassable(v, t).obj = v.obj
  BY <1>1, <1>10 DEF Only, Members
<1> QED BY <1>1, <1>2, <1>8, <1>9, <1>11 DEF PassSet

-----------------------------------------------------------------------------
(* Coming and going.                                                       *)

\* What Append does to length, elements and the set of them.
LEMMA AppendIs ==
  ASSUME NEW S, NEW s \in Seq(S), NEW e \in S
  PROVE  /\ Append(s, e) \in Seq(S) /\ Len(Append(s, e)) = Len(s) + 1
         /\ \A n \in 1 .. Len(s) : Append(s, e)[n] = s[n]
         /\ Append(s, e)[Len(s) + 1] = e
         /\ Contains(Append(s, e), e)
         /\ \A f : Contains(s, f) => Contains(Append(s, e), f)
         /\ ToSet(Append(s, e)) = ToSet(s) \cup {e}
<1>1. /\ Append(s, e) \in Seq(S) /\ Len(Append(s, e)) = Len(s) + 1 /\ Len(s) \in Nat
      /\ \A n \in 1 .. Len(s) : Append(s, e)[n] = s[n]
      /\ Append(s, e)[Len(s) + 1] = e
      /\ DOMAIN s = 1 .. Len(s) /\ DOMAIN Append(s, e) = 1 .. Len(s) + 1
  BY AppendProperties, LenProperties
<1> QED BY <1>1 DEF Contains, ToSet

\* What is nowhere is put into a tile or a closet; the sums of a tile are not made yet.
LEMMA PutNearly ==
  ASSUME NEW A, NEW U, NEW w, NEW i \in DOMAIN w.obj, i \in A, Sound(A, U, w),
         NEW c, c \in Tile \/ Is(w, c, Closet), w.obj[i].kind \in Suits(c), NEW v, v = Put(w, c, i)
  PROVE  Nearly(A \ {i}, U, c, v)
<1>1. Formed(w) /\ Settled(A, w) /\ DOMAIN w = Members
  BY DEF Sound, Nearly, Formed, Counted
<1>2. /\ v.own = w.own /\ v.turf = w.turf /\ v.sum = w.sum /\ v.flags = w.flags /\ v.tick = w.tick
      /\ v.last = w.last /\ v.list = w.list /\ v.to_add = w.to_add /\ v.under_force = w.under_force
      /\ v.chance = w.chance /\ v.mind = w.mind /\ v.music = w.music /\ DOMAIN v = Members
      /\ v.content = [w.content EXCEPT ![c] = Append(w.content[c], i)]
      /\ v.obj = [w.obj EXCEPT ![i] = [w.obj[i] EXCEPT !.owner = c]]
  <2>1. /\ Only({"obj", "content"}, w, v)
        /\ v.content = [w.content EXCEPT ![c] = Append(w.content[c], i)]
        /\ v.obj = [w.obj EXCEPT ![i] = [w.obj[i] EXCEPT !.owner = c]]
    BY <1>1 DEF Put, Only, Members
  <2>2. /\ v.own = w.own /\ v.turf = w.turf /\ v.sum = w.sum /\ v.flags = w.flags /\ v.tick = w.tick
        /\ v.last = w.last /\ v.list = w.list /\ v.to_add = w.to_add /\ v.under_force = w.under_force
        /\ v.chance = w.chance /\ v.mind = w.mind /\ v.music = w.music /\ DOMAIN v = Members
    BY <2>1, SameFields
  <2> QED BY <2>1, <2>2
<1>3. c \in Nat /\ i \in Nat /\ c \in DOMAIN w.content /\ w.content[c] \in Seq(Nat)
  <2>1. i \in Nat
    BY <1>1, MapAssumption DEF Formed, Objects, Counted
  <2>2. c \in DOMAIN w.content /\ w.content[c] \in Seq(Nat)
    BY <1>1 DEF Formed, Contents, Is, KindOf, IsValid, Closet
  <2>3. c \in Tile => c \in Nat
    BY MapAssumption DEF Tile
  <2>4. Is(w, c, Closet) => c \in Nat
    <3>1. Is(w, c, Closet) => c \in DOMAIN w.obj
      BY DEF Is, KindOf, IsValid, Closet
    <3> QED BY <1>1, <3>1, MapAssumption DEF Formed, Objects, Counted
  <2> QED BY <2>1, <2>2, <2>3, <2>4
<1>4. /\ DOMAIN v.obj = DOMAIN w.obj /\ \A j \in DOMAIN w.obj : j # i => v.obj[j] = w.obj[j]
      /\ v.obj[i].owner = c /\ v.obj[i].kind = w.obj[i].kind /\ v.obj[i].motion = w.obj[i].motion
      /\ v.obj[i].pass = w.obj[i].pass /\ v.obj[i].dir = w.obj[i].dir /\ v.obj[i].anchored = w.obj[i].anchored
      /\ v.obj[i].last_move = w.obj[i].last_move /\ v.obj[i] \in Object
  <2>1. w.obj[i] \in Object
    BY <1>1 DEF Formed, Objects
  <2>2. v.obj[i] = [w.obj[i] EXCEPT !.owner = c] /\ DOMAIN v.obj = DOMAIN w.obj /\ \A j \in DOMAIN w.obj : j # i => v.obj[j] = w.obj[j]
    BY <1>2
  <2> QED BY <1>3, <2>1, <2>2 DEF Object
<1>5. Kin(w, v) /\ SameSlots(w, v)
  BY <1>2, <1>4 DEF Kin, SameSlots
<1>6. /\ Len(w.content[c]) \in Nat /\ v.content[c] \in Seq(Nat) /\ Len(v.content[c]) = Len(w.content[c]) + 1
      /\ \A n \in 1 .. Len(w.content[c]) : v.content[c][n] = w.content[c][n]
      /\ v.content[c][Len(w.content[c]) + 1] = i
      /\ Contains(v.content[c], i)
      /\ \A f : Contains(w.content[c], f) => Contains(v.content[c], f)
      /\ DOMAIN v.content = DOMAIN w.content /\ \A b \in DOMAIN w.content : b # c => v.content[b] = w.content[b]
      /\ ToSet(v.content[c]) = ToSet(w.content[c]) \cup {i}
  BY <1>2, <1>3, AppendIs, LenProperties
<1>7. Formed(v)
  <2>1. Counted(v)
    BY <1>1, <1>2 DEF Formed, Counted
  <2>2. Objects(v)
    <3>1. Objects(w) /\ v.obj = [j \in DOMAIN w.obj |-> v.obj[j]]
      BY <1>1, <1>2 DEF Formed
    <3>2. ASSUME NEW j \in DOMAIN w.obj
          PROVE  /\ v.obj[j] \in Object /\ v.obj[j].last_move <= v.tick
                 /\ v.obj[j].kind = "glassdoor" => v.obj[j].anchored
      BY <1>2, <1>4, <3>1 DEF Objects
    <3> QED BY <1>2, <1>4, <3>1, <3>2 DEF Objects
  <2>3. Owned(v)
    <3>1. Owned(w) /\ w.last \in Nat /\ w.last <= v.last
      BY <1>1, <1>2 DEF Formed, Counted
    <3>2. v.own = [j \in DOMAIN w.obj |-> v.own[j]] /\ OwnFits(w, w.obj[i].kind, v.own[i])
      BY <1>2, <3>1 DEF Owned
    <3> QED BY <1>2, <1>5, <3>1, <3>2, OwnedSame
  <2>4. Contents(v)
    <3>1. \A b, class : Is(w, b, class) => Is(v, b, class)
      BY <1>5 DEF Is, KindOf, IsValid, Kin
    <3> QED BY <1>1, <1>4, <1>6, <3>1 DEF Formed, Contents
  <2>5. Grid(v) /\ Queues(v)
    BY <1>1, <1>2 DEF Formed, Grid, Queues
  <2> QED BY <2>1, <2>2, <2>3, <2>4, <2>5 DEF Formed
<1>8. Settled(A \ {i}, v)
  <2>1. \A j, b, class : Lies(A, w, j, b, class) => j # i /\ Lies(A \ {i}, v, j, b, class)
    BY <1>4 DEF Lies
  <2>2. Lies(A \ {i}, v, i, c, Suits(c))
    BY <1>4 DEF Lies
  <2>3. OnTiles(A \ {i}, v)
    BY <1>1, <1>2, <2>1 DEF Settled, OnTiles
  <2>4. InContents(A \ {i}, v)
    <3> SUFFICES ASSUME NEW b \in DOMAIN v.content
                 PROVE  /\ \A n \in 1 .. Len(v.content[b]) : Lies(A \ {i}, v, v.content[b][n], b, Suits(b))
                        /\ \A m, n \in 1 .. Len(v.content[b]) : v.content[b][m] = v.content[b][n] => m = n
      BY DEF InContents
    <3>0. /\ b \in DOMAIN w.content
          /\ \A n \in 1 .. Len(w.content[b]) : Lies(A, w, w.content[b][n], b, Suits(b))
          /\ \A m, n \in 1 .. Len(w.content[b]) : w.content[b][m] = w.content[b][n] => m = n
      BY <1>1, <1>6 DEF Settled, InContents
    <3>1. CASE b # c
      BY <1>6, <2>1, <3>0, <3>1
    <3>2. CASE b = c
      <4>1. PICK k \in Nat : k = Len(w.content[c]) /\ k + 1 = Len(v.content[c])
        BY <1>6
      <4>2. \A n \in 1 .. k : v.content[c][n] # i /\ Lies(A \ {i}, v, v.content[c][n], c, Suits(c))
        BY <1>6, <2>1, <3>0, <3>2, <4>1
      <4>3. \A n \in 1 .. k + 1 : n \in 1 .. k \/ n = k + 1
        BY <4>1
      <4>4. v.content[c][k + 1] = i
        BY <1>6, <4>1
      <4>5. \A n \in 1 .. k + 1 : Lies(A \ {i}, v, v.content[c][n], c, Suits(c))
        BY <2>2, <4>2, <4>3, <4>4
      <4>6. \A m, n \in 1 .. k : v.content[c][m] = v.content[c][n] => m = n
        BY <1>6, <3>0, <3>2, <4>1
      <4>7. \A m, n \in 1 .. k + 1 : v.content[c][m] = v.content[c][n] => m = n
        BY <4>2, <4>3, <4>4, <4>6
      <4> QED BY <3>2, <4>1, <4>5, <4>7
    <3> QED BY <3>1, <3>2
  <2>5. InSlots(A \ {i}, v)
    <3> SUFFICES ASSUME NEW h \in DOMAIN v.obj, v.obj[h].kind = "human"
                 PROVE  /\ \A s \in Slot : v.own[h].slot[s] # None => Lies(A \ {i}, v, v.own[h].slot[s], h, Item)
                        /\ \A s, u \in Slot : v.own[h].slot[s] = v.own[h].slot[u] /\ v.own[h].slot[s] # None => s = u
      BY DEF InSlots
    <3>1. h \in DOMAIN w.obj /\ w.obj[h].kind = "human"
      BY <1>4
    <3>2. /\ \A s \in Slot : w.own[h].slot[s] # None => Lies(A, w, w.own[h].slot[s], h, Item)
          /\ \A s, u \in Slot : w.own[h].slot[s] = w.own[h].slot[u] /\ w.own[h].slot[s] # None => s = u
      BY <1>1, <3>1 DEF Settled, InSlots
    <3>3. v.own = w.own
      BY <1>2
    <3> QED BY <2>1, <3>2, <3>3
  <2>6. Homed(A \ {i}, v)
    <3> SUFFICES ASSUME NEW j \in DOMAIN v.obj, j \notin A \ {i}
                 PROVE  /\ v.obj[j].owner # None => Has(v, v.obj[j].owner, j)
                        /\ v.obj[j].kind \in Rooted => v.obj[j].owner \in Tile
      BY DEF Homed
    <3>0. \A b, class : Is(w, b, class) <=> Is(v, b, class)
      BY <1>5 DEF Is, KindOf, IsValid, Kin
    <3>1. CASE j = i
      <4>1. Has(v, c, i)
        BY <1>6, <3>0 DEF Has
      <4>2. w.obj[i].kind \in Rooted => c \in Tile
        BY DEF Suits, Rooted, Item, Turf, Closet, Wall, Gun, Cloth, Projectile
      <4> QED BY <1>4, <3>1, <4>1, <4>2
    <3>2. CASE j # i
      <4>1. /\ w.obj[j].owner # None => Has(w, w.obj[j].owner, j)
            /\ w.obj[j].kind \in Rooted => w.obj[j].owner \in Tile
        BY <1>1, <1>4, <3>2 DEF Settled, Homed
      <4>2. \A b : b \in Tile \/ Is(w, b, Closet) => b \in DOMAIN w.content
        BY <1>1 DEF Formed, Contents, Is, KindOf, IsValid, Closet
      <4>3. \A b : b \in DOMAIN w.content /\ Contains(w.content[b], j) => Contains(v.content[b], j)
        BY <1>6
      <4>4. ASSUME NEW b, Has(w, b, j) PROVE Has(v, b, j)
        <5>1. SlotsOf(v, b, j) = SlotsOf(w, b, j)
          BY <1>2 DEF SlotsOf
        <5> QED BY <1>2, <3>0, <4>2, <4>3, <4>4, <5>1 DEF Has
      <4> QED BY <1>4, <3>2, <4>1, <4>4
    <3> QED BY <3>1, <3>2
  <2> QED BY <2>3, <2>4, <2>5, <2>6 DEF Settled
<1>9. Forces(v)
  BY <1>2, <1>4, ForcesSame DEF Sound, Nearly
<1>10. Sums(c, v)
  <2> SUFFICES ASSUME NEW u \in Tile, u # c PROVE SumAt(v, u)
    BY DEF Sums
  <2>1. SumAt(w, u)
    BY NoneIsNoTile DEF Nearly, Sums, Sound
  <2>2. v.content[u] = w.content[u]
    BY <1>1, <1>6 DEF Formed, Contents
  <2>3. \A j \in Standing(w, u) : v.obj[j].pass = w.obj[j].pass /\ v.obj[j].kind = w.obj[j].kind
    <3>1. \A j \in Standing(w, u) : j \in DOMAIN w.obj
      BY <1>1, StandingLies DEF Formed
    <3> QED BY <1>4, <3>1
  <2>4. v.sum = w.sum /\ v.flags = w.flags /\ v.turf = w.turf
    BY <1>2
  <2> QED BY <2>1, <2>2, <2>3, <2>4, SumAtSame
<1>11. Shapes(U, v)
  <2>1. \A j \in DOMAIN w.obj : Shaped(w, j) => Shaped(v, j)
    BY <1>2, <1>4 DEF Shaped
  <2> QED BY <1>4, <2>1 DEF Sound, Nearly, Shapes
<1>12. Minds(v)
  BY <1>2, <1>4, MindsSame DEF Sound, Nearly
<1>13. Walls(U, v)
  <2> SUFFICES ASSUME NEW j \in DOMAIN v.obj, j \notin U, v.obj[j].kind \in Wall, NEW d \in Dir,
                      IsInside(v.obj[j].owner, d), Neighbour(v.obj[j].owner, d) \notin U
               PROVE  Knows(v, j, d)
    BY DEF Walls
  <2>1. w.obj[i].kind \notin Wall
    BY DEF Suits, Item, Turf, Wall, Gun, Cloth
  <2>2. j # i /\ j \in DOMAIN w.obj /\ v.obj[j] = w.obj[j] /\ Knows(w, j, d)
    BY <1>4, <2>1 DEF Sound, Nearly, Walls
  <2>3. \A b : KindOf(v, b) = KindOf(w, b)
    BY <1>5 DEF KindOf, IsValid, Kin
  <2>4. WallAt(v, j, d) = WallAt(w, j, d)
    BY <1>2, <2>2, <2>3 DEF WallAt, Owner, Is
  <2> QED BY <1>2, <2>2, <2>4 DEF Knows
<1> QED BY <1>7, <1>8, <1>9, <1>10, <1>11, <1>12, <1>13 DEF Nearly

OwnerSet(w, i, c) == [w.obj EXCEPT ![i] = [w.obj[i] EXCEPT !.owner = c]]

\* Setting an owner changes nothing else of any object.
LEMMA OwnerSetIs ==
  ASSUME NEW w, Objects(w), NEW i \in DOMAIN w.obj, NEW c
  PROVE  /\ DOMAIN OwnerSet(w, i, c) = DOMAIN w.obj
         /\ \A j \in DOMAIN w.obj : j # i => OwnerSet(w, i, c)[j] = w.obj[j]
         /\ OwnerSet(w, i, c)[i].owner = c
         /\ \A j \in DOMAIN w.obj :
              /\ OwnerSet(w, i, c)[j].kind = w.obj[j].kind /\ OwnerSet(w, i, c)[j].dir = w.obj[j].dir
              /\ OwnerSet(w, i, c)[j].last_move = w.obj[j].last_move
              /\ OwnerSet(w, i, c)[j].motion = w.obj[j].motion /\ OwnerSet(w, i, c)[j].pass = w.obj[j].pass
              /\ OwnerSet(w, i, c)[j].anchored = w.obj[j].anchored
<1>1. w.obj[i] \in Object
  BY DEF Objects
<1> QED BY <1>1 DEF OwnerSet, Object

\* Adding to a tile is putting it there and renewing the sums.
LEMMA TileAddIs ==
  ASSUME NEW A, NEW U, NEW w, NEW i \in DOMAIN w.obj, i \in A, Sound(A, U, w), NEW t \in Tile
  PROVE  TileAdd(w, t, i) = UpdatePassable(Put(w, t, i), t)
<1>1. PICK v : v = Put(w, t, i)
  OBVIOUS
<1>2. Formed(w) /\ Settled(A, w) /\ DOMAIN w = Members
  BY DEF Sound, Nearly, Formed, Counted
<1>3. /\ Only({"obj", "content"}, w, v)
      /\ v.content = [w.content EXCEPT ![t] = Append(w.content[t], i)]
      /\ v.obj = OwnerSet(w, i, t)
  BY <1>1, <1>2 DEF Put, Only, Members, OwnerSet
<1>4. v.turf = w.turf
  BY <1>3, SameFields
<1>5. Standing(v, t) = Standing(w, t) \cup {i}
  <2>1. t \in DOMAIN w.content /\ w.content[t] \in Seq(Nat) /\ i \in Nat
    <3>1. t \in DOMAIN w.content /\ w.content[t] \in Seq(Nat)
      BY <1>2 DEF Formed, Contents
    <3>2. i \in Nat
      BY <1>2, MapAssumption DEF Formed, Objects, Counted
    <3> QED BY <3>1, <3>2
  <2>2. ToSet(Append(w.content[t], i)) = ToSet(w.content[t]) \cup {i}
    BY <2>1, AppendIs
  <2> QED BY <1>3, <1>4, <2>1, <2>2 DEF Standing
<1>6. \A j \in DOMAIN w.obj : v.obj[j].pass = w.obj[j].pass
  BY <1>2, <1>3, OwnerSetIs DEF Formed
<1>7. \A j \in Standing(w, t) : j \in DOMAIN w.obj
  BY <1>2, StandingLies DEF Formed
<1> DEFINE S(d) == {FULL} \cup {w.obj[j].pass[d] : j \in Standing(w, t)}
           R(d) == {FULL} \cup {v.obj[j].pass[d] : j \in Standing(v, t)}
<1>8. ASSUME NEW d \in Way PROVE Least(R(d)) = AtMost(w.sum[t][d], w.obj[i].pass[d])
  <2>1. R(d) = S(d) \cup {w.obj[i].pass[d]}
    BY <1>5, <1>6, <1>7
  <2>2. S(d) \subseteq PassableLevel /\ FULL \in S(d)
    BY <1>2, StandingLevels DEF Formed
  <2>3. w.obj[i].pass[d] \in PassableLevel
    BY <1>2 DEF Formed, Objects, Object
  <2>4. SumAt(w, t)
    BY NoneIsNoTile DEF Sound, Nearly, Sums
  <2>5. w.sum[t] = [e \in Way |-> Least(S(e))]
    BY <2>4, KeptIs DEF SumAt, Summed
  <2>6. w.sum[t][d] = Least(S(d))
    <3> HIDE DEF S
    <3> QED BY <2>5
  <2>7. PICK s : s = S(d)
    OBVIOUS
  <2>8. Least(s \cup {w.obj[i].pass[d]}) = AtMost(Least(s), w.obj[i].pass[d])
    BY <2>2, <2>3, <2>7, LeastMore
  <2> HIDE DEF S, R
  <2> QED BY <2>1, <2>6, <2>7, <2>8
<1>9. Summed(v, t) = [d \in Way |-> AtMost(w.sum[t][d], w.obj[i].pass[d])]
  <2>1. Summed(v, t) = [d \in Way |-> Least(R(d))]
    BY KeptIs DEF Summed
  <2> HIDE DEF R
  <2> QED BY <1>8, <2>1
<1> QED BY <1>1, <1>9, KeptIs DEF TileAdd, UpdatePassable

ContentSet(w, c, i) == [w.content EXCEPT ![c] = Append(w.content[c], i)]

\* What adding an object to a container makes of the world.
Stored(w, i, c, v) ==
  /\ Only({"obj", "content", "sum", "flags"}, w, v)
  /\ v.obj = OwnerSet(w, i, c) /\ v.content = ContentSet(w, c, i)

\* A container that takes an unowned object leaves the world sound and has it.
LEMMA AddToSound ==
  ASSUME NEW A, NEW U, NEW w, NEW i \in DOMAIN w.obj, i \in A, Sound(A, U, w),
         NEW c, c \in Tile \/ Is(w, c, Closet), w.obj[i].kind \in Suits(c), NEW y, y = AddTo(w, c, i)
  PROVE  Sound(A \ {i}, U, y) /\ Stored(w, i, c, y)
<1>1. PICK v : v = Put(w, c, i)
  OBVIOUS
<1>2. AddTo(w, c, i) = UpdatePassable(v, c)
  <2>1. CASE c \in Tile
    BY <1>1, <2>1, TileAddIs DEF AddTo
  <2>2. CASE c \notin Tile
    BY <1>1, <2>2 DEF AddTo, UpdatePassable
  <2> QED BY <2>1, <2>2
<1>3. Nearly(A \ {i}, U, c, v)
  BY <1>1, PutNearly
<1>4. DOMAIN w = Members
  BY DEF Sound, Nearly, Formed, Counted
<1>5. /\ Only({"obj", "content"}, w, v)
      /\ v.content = [w.content EXCEPT ![c] = Append(w.content[c], i)]
      /\ v.obj = OwnerSet(w, i, c)
  BY <1>1, <1>4 DEF Put, Only, Members, OwnerSet
<1>6. Only({"sum", "flags"}, v, UpdatePassable(v, c))
  BY <1>5, UpdateKeeps DEF Only
<1>7. /\ Only({"obj", "content", "sum", "flags"}, w, UpdatePassable(v, c))
      /\ UpdatePassable(v, c).obj = v.obj /\ UpdatePassable(v, c).content = v.content
  BY <1>5, <1>6 DEF Only, Members
<1> QED BY <1>2, <1>3, <1>5, <1>7, Updated DEF Stored, ContentSet

\* Setting the owner of what is on no tile is no move.
LEMMA OwnerSince ==
  ASSUME NEW w, NEW v, Formed(w), NEW i \in DOMAIN w.obj, NEW c,
         Only({"obj", "content", "turf", "sum", "flags"}, w, v),
         v.obj = OwnerSet(w, i, c), w.obj[i].owner \notin Tile \/ w.obj[i].owner = c \/ w.obj[i].kind \in Projectile
  PROVE  Since(w, v)
<1>1. /\ v.own = w.own /\ v.list = w.list /\ v.tick = w.tick /\ v.last = w.last
      /\ v.to_add = w.to_add /\ v.under_force = w.under_force
  BY SameFields
<1>2. Since(w, w)
  BY SinceSelf DEF Formed
<1>3. Remains(w, v)
  BY <1>1, <1>2, OwnerSetIs DEF Since, Remains, Formed, Waiting
<1>4. ASSUME NEW j \in DOMAIN w.obj PROVE Moves(w, v, j)
  <2>1. CASE j = i
    BY <1>2, <2>1, OwnerSetIs DEF Since, Moves, Formed
  <2>2. CASE j # i
    BY <1>1, <1>2, <2>2, OwnerSetIs DEF Since, Moves, Formed
  <2> QED BY <2>1, <2>2
<1> QED BY <1>3, <1>4 DEF Since

\* Contains says membership of the set of elements.
LEMMA ContainsIs ==
  ASSUME NEW S, NEW s \in Seq(S), NEW e
  PROVE  /\ Contains(s, e) <=> e \in ToSet(s)
         /\ Contains(s, e) => e \in S
         /\ DOMAIN s = 1 .. Len(s) /\ Len(s) \in Nat
BY LenProperties DEF Contains, ToSet

\* A non-empty set of naturals has its least element.
LEMMA MinIsIn ==
  ASSUME NEW S, S \subseteq Nat, S # {}
  PROVE  Min(S) \in S
<1>1. \E x \in S : \A y \in S : x <= y
  <2>1. PICK x \in S : \A y \in S : <<y, x>> \notin OpToRel(<, Nat)
    BY WFMin, NatLessThanWellFounded, Zenon
  <2>2. \A y \in S : ~(y < x)
    BY <2>1, Zenon DEF OpToRel
  <2> QED BY <2>2
<1> QED BY <1>1 DEF Min

\* The sequence without its element at k.
Dropped(s, k, r) ==
  Len(r) = Len(s) - 1 /\ \A n \in 1 .. Len(s) - 1 : r[n] = IF n < k THEN s[n] ELSE s[n + 1]

\* RemoveFirst drops one occurrence and keeps the order of the rest.
LEMMA RemoveFirstIs ==
  ASSUME NEW S, NEW s \in Seq(S), NEW e, Contains(s, e)
  PROVE  /\ RemoveFirst(s, e) \in Seq(S)
         /\ \E k \in 1 .. Len(s) : s[k] = e /\ Dropped(s, k, RemoveFirst(s, e))
<1> DEFINE I == {n \in 1 .. Len(s) : s[n] = e}
<1>1. Len(s) \in Nat /\ \A n \in 1 .. Len(s) : s[n] \in S
  BY LenProperties
<1>2. I \subseteq Nat /\ I # {}
  BY <1>1 DEF Contains
<1>3. PICK k : k = Min(I)
  OBVIOUS
<1>4. k \in 1 .. Len(s) /\ s[k] = e
  <2>1. Min(I) \in I
    <3> HIDE DEF I
    <3> QED BY <1>2, MinIsIn
  <2> QED BY <1>3, <2>1
<1>5. RemoveFirst(s, e) = SubSeq(s, 1, k - 1) \o SubSeq(s, k + 1, Len(s))
  <2>1. \E n \in 1 .. Len(s) : s[n] = e
    BY DEF Contains
  <2>2. SelectInSeq(s, LAMBDA x : x = e) = k
    BY <1>2, <1>3 DEF SelectInSeq
  <2> QED BY <2>1, <2>2 DEF RemoveFirst, RemoveAt
<1>6. PICK a : a = SubSeq(s, 1, k - 1)
  OBVIOUS
<1>7. PICK b : b = SubSeq(s, k + 1, Len(s))
  OBVIOUS
<1>8. a \in Seq(S) /\ Len(a) = k - 1 /\ \A n \in 1 .. k - 1 : a[n] = s[n]
  BY <1>1, <1>4, <1>6, SubSeqProperties
<1>9. b \in Seq(S) /\ Len(b) = Len(s) - k /\ \A n \in 1 .. Len(s) - k : b[n] = s[k + n]
  <2>1. PICK m \in Nat : m = k + 1
    BY <1>4
  <2>2. PICK l \in Nat : l = Len(s)
    BY <1>1
  <2>3. \A n \in m .. l : s[n] \in S
    BY <1>1, <1>4, <2>1, <2>2
  <2>4. /\ SubSeq(s, m, l) \in Seq(S) /\ Len(SubSeq(s, m, l)) = IF m <= l THEN l - m + 1 ELSE 0
        /\ \A n \in 1 .. l - m + 1 : SubSeq(s, m, l)[n] = s[m + n - 1]
    BY <2>3, SubSeqProperties
  <2> QED BY <1>4, <1>7, <2>1, <2>2, <2>4
<1>10. /\ a \o b \in Seq(S) /\ Len(a \o b) = Len(a) + Len(b)
       /\ \A n \in 1 .. Len(a) + Len(b) : (a \o b)[n] = IF n <= Len(a) THEN a[n] ELSE b[n - Len(a)]
  BY <1>8, <1>9, ConcatProperties
<1>11. Len(a \o b) = Len(s) - 1
  BY <1>1, <1>4, <1>8, <1>9, <1>10
<1>12. ASSUME NEW n \in 1 .. Len(s) - 1 PROVE (a \o b)[n] = IF n < k THEN s[n] ELSE s[n + 1]
  <2>1. (a \o b)[n] = IF n <= k - 1 THEN a[n] ELSE b[n - (k - 1)]
    BY <1>1, <1>4, <1>8, <1>9, <1>10
  <2>2. CASE n < k
    BY <1>1, <1>4, <1>8, <2>1, <2>2
  <2>3. CASE ~(n < k)
    <3>1. n - (k - 1) \in 1 .. Len(s) - k /\ k + (n - (k - 1)) = n + 1 /\ ~(n <= k - 1)
      BY <1>1, <1>4, <2>3
    <3> QED BY <1>9, <2>1, <2>3, <3>1
  <2> QED BY <2>2, <2>3
<1>13. RemoveFirst(s, e) = a \o b
  BY <1>5, <1>6, <1>7
<1>14. Dropped(s, k, a \o b)
  BY <1>11, <1>12 DEF Dropped
<1> QED BY <1>4, <1>10, <1>13, <1>14

\* From a sequence without repetitions it removes the element.
LEMMA RemoveFirstInjective ==
  ASSUME NEW S, NEW s \in Seq(S), NEW e, Contains(s, e),
         \A m, n \in 1 .. Len(s) : s[m] = s[n] => m = n,
         NEW r, r = RemoveFirst(s, e)
  PROVE  /\ r \in Seq(S)
         /\ \A m, n \in 1 .. Len(r) : r[m] = r[n] => m = n
         /\ \A n \in 1 .. Len(r) : r[n] # e /\ \E m \in 1 .. Len(s) : r[n] = s[m]
         /\ \A f : f # e /\ Contains(s, f) => Contains(r, f)
<1>0. PICK k \in 1 .. Len(s) : s[k] = e /\ Dropped(s, k, r)
  BY RemoveFirstIs
<1>1. s[k] = e /\ Len(r) = Len(s) - 1 /\ \A n \in 1 .. Len(s) - 1 : r[n] = IF n < k THEN s[n] ELSE s[n + 1]
  BY <1>0 DEF Dropped
<1>2. Len(s) \in Nat /\ r \in Seq(S)
  BY LenProperties, RemoveFirstIs
<1>3. \A m, n \in 1 .. Len(r) : r[m] = r[n] => m = n
  BY <1>1, <1>2
<1>4. ASSUME NEW n \in 1 .. Len(r) PROVE r[n] # e /\ \E m \in 1 .. Len(s) : r[n] = s[m]
  <2>1. CASE n < k
    BY <1>1, <1>2, <2>1
  <2>2. CASE ~(n < k)
    BY <1>1, <1>2, <2>2
  <2> QED BY <2>1, <2>2
<1>5. ASSUME NEW f, f # e, Contains(s, f) PROVE Contains(r, f)
  <2>1. PICK m \in 1 .. Len(s) : s[m] = f
    BY <1>5 DEF Contains
  <2>2. CASE m < k
    BY <1>1, <1>2, <2>1, <2>2 DEF Contains
  <2>3. CASE m > k
    <3>1. m - 1 \in 1 .. Len(s) - 1 /\ ~(m - 1 < k) /\ m - 1 + 1 = m
      BY <1>1, <1>2, <2>1, <2>3
    <3> QED BY <1>1, <2>1, <3>1 DEF Contains
  <2>4. m # k
    BY <1>1, <1>5, <2>1
  <2> QED BY <1>1, <2>1, <2>2, <2>3, <2>4
<1> QED BY <1>2, <1>3, <1>4, <1>5

\* A valid id is a natural number above those of the tiles.
LEMMA ValidIsNat ==
  ASSUME NEW w, Counted(w), Objects(w), NEW i \in DOMAIN w.obj
  PROVE  i \in Nat /\ i # None /\ i \notin Tile /\ i <= w.last /\ i > Width * Height
<1>1. i \in Width * Height + 1 .. w.last /\ Width * Height \in Nat
  BY MapAssumption DEF Objects
<1> QED BY <1>1 DEF None, Tile, Counted

\* What a container has lies in it.
LEMMA HasLies ==
  ASSUME NEW A, NEW w, Formed(w), Settled(A, w), NEW c, NEW i, i # None, Has(w, c, i)
  PROVE  /\ i \in DOMAIN w.obj /\ i \notin A /\ w.obj[i].owner = c
         /\ c \in Tile /\ i = w.turf[c] => w.obj[i].kind \in Turf
         /\ c \in Tile /\ i # w.turf[c] => w.obj[i].kind \notin Turf
         /\ c \notin Tile /\ Is(w, c, Closet) => w.obj[i].kind \in Item \cup {"human"}
         /\ c \notin Tile /\ Is(w, c, {"human"}) => w.obj[i].kind \in Item
<1>1. CASE c \in Tile /\ i = w.turf[c]
  BY <1>1 DEF Settled, OnTiles, Lies
<1>2. CASE (c \in Tile /\ i # w.turf[c]) \/ (c \notin Tile /\ Is(w, c, Closet))
  <2>1. c \in DOMAIN w.content
    BY <1>2 DEF Formed, Contents, Is, KindOf, IsValid, Closet
  <2>2. Contains(w.content[c], i)
    BY <1>2 DEF Has
  <2>3. PICK n \in 1 .. Len(w.content[c]) : w.content[c][n] = i
    BY <2>2 DEF Contains
  <2>4. Lies(A, w, i, c, Suits(c))
    BY <2>1, <2>3 DEF Settled, InContents
  <2>5. Is(w, c, Closet) => ~Is(w, c, {"human"})
    BY DEF Is, Closet
  <2> QED BY <1>2, <2>4, <2>5 DEF Lies, Suits
<1>3. CASE c \notin Tile /\ ~Is(w, c, Closet)
  <2>1. Is(w, c, {"human"}) /\ SlotsOf(w, c, i) # {}
    BY <1>3 DEF Has
  <2>2. c \in DOMAIN w.obj /\ w.obj[c].kind = "human"
    BY <2>1 DEF Is, KindOf, IsValid
  <2>3. PICK s \in Slot : w.own[c].slot[s] = i
    BY <2>1 DEF SlotsOf
  <2>4. Lies(A, w, i, c, Item)
    BY <2>2, <2>3 DEF Settled, InSlots
  <2> QED BY <1>3, <2>4 DEF Lies
<1> QED BY <1>1, <1>2, <1>3

\* An object leaves its place, and nothing else changes its own.
Leaves(w, v, i) ==
  /\ Twins(w, v)
  /\ \A t \in Tile : v.turf[t] # None => v.turf[t] = w.turf[t] /\ v.turf[t] # i
  /\ DOMAIN v.content = DOMAIN w.content
  /\ \A c \in DOMAIN w.content :
       /\ \A n \in 1 .. Len(v.content[c]) : v.content[c][n] # i /\ Contains(w.content[c], v.content[c][n])
       /\ \A m, n \in 1 .. Len(v.content[c]) : v.content[c][m] = v.content[c][n] => m = n
  /\ \A h \in DOMAIN w.obj : w.obj[h].kind = "human" =>
       \A s \in Slot : v.own[h].slot[s] # None => v.own[h].slot[s] = w.own[h].slot[s] /\ v.own[h].slot[s] # i
  /\ \A j \in DOMAIN w.obj : \A c : j # i /\ Has(w, c, j) => Has(v, c, j)

\* What leaves its container is all that is unsettled by it.
LEMMA SettledLess ==
  ASSUME NEW A, NEW w, NEW v, Settled(A, w), NEW i, Leaves(w, v, i)
  PROVE  Settled(A \cup {i}, v)
<1>1. \A j, c, class : j # i /\ Lies(A, w, j, c, class) => Lies(A \cup {i}, v, j, c, class)
  BY DEF Lies, Leaves, Twins
<1>2. OnTiles(A \cup {i}, v)
  BY <1>1 DEF OnTiles, Settled, Leaves
<1>3. InContents(A \cup {i}, v)
  <2> SUFFICES ASSUME NEW c \in DOMAIN v.content
               PROVE  /\ \A n \in 1 .. Len(v.content[c]) : Lies(A \cup {i}, v, v.content[c][n], c, Suits(c))
                      /\ \A m, n \in 1 .. Len(v.content[c]) : v.content[c][m] = v.content[c][n] => m = n
    BY DEF InContents
  <2>1. \A n \in 1 .. Len(w.content[c]) : Lies(A, w, w.content[c][n], c, Suits(c))
    BY DEF Settled, InContents, Leaves
  <2>2. \A j : Contains(w.content[c], j) => Lies(A, w, j, c, Suits(c))
    BY <2>1 DEF Contains
  <2> QED BY <1>1, <2>2 DEF Leaves
<1>4. InSlots(A \cup {i}, v)
  <2> SUFFICES ASSUME NEW h \in DOMAIN v.obj, v.obj[h].kind = "human"
               PROVE  /\ \A s \in Slot : v.own[h].slot[s] # None => Lies(A \cup {i}, v, v.own[h].slot[s], h, Item)
                      /\ \A s, u \in Slot : v.own[h].slot[s] = v.own[h].slot[u] /\ v.own[h].slot[s] # None => s = u
    BY DEF InSlots
  <2>1. h \in DOMAIN w.obj /\ w.obj[h].kind = "human"
    BY DEF Leaves, Twins
  <2>2. \A s \in Slot : v.own[h].slot[s] # None => v.own[h].slot[s] = w.own[h].slot[s] /\ v.own[h].slot[s] # i
    BY <2>1 DEF Leaves
  <2>3. /\ \A s \in Slot : w.own[h].slot[s] # None => Lies(A, w, w.own[h].slot[s], h, Item)
        /\ \A s, u \in Slot : w.own[h].slot[s] = w.own[h].slot[u] /\ w.own[h].slot[s] # None => s = u
    BY <2>1 DEF Settled, InSlots
  <2> QED BY <1>1, <2>2, <2>3
<1>5. Homed(A \cup {i}, v)
  BY DEF Homed, Settled, Leaves, Twins
<1> QED BY <1>2, <1>3, <1>4, <1>5 DEF Settled

\* What is taken from a content leaves only the sums of that tile open.
LEMMA TakenNearly ==
  ASSUME NEW A, NEW U, NEW w, Sound(A, U, w), NEW c, NEW i \in DOMAIN w.obj,
         c \in Tile \/ Is(w, c, Closet), Contains(w.content[c], i), NEW v, v = Taken(w, c, i)
  PROVE  /\ Nearly(A \cup {i}, U, c, v)
         /\ Only({"content"}, w, v)
         /\ v.content = [w.content EXCEPT ![c] = RemoveFirst(w.content[c], i)]
<1>1. Formed(w) /\ Settled(A, w) /\ DOMAIN w = Members
  BY DEF Sound, Nearly, Formed, Counted
<1>2. Only({"content"}, w, v) /\ v.content = [w.content EXCEPT ![c] = RemoveFirst(w.content[c], i)]
  BY <1>1 DEF Taken, Only, Members
<1>3. /\ v.own = w.own /\ v.turf = w.turf /\ v.sum = w.sum /\ v.flags = w.flags /\ v.tick = w.tick
      /\ v.last = w.last /\ v.list = w.list /\ v.to_add = w.to_add /\ v.under_force = w.under_force
      /\ v.chance = w.chance /\ v.mind = w.mind /\ v.music = w.music /\ DOMAIN v = Members /\ v.obj = w.obj
  BY <1>2, SameFields
<1>4. c \in DOMAIN w.content /\ w.content[c] \in Seq(Nat)
  BY <1>1 DEF Formed, Contents, Is, KindOf, IsValid, Closet
<1>5. \A m, n \in 1 .. Len(w.content[c]) : w.content[c][m] = w.content[c][n] => m = n
  BY <1>1, <1>4 DEF Settled, InContents
<1>6. /\ v.content[c] \in Seq(Nat)
      /\ \A m, n \in 1 .. Len(v.content[c]) : v.content[c][m] = v.content[c][n] => m = n
      /\ \A n \in 1 .. Len(v.content[c]) : v.content[c][n] # i /\ \E m \in 1 .. Len(w.content[c]) : v.content[c][n] = w.content[c][m]
      /\ \A f : f # i /\ Contains(w.content[c], f) => Contains(v.content[c], f)
  <2>1. v.content[c] = RemoveFirst(w.content[c], i)
    BY <1>2, <1>4
  <2>2. PICK s : s = w.content[c]
    OBVIOUS
  <2>3. PICK r : r = v.content[c]
    OBVIOUS
  <2>4. s \in Seq(Nat) /\ Contains(s, i) /\ r = RemoveFirst(s, i) /\ \A m, n \in 1 .. Len(s) : s[m] = s[n] => m = n
    BY <1>4, <1>5, <2>1, <2>2, <2>3
  <2>5. /\ r \in Seq(Nat)
        /\ \A m, n \in 1 .. Len(r) : r[m] = r[n] => m = n
        /\ \A n \in 1 .. Len(r) : r[n] # i /\ \E m \in 1 .. Len(s) : r[n] = s[m]
        /\ \A f : f # i /\ Contains(s, f) => Contains(r, f)
    BY <2>4, RemoveFirstInjective
  <2> QED BY <2>2, <2>3, <2>5
<1>7. DOMAIN v.content = DOMAIN w.content /\ \A b \in DOMAIN w.content : b # c => v.content[b] = w.content[b]
  BY <1>2
<1>8. Twins(w, v) /\ SameSlots(w, v) /\ Kin(w, v)
  BY <1>3 DEF Twins, SameSlots, Kin
<1>9. \A b : KindOf(v, b) = KindOf(w, b)
  BY <1>3 DEF KindOf, IsValid
<1>10. Formed(v)
  <2>1. Counted(v) /\ Objects(v) /\ Grid(v) /\ Queues(v)
    BY <1>1, <1>3 DEF Formed, Counted, Objects, Grid, Queues
  <2>2. Owned(v)
    <3>1. Owned(w) /\ w.last \in Nat /\ w.last <= v.last /\ v.last \in Nat
      BY <1>1, <1>3 DEF Formed, Counted
    <3>2. v.own = [j \in DOMAIN w.obj |-> v.own[j]] /\ OwnFits(w, w.obj[i].kind, v.own[i])
      BY <1>3, <3>1 DEF Owned
    <3>3. \A j \in DOMAIN w.obj : v.own[j] = w.own[j]
      BY <1>3
    <3> QED BY <1>8, <3>1, <3>2, <3>3, OwnedSame
  <2>3. Contents(v)
    BY <1>1, <1>3, <1>6, <1>7, <1>9 DEF Formed, Contents, Is
  <2> QED BY <2>1, <2>2, <2>3 DEF Formed
<1>11. Leaves(w, v, i)
  <2>1. \A t \in Tile : v.turf[t] # None => v.turf[t] = w.turf[t] /\ v.turf[t] # i
    <3> SUFFICES ASSUME NEW t \in Tile, w.turf[t] = i, i # None PROVE FALSE
      BY <1>1, <1>3, ValidIsNat DEF Formed
    <3>1. w.obj[i].kind \in Turf /\ w.obj[i].owner = t
      BY <1>1 DEF Settled, OnTiles, Lies
    <3>2. PICK n \in 1 .. Len(w.content[c]) : w.content[c][n] = i
      BY DEF Contains
    <3>3. w.obj[i].kind \in Suits(c)
      BY <1>1, <1>4, <3>2 DEF Settled, InContents, Lies
    <3> QED BY <3>1, <3>3 DEF Suits, Turf, Item, Wall, Gun, Cloth
  <2>2. ASSUME NEW b \in DOMAIN w.content
        PROVE  /\ \A n \in 1 .. Len(v.content[b]) : v.content[b][n] # i /\ Contains(w.content[b], v.content[b][n])
               /\ \A m, n \in 1 .. Len(v.content[b]) : v.content[b][m] = v.content[b][n] => m = n
    <3>1. CASE b = c
      BY <1>6, <3>1 DEF Contains
    <3>2. CASE b # c
      <4>1. v.content[b] = w.content[b]
        BY <1>7, <3>2
      <4>2. \A n \in 1 .. Len(w.content[b]) : w.obj[w.content[b][n]].owner = b
        BY <1>1 DEF Settled, InContents, Lies
      <4>3. w.obj[i].owner = c
        <5>1. PICK n \in 1 .. Len(w.content[c]) : w.content[c][n] = i
          BY DEF Contains
        <5> QED BY <1>1, <1>4, <5>1 DEF Settled, InContents, Lies
      <4>4. \A m, n \in 1 .. Len(w.content[b]) : w.content[b][m] = w.content[b][n] => m = n
        BY <1>1 DEF Settled, InContents
      <4> QED BY <3>2, <4>1, <4>2, <4>3, <4>4 DEF Contains
    <3> QED BY <3>1, <3>2
  <2>3. ASSUME NEW h \in DOMAIN w.obj, w.obj[h].kind = "human", NEW s \in Slot, w.own[h].slot[s] # None
        PROVE  w.own[h].slot[s] # i
    <3>1. w.obj[w.own[h].slot[s]].owner = h
      BY <1>1, <2>3 DEF Settled, InSlots, Lies
    <3>2. PICK n \in 1 .. Len(w.content[c]) : w.content[c][n] = i
      BY DEF Contains
    <3>3. w.obj[i].owner = c
      BY <1>1, <1>4, <3>2 DEF Settled, InContents, Lies
    <3>4. h # c
      <4>1. c \in Tile => h # c
        BY <1>1, ValidIsNat DEF Formed
      <4>2. Is(w, c, Closet) => h # c
        BY <2>3, <1>1 DEF Is, KindOf, IsValid, Closet
      <4> QED BY <4>1, <4>2
    <3> QED BY <3>1, <3>3, <3>4
  <2>4. ASSUME NEW j \in DOMAIN w.obj, NEW b, j # i, Has(w, b, j) PROVE Has(v, b, j)
    <3>1. SlotsOf(v, b, j) = SlotsOf(w, b, j)
      BY <1>3 DEF SlotsOf
    <3>2. \A d : d \in Tile \/ Is(w, d, Closet) => d \in DOMAIN w.content
      BY <1>1 DEF Formed, Contents, Is, KindOf, IsValid, Closet
    <3>3. b \in DOMAIN w.content /\ Contains(w.content[b], j) => Contains(v.content[b], j)
      BY <1>6, <1>7, <2>4
    <3>4. v.turf = w.turf
      BY <1>3
    <3> QED BY <1>9, <2>4, <3>1, <3>2, <3>3, <3>4 DEF Has, Is
  <2>5. v.own = w.own
    BY <1>3
  <2> QED BY <1>7, <1>8, <2>1, <2>2, <2>3, <2>4, <2>5 DEF Leaves
<1>12. Settled(A \cup {i}, v)
  BY <1>1, <1>11, SettledLess
<1>13. Sums(c, v)
  <2> SUFFICES ASSUME NEW u \in Tile, u # c PROVE SumAt(v, u)
    BY DEF Sums
  <2>1. SumAt(w, u)
    BY NoneIsNoTile DEF Nearly, Sums, Sound
  <2>2. v.content[u] = w.content[u]
    BY <1>1, <1>7 DEF Formed, Contents
  <2>3. v.sum = w.sum /\ v.flags = w.flags /\ v.turf = w.turf /\ v.obj = w.obj
    BY <1>3
  <2> QED BY <2>1, <2>2, <2>3, SumAtSame
<1>14. Forces(v) /\ Shapes(U, v)
  BY <1>3 DEF Sound, Nearly, Forces, Shapes, Shaped
<1>15. Minds(v)
  BY <1>3, MindsSame DEF Sound, Nearly
<1>16. Walls(U, v)
  BY <1>3, <1>8, WallsSame DEF Sound, Nearly
<1> QED BY <1>2, <1>10, <1>12, <1>13, <1>14, <1>15, <1>16 DEF Nearly

-----------------------------------------------------------------------------
(* The slots of a human.                                                   *)

IsHuman(w, h) == h \in DOMAIN w.obj /\ w.obj[h].kind = "human"

\* The type of a human's own data.
LEMMA HumanOwn ==
  ASSUME NEW w, Formed(w), NEW h, IsHuman(w, h)
  PROVE  /\ DOMAIN w.own[h] = DOMAIN NewHuman
         /\ w.own[h].slot \in [Slot -> Nat] /\ w.own[h].active_hand \in {"right_hand", "left_hand"}
         /\ w.own[h].active_hand \in Slot
         /\ Refers(w, w.own[h].pulled, Movable \ Projectile)
         /\ DOMAIN w.own = DOMAIN w.obj
<1>1. NewOwn("human") = NewHuman
  BY DEF NewOwn, Closet, Breakable, Projectile, Gun, Wall
<1>2. OwnFits(w, "human", w.own[h])
  BY DEF Formed, Owned, IsHuman
<1>3. DOMAIN w.own = DOMAIN w.obj
  BY DEF Formed, Owned
<1> QED BY <1>1, <1>2, <1>3 DEF OwnFits, Slot, HUMAN_SLOTS

\* The human with these slots.
SlotsSet(w, h, v, slot) ==
  /\ Only({"own"}, w, v)
  /\ v.own = [w.own EXCEPT ![h] = [w.own[h] EXCEPT !.slot = slot]]

\* What a change of a human's slots leaves alone.
LEMMA SlotsSetIs ==
  ASSUME NEW w, Formed(w), NEW h, IsHuman(w, h), NEW v, NEW slot, SlotsSet(w, h, v, slot)
  PROVE  /\ v.obj = w.obj /\ v.turf = w.turf /\ v.sum = w.sum /\ v.flags = w.flags /\ v.tick = w.tick
         /\ v.last = w.last /\ v.list = w.list /\ v.to_add = w.to_add /\ v.under_force = w.under_force
         /\ v.chance = w.chance /\ v.mind = w.mind /\ v.music = w.music /\ DOMAIN v = Members
         /\ v.content = w.content
         /\ DOMAIN v.own = DOMAIN w.own /\ \A j \in DOMAIN w.own : j # h => v.own[j] = w.own[j]
         /\ DOMAIN v.own[h] = DOMAIN w.own[h]
         /\ v.own[h].slot = slot
         /\ v.own[h].active_hand = w.own[h].active_hand /\ v.own[h].pulled = w.own[h].pulled
         /\ v.own[h].dead = w.own[h].dead /\ v.own[h].lying = w.own[h].lying
<1>1. /\ v.obj = w.obj /\ v.turf = w.turf /\ v.sum = w.sum /\ v.flags = w.flags /\ v.tick = w.tick
      /\ v.last = w.last /\ v.list = w.list /\ v.to_add = w.to_add /\ v.under_force = w.under_force
      /\ v.chance = w.chance /\ v.mind = w.mind /\ v.music = w.music /\ DOMAIN v = Members
      /\ v.content = w.content
  BY SameFields DEF SlotsSet
<1>2. h \in DOMAIN w.own /\ DOMAIN w.own[h] = DOMAIN NewHuman
  BY HumanOwn DEF IsHuman
<1>3. v.own[h] = [w.own[h] EXCEPT !.slot = slot] /\ DOMAIN v.own = DOMAIN w.own /\ \A j \in DOMAIN w.own : j # h => v.own[j] = w.own[j]
  BY <1>2 DEF SlotsSet
<1> QED BY <1>1, <1>2, <1>3 DEF NewHuman

\* A change of slots that leaves the world settled leaves it sound.
LEMMA SlotsChanged ==
  ASSUME NEW A, NEW B, NEW U, NEW w, Sound(A, U, w), NEW h, IsHuman(w, h), NEW v, NEW slot, slot \in [Slot -> Nat],
         SlotsSet(w, h, v, slot), Settled(B, v)
  PROVE  Sound(B, U, v) /\ Since(w, v)
<1>1. Formed(w)
  BY DEF Sound, Nearly
<1>2. /\ v.obj = w.obj /\ v.turf = w.turf /\ v.sum = w.sum /\ v.flags = w.flags /\ v.tick = w.tick
      /\ v.last = w.last /\ v.list = w.list /\ v.to_add = w.to_add /\ v.under_force = w.under_force
      /\ v.chance = w.chance /\ v.mind = w.mind /\ v.music = w.music /\ DOMAIN v = Members
      /\ v.content = w.content
      /\ DOMAIN v.own = DOMAIN w.own /\ \A j \in DOMAIN w.own : j # h => v.own[j] = w.own[j]
      /\ DOMAIN v.own[h] = DOMAIN w.own[h]
      /\ v.own[h].slot = slot
      /\ v.own[h].active_hand = w.own[h].active_hand /\ v.own[h].pulled = w.own[h].pulled
      /\ v.own[h].dead = w.own[h].dead /\ v.own[h].lying = w.own[h].lying
  BY <1>1, SlotsSetIs
<1>3. Kin(w, v) /\ Twins(w, v)
  BY <1>2 DEF Kin, Twins
<1>4. OwnFits(w, "human", v.own[h])
  <2>1. OwnFits(w, "human", w.own[h])
    BY <1>1 DEF Formed, Owned, IsHuman
  <2> QED BY <1>2, <2>1 DEF OwnFits, Projectile, Wall
<1>5. Formed(v)
  <2>1. Counted(v) /\ Objects(v) /\ Grid(v) /\ Queues(v)
    BY <1>1, <1>2 DEF Formed, Counted, Objects, Grid, Queues
  <2>2. Owned(v)
    <3>1. Owned(w) /\ w.last \in Nat /\ w.last <= v.last /\ v.last \in Nat
      BY <1>1, <1>2 DEF Formed, Counted
    <3>2. v.own = [j \in DOMAIN w.obj |-> v.own[j]]
      BY <3>1 DEF SlotsSet, Owned
    <3>3. \A j \in DOMAIN w.obj : j # h => v.own[j] = w.own[j]
      BY <1>2, <3>1 DEF Owned
    <3>4. h \in DOMAIN w.obj => OwnFits(w, w.obj[h].kind, v.own[h])
      BY <1>4 DEF IsHuman
    <3> QED BY <1>3, <3>1, <3>2, <3>3, <3>4, OwnedSame
  <2>3. Contents(v)
    BY <1>1, <1>2, <1>3, ContentsSame DEF Formed
  <2> QED BY <2>1, <2>2, <2>3 DEF Formed
<1>6. Sums(None, v)
  <2> SUFFICES ASSUME NEW u \in Tile PROVE SumAt(v, u)
    BY DEF Sums
  <2>1. SumAt(w, u)
    BY NoneIsNoTile DEF Nearly, Sums, Sound
  <2>2. v.sum = w.sum /\ v.flags = w.flags /\ v.turf = w.turf /\ v.obj = w.obj /\ v.content = w.content
    BY <1>2
  <2> QED BY <2>1, <2>2, SumAtSame
<1>7. Forces(v)
  BY <1>2 DEF Sound, Nearly, Forces
<1>8. Shapes(U, v)
  <2>1. \A j \in DOMAIN w.obj : j # h /\ Shaped(w, j) => Shaped(v, j)
    BY <1>1, <1>2 DEF Shaped, Formed, Owned
  <2>2. Shaped(w, h) => Shaped(v, h)
    BY <1>2 DEF Shaped, IsHuman, ShapeFits, Closet
  <2> QED BY <1>2, <2>1, <2>2 DEF Sound, Nearly, Shapes
<1>9. Minds(v)
  <2>1. \A j \in DOMAIN w.obj : v.own[j] = w.own[j] \/ v.own[j].dead = w.own[j].dead
    BY <1>1, <1>2 DEF Formed, Owned
  <2> QED BY <1>2, <2>1, MindsSame DEF Sound, Nearly
<1>10. Walls(U, v)
  <2>1. \A j \in DOMAIN w.obj : w.obj[j].kind \in Wall => v.own[j].walls = w.own[j].walls
    BY <1>1, <1>2 DEF Formed, Owned, IsHuman, Wall
  <2> QED BY <1>2, <1>3, <2>1, WallsSame DEF Sound, Nearly
<1>11. Since(w, v)
  <2>1. Since(w, w)
    BY <1>1, SinceSelf DEF Formed
  <2>2. \A j \in DOMAIN w.obj : v.own[j].pulled = w.own[j].pulled
    BY <1>1, <1>2 DEF Formed, Owned
  <2> QED BY <1>2, <2>1, <2>2 DEF Since, Remains, Moves, Waiting
<1> QED BY <1>5, <1>6, <1>7, <1>8, <1>9, <1>10, <1>11 DEF Sound, Nearly

Cleared(slot, i) == [s \in Slot |-> IF slot[s] = i THEN None ELSE slot[s]]

\* An item leaves its slot.
LEMMA ClearedSound ==
  ASSUME NEW A, NEW U, NEW w, Sound(A, U, w), NEW h, IsHuman(w, h), NEW i \in DOMAIN w.obj, NEW v,
         SlotsSet(w, h, v, Cleared(w.own[h].slot, i)), Has(w, h, i)
  PROVE  Sound(A \cup {i}, U, v) /\ Since(w, v)
<1>1. Formed(w) /\ Settled(A, w)
  BY DEF Sound, Nearly
<1>2. /\ v.obj = w.obj /\ v.turf = w.turf /\ v.content = w.content
      /\ DOMAIN v.own = DOMAIN w.own /\ \A j \in DOMAIN w.own : j # h => v.own[j] = w.own[j]
      /\ v.own[h].slot = Cleared(w.own[h].slot, i)
  BY <1>1, SlotsSetIs
<1>3. w.own[h].slot \in [Slot -> Nat] /\ DOMAIN w.own = DOMAIN w.obj
  BY <1>1, HumanOwn
<1>4. Cleared(w.own[h].slot, i) \in [Slot -> Nat]
  BY <1>3 DEF Cleared, None
<1>5. i # None /\ h \notin Tile
  BY <1>1, ValidIsNat DEF Formed, IsHuman
<1>6. w.obj[i].owner = h /\ i \notin A /\ w.obj[i].kind \in Item
  <2>1. ~Is(w, h, Closet) /\ Is(w, h, {"human"})
    <3>1. h \in Nat
      BY <1>1, ValidIsNat DEF Formed, IsHuman
    <3>2. h # Hand
      BY <3>1 DEF Hand
    <3> QED BY <3>2 DEF IsHuman, Is, KindOf, IsValid, Closet
  <2> QED BY <1>1, <1>5, <2>1, HasLies
<1>7. \A t \in Tile : w.turf[t] # i
  BY <1>1, <1>5, <1>6 DEF Settled, OnTiles, Lies
<1>8. \A c \in DOMAIN w.content : \A n \in 1 .. Len(w.content[c]) : w.content[c][n] # i
  <2> SUFFICES ASSUME NEW c \in DOMAIN w.content, NEW n \in 1 .. Len(w.content[c]), w.content[c][n] = i PROVE FALSE
    OBVIOUS
  <2>1. w.obj[i].owner = c
    BY <1>1 DEF Settled, InContents, Lies
  <2>2. c \in Tile \/ Is(w, c, Closet)
    BY <1>1 DEF Formed, Contents
  <2> QED BY <1>5, <1>6, <2>1, <2>2 DEF Is, KindOf, IsValid, IsHuman, Closet
<1>9. ASSUME NEW g \in DOMAIN w.obj, w.obj[g].kind = "human", NEW s \in Slot, v.own[g].slot[s] # None
      PROVE  v.own[g].slot[s] = w.own[g].slot[s] /\ v.own[g].slot[s] # i
  <2>1. CASE g = h
    BY <1>2, <1>9, <2>1 DEF Cleared
  <2>2. CASE g # h
    <3>1. v.own[g].slot[s] = w.own[g].slot[s]
      BY <1>2, <1>3, <2>2
    <3>2. w.obj[w.own[g].slot[s]].owner = g
      BY <1>1, <1>9, <3>1 DEF Settled, InSlots, Lies
    <3> QED BY <1>6, <2>2, <3>1, <3>2
  <2> QED BY <2>1, <2>2
<1>10. ASSUME NEW j \in DOMAIN w.obj, NEW c, j # i, Has(w, c, j) PROVE Has(v, c, j)
  <2>1. \A class : Is(v, c, class) <=> Is(w, c, class)
    BY <1>2 DEF Is, KindOf, IsValid
  <2>2. CASE Is(w, c, {"human"}) /\ c \notin Tile /\ SlotsOf(w, c, j) # {}
    <3>1. SlotsOf(v, c, j) = SlotsOf(w, c, j)
      <4>1. CASE c = h
        <5>1. j # None
          BY <1>1, ValidIsNat DEF Formed
        <5>2. \A s \in Slot : v.own[c].slot[s] = j <=> w.own[c].slot[s] = j
          BY <1>2, <1>10, <4>1, <5>1 DEF Cleared
        <5> QED BY <5>2 DEF SlotsOf
      <4>2. CASE c # h
        <5>1. c \in DOMAIN w.own
          BY <1>3, <2>2 DEF Is, KindOf, IsValid
        <5> QED BY <1>2, <4>2, <5>1 DEF SlotsOf
      <4> QED BY <4>1, <4>2
    <3>2. ~Is(w, c, Closet)
      BY <2>2 DEF Is, Closet
    <3> QED BY <2>1, <2>2, <3>1, <3>2 DEF Has
  <2>3. CASE ~(Is(w, c, {"human"}) /\ c \notin Tile /\ SlotsOf(w, c, j) # {})
    BY <1>2, <1>10, <2>1, <2>3 DEF Has
  <2> QED BY <2>2, <2>3
<1>11. Leaves(w, v, i)
  <2>1. Twins(w, v)
    BY <1>2 DEF Twins
  <2>2. \A c \in DOMAIN w.content : \A m, n \in 1 .. Len(w.content[c]) : w.content[c][m] = w.content[c][n] => m = n
    BY <1>1 DEF Settled, InContents
  <2> QED BY <1>2, <1>7, <1>8, <1>9, <1>10, <2>1, <2>2 DEF Leaves, Contains
<1>12. Settled(A \cup {i}, v)
  BY <1>1, <1>11, SettledLess
<1> QED BY <1>4, <1>12, SlotsChanged

-----------------------------------------------------------------------------
(* Less is asked of fewer.                                                 *)

\* The invariant but for some shapes holds but for more of them.
LEMMA Loosened ==
  ASSUME NEW A, NEW U, NEW V, NEW t, NEW w, Nearly(A, U, t, w), U \subseteq V
  PROVE  Nearly(A, V, t, w)
BY WallsMore DEF Nearly, Shapes

\* Only existing objects matter among those that are held apart.
LEMMA SameHeld ==
  ASSUME NEW A, NEW B, NEW U, NEW t, NEW w, Nearly(A, U, t, w), \A i \in DOMAIN w.obj : i \in A <=> i \in B
  PROVE  Nearly(B, U, t, w)
<1>1. \A i, c, class : Lies(A, w, i, c, class) <=> Lies(B, w, i, c, class)
  BY DEF Lies
<1>2. Settled(A, w)
  BY DEF Nearly
<1>3. OnTiles(B, w)
  BY <1>1, <1>2 DEF Settled, OnTiles
<1>4. InContents(B, w)
  BY <1>1, <1>2 DEF Settled, InContents
<1>5. InSlots(B, w)
  BY <1>1, <1>2 DEF Settled, InSlots
<1>6. Homed(B, w)
  BY <1>2 DEF Settled, Homed
<1> QED BY <1>3, <1>4, <1>5, <1>6 DEF Nearly, Settled

-----------------------------------------------------------------------------
(* The turf of a tile.                                                     *)

TurfOwner(w, t, i) == IF IsValid(w, i) THEN OwnerSet(w, i, t) ELSE w.obj
TurfSet(w, t, i) == [w.turf EXCEPT ![t] = i]
WithTurf(w, t, i) ==
  IF IsValid(w, i) THEN [w EXCEPT !.turf[t] = i, !.obj[i].owner = t] ELSE [w EXCEPT !.turf[t] = None]

\* What setting a turf changes.
LEMMA WithTurfIs ==
  ASSUME NEW w, DOMAIN w = Members, NEW t, NEW i, i = None \/ IsValid(w, i), NEW v, v = WithTurf(w, t, i)
  PROVE  Only({"turf", "obj"}, w, v) /\ v.turf = TurfSet(w, t, i) /\ v.obj = TurfOwner(w, t, i)
<1>1. CASE IsValid(w, i)
  <2>1. v = [w EXCEPT !.turf[t] = i, !.obj[i].owner = t]
    BY <1>1 DEF WithTurf
  <2> QED BY <1>1, <2>1 DEF Only, Members, TurfOwner, OwnerSet, TurfSet
<1>2. CASE ~IsValid(w, i)
  <2>1. v = [w EXCEPT !.turf[t] = None] /\ i = None
    BY <1>2 DEF WithTurf
  <2> QED BY <1>2, <2>1 DEF Only, Members, TurfOwner, TurfSet
<1> QED BY <1>1, <1>2

\* The new turf belongs to its tile, and no other object changed.
LEMMA TurfOwnerIs ==
  ASSUME NEW w, Objects(w), NEW t, NEW i
  PROVE  /\ DOMAIN TurfOwner(w, t, i) = DOMAIN w.obj
         /\ \A j \in DOMAIN w.obj : j # i => TurfOwner(w, t, i)[j] = w.obj[j]
         /\ i \in DOMAIN w.obj => TurfOwner(w, t, i)[i].owner = t
         /\ \A j \in DOMAIN w.obj :
              /\ TurfOwner(w, t, i)[j].kind = w.obj[j].kind /\ TurfOwner(w, t, i)[j].dir = w.obj[j].dir
              /\ TurfOwner(w, t, i)[j].last_move = w.obj[j].last_move
              /\ TurfOwner(w, t, i)[j].motion = w.obj[j].motion /\ TurfOwner(w, t, i)[j].pass = w.obj[j].pass
              /\ TurfOwner(w, t, i)[j].anchored = w.obj[j].anchored
<1>1. CASE i \in DOMAIN w.obj
  BY <1>1, OwnerSetIs DEF TurfOwner, IsValid
<1>2. CASE i \notin DOMAIN w.obj
  BY <1>2 DEF TurfOwner, IsValid
<1> QED BY <1>1, <1>2

\* A turf that was nowhere takes the place of another, which then is nowhere itself.
LEMMA TurfNearly ==
  ASSUME NEW A, NEW U, NEW w, Sound(A, U, w), NEW t \in Tile, NEW i,
         i = None \/ (i \in DOMAIN w.obj /\ i \in A /\ w.obj[i].kind \in Turf),
         Is(w, w.turf[t], Wall) \/ Is(w, i, Wall) => t \in U, Is(w, i, Wall) => i \in U,
         NEW v, v = WithTurf(w, t, i)
  PROVE  Nearly((A \cup {w.turf[t]}) \ {i}, U, t, v)
<1>1. Formed(w) /\ Settled(A, w) /\ DOMAIN w = Members
  BY DEF Sound, Nearly, Formed, Counted
<1>2. Only({"turf", "obj"}, w, v) /\ v.turf = TurfSet(w, t, i) /\ v.obj = TurfOwner(w, t, i)
  <2>1. i = None \/ IsValid(w, i)
    BY DEF IsValid
  <2> QED BY <1>1, <2>1, WithTurfIs
<1>3. /\ v.own = w.own /\ v.content = w.content /\ v.sum = w.sum /\ v.flags = w.flags /\ v.tick = w.tick
      /\ v.last = w.last /\ v.list = w.list /\ v.to_add = w.to_add /\ v.under_force = w.under_force
      /\ v.chance = w.chance /\ v.mind = w.mind /\ v.music = w.music /\ DOMAIN v = Members
  BY <1>2, SameFields
<1>4. /\ DOMAIN v.obj = DOMAIN w.obj
      /\ \A j \in DOMAIN w.obj : j # i => v.obj[j] = w.obj[j]
      /\ i \in DOMAIN w.obj => v.obj[i].owner = t
      /\ \A j \in DOMAIN w.obj :
           /\ v.obj[j].kind = w.obj[j].kind /\ v.obj[j].dir = w.obj[j].dir /\ v.obj[j].last_move = w.obj[j].last_move
           /\ v.obj[j].motion = w.obj[j].motion /\ v.obj[j].pass = w.obj[j].pass
           /\ v.obj[j].anchored = w.obj[j].anchored
  BY <1>1, <1>2, TurfOwnerIs DEF Formed
<1>5. v.turf[t] = i /\ \A u \in Tile : u # t => v.turf[u] = w.turf[u]
  BY <1>1, <1>2 DEF Formed, Grid, TurfSet
<1>6. Kin(w, v)
  BY <1>4 DEF Kin
<1>7. \A b : KindOf(v, b) = KindOf(w, b)
  BY <1>4 DEF KindOf, IsValid
<1>8. None \notin DOMAIN w.obj
  BY <1>1, ValidIsNat DEF Formed
<1>9. Formed(v)
  <2>1. Counted(v) /\ Queues(v)
    BY <1>1, <1>3 DEF Formed, Counted, Queues
  <2>2. Objects(v)
    <3>1. CASE i \in DOMAIN w.obj
      <4>1. v.obj = [w.obj EXCEPT ![i] = [w.obj[i] EXCEPT !.owner = t]]
        BY <1>2, <3>1 DEF TurfOwner, OwnerSet, IsValid
      <4>2. t \in Nat
        BY MapAssumption DEF Tile
      <4>3. w.obj[i] \in Object /\ [w.obj[i] EXCEPT !.owner = t] \in Object
        BY <1>1, <3>1, <4>2 DEF Formed, Objects, Object
      <4>4. v.obj = [j \in DOMAIN v.obj |-> v.obj[j]]
        BY <4>1
      <4>5. v.obj[i] \in Object
        BY <3>1, <4>1, <4>3
      <4>6. \A j \in DOMAIN w.obj : v.obj[j] \in Object
        BY <1>1, <1>4, <4>5 DEF Formed, Objects
      <4> QED BY <1>1, <1>3, <1>4, <4>4, <4>6 DEF Formed, Objects
    <3>2. CASE i \notin DOMAIN w.obj
      <4>1. v.obj = w.obj
        BY <1>2, <3>2 DEF TurfOwner, IsValid
      <4> QED BY <1>1, <1>3, <4>1 DEF Formed, Objects
    <3> QED BY <3>1, <3>2
  <2>3. Owned(v)
    <3>1. Owned(w) /\ w.last \in Nat /\ w.last <= v.last /\ v.last \in Nat
      BY <1>1, <1>3 DEF Formed, Counted
    <3>2. v.own = [j \in DOMAIN w.obj |-> v.own[j]] /\ (i \in DOMAIN w.obj => OwnFits(w, w.obj[i].kind, v.own[i]))
      BY <1>3, <3>1 DEF Owned
    <3> QED BY <1>3, <1>6, <3>1, <3>2, OwnedSame
  <2>4. Contents(v)
    BY <1>1, <1>3, <1>6, ContentsSame DEF Formed
  <2>5. Grid(v)
    <3>1. i \in Nat
      BY <1>1, ValidIsNat DEF Formed, None
    <3> QED BY <1>1, <1>2, <1>3, <3>1 DEF Formed, Grid, TurfSet
  <2> QED BY <2>1, <2>2, <2>3, <2>4, <2>5 DEF Formed
<1> DEFINE o == w.turf[t]
           B == (A \cup {o}) \ {i}
<1>b. \A x : x \in B <=> (x \in A \/ x = o) /\ x # i
  OBVIOUS
<1>o. o = w.turf[t]
  OBVIOUS
<1> HIDE DEF B, o
<1>10. o # None => Lies(A, w, o, t, Turf)
  BY <1>1, <1>o DEF Settled, OnTiles
<1>11. Settled(B, v)
  <2>1. ASSUME NEW x, NEW c, NEW class, Lies(A, w, x, c, class), x # o PROVE Lies(B, v, x, c, class)
    BY <1>4, <1>8, <1>b, <2>1 DEF Lies
  <2>2. OnTiles(B, v)
    <3> SUFFICES ASSUME NEW u \in Tile, v.turf[u] # None PROVE Lies(B, v, v.turf[u], u, Turf)
      BY DEF OnTiles
    <3>1. CASE u = t
      BY <1>4, <1>5, <1>8, <1>b, <3>1 DEF Lies
    <3>2. CASE u # t
      <4>1. Lies(A, w, w.turf[u], u, Turf)
        BY <1>1, <1>5, <3>2 DEF Settled, OnTiles
      <4>2. w.turf[u] # o
        BY <1>10, <3>2, <4>1, <1>8 DEF Lies
      <4> QED BY <1>5, <2>1, <3>2, <4>1, <4>2
    <3> QED BY <3>1, <3>2
  <2>3. o # None => o \in DOMAIN w.obj /\ w.obj[o].kind \in Turf
    BY <1>10 DEF Lies
  <2>4. InContents(B, v)
    <3> SUFFICES ASSUME NEW c \in DOMAIN w.content
                 PROVE  /\ \A n \in 1 .. Len(w.content[c]) : Lies(B, v, w.content[c][n], c, Suits(c))
                        /\ \A m, n \in 1 .. Len(w.content[c]) : w.content[c][m] = w.content[c][n] => m = n
      BY <1>3 DEF InContents
    <3>1. ASSUME NEW n \in 1 .. Len(w.content[c]) PROVE Lies(B, v, w.content[c][n], c, Suits(c))
      <4>1. Lies(A, w, w.content[c][n], c, Suits(c))
        BY <1>1 DEF Settled, InContents
      <4>2. \A k : k \in Suits(c) => k \notin Turf
        BY DEF Suits, Turf, Wall, Item, Gun, Cloth
      <4>3. w.content[c][n] # o
        BY <1>8, <2>3, <4>1, <4>2 DEF Lies
      <4> QED BY <2>1, <4>1, <4>3
    <3> QED BY <1>1, <3>1 DEF Settled, InContents
  <2>5. InSlots(B, v)
    <3> SUFFICES ASSUME NEW h \in DOMAIN w.obj, w.obj[h].kind = "human"
                 PROVE  /\ \A s \in Slot : w.own[h].slot[s] # None => Lies(B, v, w.own[h].slot[s], h, Item)
                        /\ \A s, u \in Slot : w.own[h].slot[s] = w.own[h].slot[u] /\ w.own[h].slot[s] # None => s = u
      BY <1>3, <1>4 DEF InSlots
    <3>1. ASSUME NEW s \in Slot, w.own[h].slot[s] # None PROVE Lies(B, v, w.own[h].slot[s], h, Item)
      <4>1. Lies(A, w, w.own[h].slot[s], h, Item)
        BY <1>1, <3>1 DEF Settled, InSlots
      <4>2. w.own[h].slot[s] # o
        BY <1>8, <2>3, <4>1 DEF Lies, Item, Gun, Cloth, Turf, Wall
      <4> QED BY <2>1, <4>1, <4>2
    <3> QED BY <1>1, <3>1 DEF Settled, InSlots
  <2>6. Homed(B, v)
    <3> SUFFICES ASSUME NEW j \in DOMAIN w.obj, j \notin B
                 PROVE  /\ v.obj[j].owner # None => Has(v, v.obj[j].owner, j)
                        /\ w.obj[j].kind \in Rooted => v.obj[j].owner \in Tile
      BY <1>4 DEF Homed
    <3>1. CASE j = i
      BY <1>4, <1>5, <3>1 DEF Has
    <3>2. CASE j # i
      <4>1. j \notin A /\ j # o /\ v.obj[j] = w.obj[j]
        BY <1>4, <1>b, <3>2
      <4>2. ASSUME w.obj[j].owner # None PROVE Has(v, w.obj[j].owner, j)
        <5>1. Has(w, w.obj[j].owner, j)
          BY <1>1, <4>1, <4>2 DEF Settled, Homed
        <5>2. \A c : SlotsOf(v, c, j) = SlotsOf(w, c, j)
          BY <1>3 DEF SlotsOf
        <5>3. \A c \in Tile : j = w.turf[c] => j = v.turf[c]
          BY <1>5, <1>o, <4>1
        <5> QED BY <1>3, <1>7, <5>1, <5>2, <5>3 DEF Has, Is
      <4> QED BY <1>1, <4>1, <4>2 DEF Settled, Homed
    <3> QED BY <3>1, <3>2
  <2> QED BY <2>2, <2>4, <2>5, <2>6 DEF Settled
<1>12. Sums(t, v)
  <2> SUFFICES ASSUME NEW u \in Tile, u # t PROVE SumAt(v, u)
    BY DEF Sums
  <2>1. SumAt(w, u)
    BY NoneIsNoTile DEF Nearly, Sums, Sound
  <2>2. v.turf[u] = w.turf[u]
    BY <1>5
  <2>3. \A j \in Standing(w, u) : v.obj[j].pass = w.obj[j].pass /\ v.obj[j].kind = w.obj[j].kind
    BY <1>1, <1>4, StandingLies DEF Formed
  <2> QED BY <1>3, <2>1, <2>2, <2>3, SumAtSame
<1>13. Forces(v)
  BY <1>3, <1>4, ForcesSame DEF Sound, Nearly
<1>14. Shapes(U, v)
  BY <1>3, <1>4 DEF Sound, Nearly, Shapes, Shaped
<1>15. Minds(v)
  BY <1>3, <1>4, MindsSame DEF Sound, Nearly
<1>16. Walls(U, v)
  <2> SUFFICES ASSUME NEW j \in DOMAIN w.obj, j \notin U, w.obj[j].kind \in Wall, NEW d \in Dir,
                      IsInside(v.obj[j].owner, d), Neighbour(v.obj[j].owner, d) \notin U
               PROVE  Knows(v, j, d)
    BY <1>4 DEF Walls
  <2>1. j # i
    <3>1. j # Hand
      BY <1>1, ValidIsNat DEF Formed, Hand
    <3> QED BY <1>4, <3>1 DEF Is, KindOf, IsValid
  <2>2. v.obj[j] = w.obj[j]
    BY <1>4, <2>1
  <2>3. Knows(w, j, d)
    BY <2>2 DEF Sound, Nearly, Walls
  <2> DEFINE n == Neighbour(w.obj[j].owner, d)
  <2>4. n \in Tile
    BY <2>2, NeighbourIsTile DEF IsInside
  <2>5. Is(v, v.turf[n], Wall) <=> Is(w, w.turf[n], Wall)
    <3>1. CASE n = t
      BY <1>5, <1>7, <2>2, <3>1 DEF Is
    <3>2. CASE n # t
      BY <1>5, <1>7, <2>4, <3>2 DEF Is
    <3> QED BY <3>1, <3>2
  <2>6. \A x : Is(w, x, Wall) => x # None
    BY <1>8 DEF Is, KindOf, IsValid, Hand, None, Wall
  <2>7. WallAt(v, j, d) # None <=> WallAt(w, j, d) # None
    BY <1>7, <2>2, <2>5, <2>6 DEF WallAt, Owner, Is
  <2> QED BY <1>3, <2>3, <2>7 DEF Knows
<1>17. Nearly(B, U, t, v)
  BY <1>9, <1>11, <1>12, <1>13, <1>14, <1>15, <1>16 DEF Nearly
<1> QED BY <1>17, <1>o DEF B, o

\* No object moves where no object is written.
LEMMA SameObjSince ==
  ASSUME NEW w, NEW v, Formed(w), Only({"content", "turf", "sum", "flags"}, w, v)
  PROVE  Since(w, v)
<1>1. /\ v.own = w.own /\ v.tick = w.tick /\ v.last = w.last /\ v.list = w.list /\ v.obj = w.obj
      /\ v.to_add = w.to_add /\ v.under_force = w.under_force
  BY SameFields
<1>2. Since(w, w)
  BY SinceSelf DEF Formed
<1> QED BY <1>1, <1>2 DEF Since, Remains, Moves, Waiting

\* SetTurf leaves the world sound but for the turf that was there.
LEMMA SetTurfSound ==
  ASSUME NEW A, NEW U, NEW w, Sound(A, U, w), NEW t \in Tile, NEW i,
         i = None \/ (i \in DOMAIN w.obj /\ i \in A /\ w.obj[i].kind \in Turf /\ w.obj[i].owner \notin Tile),
         Is(w, w.turf[t], Wall) \/ Is(w, i, Wall) => t \in U, Is(w, i, Wall) => i \in U,
         NEW v, v = SetTurf(w, t, i)
  PROVE  /\ Sound((A \cup {w.turf[t]}) \ {i}, U, v) /\ Since(w, v)
         /\ Only({"obj", "turf", "sum", "flags"}, w, v)
         /\ v.obj = TurfOwner(w, t, i) /\ v.turf = TurfSet(w, t, i)
<1>1. PICK x : x = WithTurf(w, t, i)
  OBVIOUS
<1>2. v = UpdatePassable(x, t)
  BY <1>1 DEF SetTurf, WithTurf
<1>3. Nearly((A \cup {w.turf[t]}) \ {i}, U, t, x)
  BY <1>1, TurfNearly
<1>4. Formed(w) /\ DOMAIN w = Members
  BY DEF Sound, Nearly, Formed, Counted
<1>5. Only({"turf", "obj"}, w, x) /\ x.turf = TurfSet(w, t, i) /\ x.obj = TurfOwner(w, t, i)
  <2>1. i = None \/ IsValid(w, i)
    BY DEF IsValid
  <2> QED BY <1>1, <1>4, <2>1, WithTurfIs
<1>6. Only({"sum", "flags"}, x, v)
  BY <1>2, <1>5, UpdateKeeps DEF Only
<1>7. Only({"obj", "turf", "sum", "flags"}, w, v) /\ v.obj = TurfOwner(w, t, i) /\ v.turf = TurfSet(w, t, i)
  <2>1. Only({"obj", "turf", "sum", "flags"}, w, v)
    BY <1>5, <1>6 DEF Only
  <2>2. v.obj = x.obj /\ v.turf = x.turf
    BY <1>6, SameFields
  <2> QED BY <1>5, <2>1, <2>2
<1>8. Since(w, v)
  <2>1. CASE i \in DOMAIN w.obj
    <3>1. v.obj = OwnerSet(w, i, t)
      BY <1>7, <2>1 DEF TurfOwner, IsValid
    <3>2. Only({"obj", "content", "turf", "sum", "flags"}, w, v)
      BY <1>7 DEF Only
    <3>3. i # None
      BY <1>4, <2>1, ValidIsNat DEF Formed
    <3> QED BY <1>4, <2>1, <3>1, <3>2, <3>3, OwnerSince
  <2>2. CASE i \notin DOMAIN w.obj
    <3>1. v.obj = w.obj
      BY <1>7, <2>2 DEF TurfOwner, IsValid
    <3>2. Only({"content", "turf", "sum", "flags"}, w, v)
      BY <1>7, <3>1 DEF Only, Members
    <3> QED BY <1>4, <3>2, SameObjSince
  <2> QED BY <2>1, <2>2
<1> QED BY <1>2, <1>3, <1>7, <1>8, Updated

-----------------------------------------------------------------------------
(* An object leaves the container it is in.                                *)

\* RemoveObject of what a container does not have does nothing.
LEMMA RemoveNothing ==
  ASSUME NEW A, NEW w, Formed(w), Settled(A, w), NEW c, NEW i \in DOMAIN w.obj, i \in A
  PROVE  RemoveObject(w, c, i) = w
<1>1. i # None
  BY ValidIsNat DEF Formed
<1>2. ~Has(w, c, i)
  BY <1>1, HasLies
<1> QED BY <1>2 DEF RemoveObject

\* Only a human keeps what it has in its own members.
OwnKept(w, c, v) == Is(w, c, {"human"}) \/ v.own = w.own

\* RemoveObject leaves the world sound but for the object it took out.
LEMMA Removed ==
  ASSUME NEW A, NEW U, NEW w, Sound(A, U, w), NEW c, NEW i \in DOMAIN w.obj, Has(w, c, i),
         w.obj[i].kind \in Wall => c \in U, NEW v, v = RemoveObject(w, c, i)
  PROVE  /\ Sound(A \cup {i}, U, v) /\ Since(w, v)
         /\ Only({"content", "turf", "sum", "flags", "own"}, w, v)
         /\ OwnKept(w, c, v)
<1>1. Formed(w) /\ Settled(A, w) /\ DOMAIN w = Members
  BY DEF Sound, Nearly, Formed, Counted
<1>2. i # None /\ i # Hand
  BY <1>1, ValidIsNat DEF Formed, Hand
<1>3. CASE c \in Tile /\ i = w.turf[c]
  <2>1. v = SetTurf(w, c, None)
    BY <1>3 DEF RemoveObject
  <2>2. None \notin DOMAIN w.obj
    BY <1>1, ValidIsNat DEF Formed
  <2>3. ~Is(w, None, Wall)
    BY <2>2 DEF Is, KindOf, IsValid, Hand, None, Wall
  <2>4. Is(w, w.turf[c], Wall) => c \in U
    BY <1>2, <1>3 DEF Is, KindOf, IsValid
  <2>5. /\ Sound((A \cup {w.turf[c]}) \ {None}, U, v) /\ Since(w, v)
        /\ Only({"obj", "turf", "sum", "flags"}, w, v)
        /\ v.obj = TurfOwner(w, c, None)
    BY <1>3, <2>1, <2>3, <2>4, SetTurfSound
  <2>6. v.obj = w.obj
    BY <2>2, <2>5 DEF TurfOwner, IsValid
  <2>7. Only({"content", "turf", "sum", "flags", "own"}, w, v) /\ v.own = w.own
    BY <2>5, <2>6, SameFields DEF Only, Members
  <2>8. \A j \in DOMAIN v.obj : j \in (A \cup {w.turf[c]}) \ {None} <=> j \in A \cup {i}
    BY <1>3, <2>2, <2>6
  <2>9. Sound(A \cup {i}, U, v)
    BY <2>5, <2>8, SameHeld DEF Sound
  <2> QED BY <2>5, <2>7, <2>9 DEF OwnKept
<1>4. CASE (c \in Tile /\ i # w.turf[c]) \/ (c \notin Tile /\ Is(w, c, Closet))
  <2>1. Contains(w.content[c], i)
    BY <1>4 DEF Has
  <2>2. PICK x : x = Taken(w, c, i)
    OBVIOUS
  <2>3. Nearly(A \cup {i}, U, c, x) /\ Only({"content"}, w, x)
    BY <1>4, <2>1, <2>2, TakenNearly
  <2>4. v = UpdatePassable(x, c)
    BY <1>4, <2>2 DEF RemoveObject, UpdatePassable
  <2>5. Only({"sum", "flags"}, x, v)
    BY <2>3, <2>4, UpdateKeeps DEF Only
  <2>6. Only({"content", "turf", "sum", "flags"}, w, v)
    BY <2>3, <2>5 DEF Only
  <2>7. Since(w, v)
    BY <1>1, <2>6, SameObjSince
  <2>8. Only({"content", "turf", "sum", "flags", "own"}, w, v) /\ v.own = w.own
    BY <2>6, SameFields DEF Only
  <2> QED BY <2>3, <2>4, <2>7, <2>8, Updated DEF OwnKept
<1>5. CASE c \notin Tile /\ ~Is(w, c, Closet)
  <2>1. Is(w, c, {"human"})
    BY <1>5 DEF Has
  <2>2. IsHuman(w, c)
    BY <2>1 DEF Is, KindOf, IsValid, IsHuman
  <2>3. v = Unslot(w, c, i)
    BY <1>5 DEF RemoveObject
  <2>4. w.own[c].slot \in [Slot -> Nat] /\ DOMAIN w.own[c] = DOMAIN NewHuman /\ DOMAIN w.own = DOMAIN w.obj
    BY <1>1, <2>2, HumanOwn
  <2>5. SlotsSet(w, c, v, Cleared(w.own[c].slot, i))
    <3>1. v = [w EXCEPT !.own[c].slot = [s \in Slot |-> IF @[s] = i THEN None ELSE @[s]]]
      BY <2>3, KeptIs DEF Unslot
    <3>2. Only({"own"}, w, v)
      BY <1>1, <3>1 DEF Only, Members
    <3>3. v.own = [w.own EXCEPT ![c] = [w.own[c] EXCEPT !.slot = Cleared(w.own[c].slot, i)]]
      BY <1>1, <3>1 DEF Cleared, Members
    <3> QED BY <3>2, <3>3 DEF SlotsSet
  <2>6. Sound(A \cup {i}, U, v) /\ Since(w, v)
    BY <2>2, <2>5, ClearedSound
  <2>7. Only({"content", "turf", "sum", "flags", "own"}, w, v)
    BY <2>5 DEF SlotsSet, Only
  <2> QED BY <2>1, <2>6, <2>7 DEF OwnKept
<1> QED BY <1>3, <1>4, <1>5

-----------------------------------------------------------------------------
(* An object changes and keeps its place and its shape.                    *)

ObjsSet(w, i, o) == [w.obj EXCEPT ![i] = o]
OwnsSet(w, i, e) == [w.own EXCEPT ![i] = e]

Forceful(v, i, o) == IsZero(o.motion.force) \/ i \in ToSet(v.to_add) \cup ToSet(v.under_force)

\* The members every object has, as v is to have them.
ObjFine(w, v, i, o) ==
  /\ o \in Object
  /\ o.kind = w.obj[i].kind /\ o.owner = w.obj[i].owner
  /\ o.pass = w.obj[i].pass /\ o.last_move = w.obj[i].last_move
  /\ w.obj[i].kind = "glassdoor" => o.anchored
  /\ ~IsZero(o.motion.force) => w.obj[i].kind \in Movable
  /\ Forceful(v, i, o)

\* Its own.
OwnFine(w, i, e) ==
  /\ OwnFits(w, w.obj[i].kind, e)
  /\ w.obj[i].kind = "human" =>
       /\ e.slot = w.own[i].slot
       /\ e.dead => w.own[i].dead \/ \A p \in Player : w.mind[p] # i
       /\ e.pulled \in {w.own[i].pulled, None}
  /\ w.obj[i].kind \in Wall => e.walls = w.own[i].walls

\* Queues that are left alone do not shrink.
LEMMA QueuesSame ==
  ASSUME NEW w, Formed(w), NEW v, v.list = w.list, v.to_add = w.to_add, v.chance = w.chance
  PROVE  QueuesGrow(w, v) /\ Len(w.list) <= Len(v.list)
<1>1. Queues(w) /\ w.last \in Nat
  BY DEF Formed, Counted
<1>2. Len(w.list) \in Nat
  BY <1>1, LenProperties DEF Queues
<1> QED BY <1>1, <1>2 DEF QueuesGrow, Queues

\* One change of one object, with its own conditions, keeps the invariant.
LEMMA PlainStep ==
  ASSUME NEW A, NEW U, NEW r, NEW w, Sane(A, U, r, w), NEW i \in DOMAIN w.obj, NEW v, NEW o, NEW e,
         Only({"obj", "own", "list", "to_add", "chance", "failed", "lobby", "env"}, w, v),
         v.obj = ObjsSet(w, i, o), v.own = OwnsSet(w, i, e),
         ObjFine(w, v, i, o), OwnFine(w, i, e), QueuesGrow(w, v), Len(w.list) <= Len(v.list),
         i \notin U => ShapeFits(w.obj[i].kind, o.pass, o.dir, e)
  PROVE  Sane(A, U, r, v)
<1>1. Formed(w) /\ Sound(A, U, w) /\ Nearly(A, U, None, w) /\ DOMAIN w.own = DOMAIN w.obj
  BY DEF Sane, Sound, Nearly, Formed, Owned
<1>2. /\ DOMAIN v.obj = DOMAIN w.obj /\ DOMAIN v.own = DOMAIN w.obj
      /\ v.obj[i] = o /\ v.own[i] = e
      /\ \A j \in DOMAIN w.obj : j # i => v.obj[j] = w.obj[j] /\ v.own[j] = w.own[j]
      /\ v.obj = [j \in DOMAIN w.obj |-> v.obj[j]] /\ v.own = [j \in DOMAIN w.obj |-> v.own[j]]
  BY <1>1 DEF ObjsSet, OwnsSet
<1>3. ObjFits(w, v, i)
  <2>1. w.obj[i].last_move <= w.tick
    BY <1>1 DEF Formed, Objects
  <2> QED BY <1>2, <2>1 DEF ObjFits, ObjFine, Forceful
<1>4. OwnStays(w, v, i)
  BY <1>2 DEF OwnStays, OwnFine
<1>5. Changes(w, v, i)
  BY <1>2, <1>3, <1>4 DEF Changes
<1>6. Nearly(A, U \cup {i}, None, v)
  BY <1>1, <1>2, <1>5, Changed DEF ObjFine
<1>7. Since(w, v)
  BY <1>1, <1>2, <1>5, ChangedSince DEF ObjFine, OwnFine
<1>8. Shapes(U, v)
  <2>1. Shapes(U, w)
    BY <1>1 DEF Nearly
  <2>2. i \notin U => Shaped(v, i)
    BY <1>2, <2>1 DEF Shaped, Shapes, ObjFine
  <2>3. \A j \in DOMAIN w.obj : j # i /\ j \notin U => Shaped(v, j)
    BY <1>2, <2>1 DEF Shaped, Shapes
  <2> QED BY <1>2, <2>2, <2>3 DEF Shapes
<1>9. Walls(U, v)
  <2>1. Twins(w, v)
    BY <1>2 DEF Twins, ObjFine
  <2>2. \A j \in DOMAIN w.obj : w.obj[j].kind \in Wall => v.own[j].walls = w.own[j].walls
    BY <1>2 DEF OwnFine
  <2>3. v.turf = w.turf
    BY SameFields
  <2> QED BY <1>1, <2>1, <2>2, <2>3, WallsSame DEF Nearly
<1>10. Sound(A, U, v)
  BY <1>6, <1>8, <1>9 DEF Sound, Nearly
<1> QED BY <1>7, <1>10, SaneStep

\* The same for its own data only.
LEMMA OwnStep ==
  ASSUME NEW A, NEW U, NEW r, NEW w, Sane(A, U, r, w), NEW i \in DOMAIN w.obj, NEW v, NEW e,
         Only({"own"}, w, v), v.own = OwnsSet(w, i, e), OwnFine(w, i, e),
         i \notin U => ShapeFits(w.obj[i].kind, w.obj[i].pass, w.obj[i].dir, e)
  PROVE  Sane(A, U, r, v)
<1>1. Formed(w) /\ Forces(w)
  BY DEF Sane, Sound, Nearly
<1>2. PICK o : o = w.obj[i]
  OBVIOUS
<1>3. v.obj = w.obj /\ v.list = w.list /\ v.to_add = w.to_add /\ v.chance = w.chance /\ v.under_force = w.under_force
  BY SameFields
<1>4. QueuesGrow(w, v) /\ Len(w.list) <= Len(v.list)
  BY <1>1, <1>3, QueuesSame
<1>5. v.obj = ObjsSet(w, i, o)
  <2>1. w.obj = [j \in DOMAIN w.obj |-> w.obj[j]]
    BY <1>1 DEF Formed, Objects
  <2> QED BY <1>2, <1>3, <2>1 DEF ObjsSet
<1>6. ObjFine(w, v, i, o)
  BY <1>1, <1>2, <1>3 DEF ObjFine, Forceful, Formed, Objects, Forces
<1>7. Only({"obj", "own", "list", "to_add", "chance", "failed", "lobby", "env"}, w, v)
  BY DEF Only
<1> QED BY <1>2, <1>4, <1>5, <1>6, <1>7, PlainStep

\* The same for its common data only.
LEMMA ObjStep ==
  ASSUME NEW A, NEW U, NEW r, NEW w, Sane(A, U, r, w), NEW i \in DOMAIN w.obj, NEW v, NEW o,
         Only({"obj"}, w, v), v.obj = ObjsSet(w, i, o), ObjFine(w, w, i, o),
         i \notin U => ShapeFits(w.obj[i].kind, o.pass, o.dir, w.own[i])
  PROVE  Sane(A, U, r, v)
<1>1. Formed(w) /\ Forces(w) /\ Minds(w)
  BY DEF Sane, Sound, Nearly
<1>2. PICK e : e = w.own[i]
  OBVIOUS
<1>3. v.own = w.own /\ v.list = w.list /\ v.to_add = w.to_add /\ v.chance = w.chance /\ v.under_force = w.under_force
  BY SameFields
<1>4. QueuesGrow(w, v) /\ Len(w.list) <= Len(v.list)
  BY <1>1, <1>3, QueuesSame
<1>5. v.own = OwnsSet(w, i, e)
  <2>1. w.own = [j \in DOMAIN w.obj |-> w.own[j]]
    BY <1>1 DEF Formed, Owned
  <2> QED BY <1>2, <1>3, <2>1 DEF OwnsSet
<1>6. ObjFine(w, v, i, o)
  BY <1>3 DEF ObjFine, Forceful
<1>7. OwnFine(w, i, e)
  BY <1>1, <1>2 DEF Formed, Owned, OwnFine
<1>8. Only({"obj", "own", "list", "to_add", "chance", "failed", "lobby", "env"}, w, v)
  BY DEF Only
<1> QED BY <1>2, <1>4, <1>5, <1>6, <1>7, <1>8, PlainStep

\* A change of queues and counters keeps the invariant.
LEMMA ScalarStep ==
  ASSUME NEW A, NEW U, NEW r, NEW w, Sane(A, U, r, w), NEW v,
         Only({"list", "to_add", "chance", "failed", "lobby", "env"}, w, v),
         QueuesGrow(w, v), Len(w.list) <= Len(v.list)
  PROVE  Sane(A, U, r, v)
<1>1. Formed(w) /\ Sound(A, U, w) /\ Nearly(A, U, None, w)
  BY DEF Sane, Sound, Nearly
<1>2. v.obj = w.obj /\ v.own = w.own
  BY SameFields
<1>3. None \notin DOMAIN w.obj
  BY <1>1, ValidIsNat DEF Formed
<1>4. v.obj = [j \in DOMAIN w.obj |-> v.obj[j]] /\ v.own = [j \in DOMAIN w.obj |-> v.own[j]]
  BY <1>1, <1>2 DEF Formed, Objects, Owned
<1>5. Only({"obj", "own", "list", "to_add", "chance", "failed", "lobby", "env"}, w, v)
  BY DEF Only
<1>6. Changes(w, v, None)
  BY <1>2, <1>3, <1>4, <1>5 DEF Changes
<1>7. Nearly(A, U \cup {None}, None, v)
  BY <1>1, <1>3, <1>6, Changed
<1>8. Since(w, v)
  BY <1>1, <1>3, <1>6, ChangedSince
<1>9. Sound(A, U, v)
  BY <1>2, <1>3, <1>7, NoneIsNoTile, Straightened DEF Sound
<1> QED BY <1>8, <1>9, SaneStep

\* A failure that is noted changes nothing else.
LEMMA FailSane ==
  ASSUME NEW A, NEW U, NEW r, NEW w, Sane(A, U, r, w), NEW why
  PROVE  Sane(A, U, r, Fail(w, why))
<1>1. PICK v : v = Fail(w, why)
  OBVIOUS
<1>2. Formed(w) /\ DOMAIN w = Members
  BY DEF Sane, Sound, Nearly, Formed, Counted
<1>3. Only({"failed"}, w, v)
  BY <1>1, <1>2 DEF Fail, Only, Members
<1>4. QueuesGrow(w, v) /\ Len(w.list) <= Len(v.list)
  <2>1. v.list = w.list /\ v.to_add = w.to_add /\ v.chance = w.chance
    BY <1>3, SameFields
  <2> QED BY <1>2, <2>1, QueuesSame
<1>5. Only({"list", "to_add", "chance", "failed", "lobby", "env"}, w, v)
  BY <1>3 DEF Only
<1> QED BY <1>1, <1>4, <1>5, ScalarStep

-----------------------------------------------------------------------------
(* Turns, doors and levels.                                                *)

\* The types a sane world gives.
LEMMA SaneForms ==
  ASSUME NEW A, NEW U, NEW r, NEW w, Sane(A, U, r, w)
  PROVE  /\ Formed(w) /\ DOMAIN w = Members /\ DOMAIN w.own = DOMAIN w.obj
         /\ w.tick \in Nat /\ w.last \in Nat
         /\ \A i \in DOMAIN w.obj :
              /\ w.obj[i] \in Object /\ OwnFits(w, w.obj[i].kind, w.own[i])
              /\ w.obj[i].kind = "glassdoor" => w.obj[i].anchored
              /\ i \in Nat /\ i # None /\ i # Hand /\ i \notin Tile /\ i \in 1 .. w.last
              /\ KindOf(w, i) = w.obj[i].kind
<1>1. Formed(w)
  BY DEF Sane, Sound, Nearly
<1>2. \A i \in DOMAIN w.obj : i \in Nat /\ i # None /\ i \notin Tile /\ i <= w.last
  BY <1>1, ValidIsNat DEF Formed
<1>3. \A i \in DOMAIN w.obj : i # Hand /\ i \in 1 .. w.last
  BY <1>1, <1>2 DEF Hand, None, Formed, Counted
<1>4. \A i \in DOMAIN w.obj : KindOf(w, i) = w.obj[i].kind
  BY <1>3 DEF KindOf, IsValid
<1> QED BY <1>1, <1>2, <1>3, <1>4 DEF Formed, Counted, Objects, Owned

\* An object whose shape fits again need not be excepted.
LEMMA StraightSane ==
  ASSUME NEW A, NEW U, NEW r, NEW w, NEW i \in DOMAIN w.obj, Sane(A, U \cup {i}, r, w),
         Shaped(w, i), w.obj[i].kind \notin Wall
  PROVE  Sane(A, U, r, w)
<1>1. i \notin Tile
  BY SaneForms
<1> QED BY <1>1, Straightened DEF Sane, Sound

\* Setting a passability changes nothing else of any object.
LEMMA PassSetIs ==
  ASSUME NEW A, NEW U, NEW r, NEW w, Sane(A, U, r, w), NEW i \in DOMAIN w.obj, NEW d \in Way, NEW p
  PROVE  /\ DOMAIN PassSet(w, i, d, p) = DOMAIN w.obj
         /\ \A j \in DOMAIN w.obj : j # i => PassSet(w, i, d, p)[j] = w.obj[j]
         /\ \A j \in DOMAIN w.obj :
              /\ PassSet(w, i, d, p)[j].kind = w.obj[j].kind /\ PassSet(w, i, d, p)[j].owner = w.obj[j].owner
              /\ PassSet(w, i, d, p)[j].dir = w.obj[j].dir /\ PassSet(w, i, d, p)[j].last_move = w.obj[j].last_move
              /\ PassSet(w, i, d, p)[j].motion = w.obj[j].motion
              /\ PassSet(w, i, d, p)[j].anchored = w.obj[j].anchored
         /\ PassSet(w, i, d, p)[i].pass[d] = p
         /\ \A e \in Way : e # d => PassSet(w, i, d, p)[i].pass[e] = w.obj[i].pass[e]
<1>1. w.obj[i] \in Object
  BY SaneForms
<1>2. PassSet(w, i, d, p)[i] = [w.obj[i] EXCEPT !.pass = [w.obj[i].pass EXCEPT ![d] = p]]
  BY DEF PassSet
<1>3. DOMAIN w.obj[i] = {"kind", "owner", "pass", "dir", "anchored", "motion", "last_move", "freq"} /\ DOMAIN w.obj[i].pass = Way
  BY <1>1 DEF Object
<1>4. /\ DOMAIN PassSet(w, i, d, p) = DOMAIN w.obj
      /\ \A j \in DOMAIN w.obj : j # i => PassSet(w, i, d, p)[j] = w.obj[j]
  BY DEF PassSet
<1>5. /\ PassSet(w, i, d, p)[i].kind = w.obj[i].kind /\ PassSet(w, i, d, p)[i].owner = w.obj[i].owner
      /\ PassSet(w, i, d, p)[i].dir = w.obj[i].dir /\ PassSet(w, i, d, p)[i].last_move = w.obj[i].last_move
      /\ PassSet(w, i, d, p)[i].motion = w.obj[i].motion
      /\ PassSet(w, i, d, p)[i].anchored = w.obj[i].anchored
      /\ PassSet(w, i, d, p)[i].pass = [w.obj[i].pass EXCEPT ![d] = p]
  BY <1>2, <1>3
<1>6. \A j \in DOMAIN w.obj :
        /\ PassSet(w, i, d, p)[j].kind = w.obj[j].kind /\ PassSet(w, i, d, p)[j].owner = w.obj[j].owner
        /\ PassSet(w, i, d, p)[j].dir = w.obj[j].dir /\ PassSet(w, i, d, p)[j].last_move = w.obj[j].last_move
        /\ PassSet(w, i, d, p)[j].motion = w.obj[j].motion
        /\ PassSet(w, i, d, p)[j].anchored = w.obj[j].anchored
  BY <1>4, <1>5
<1> QED BY <1>3, <1>4, <1>5, <1>6

\* SetPassable renews the sums of the tile; only the object's shape is open.
LEMMA PassStep ==
  ASSUME NEW A, NEW U, NEW r, NEW w, Sane(A, U, r, w), NEW i \in DOMAIN w.obj, NEW d, NEW p \in PassableLevel
  PROVE  /\ Sane(A, U \cup {i}, r, SetPassable(w, i, d, p))
         /\ Only({"obj", "sum", "flags"}, w, SetPassable(w, i, d, p))
         /\ SetPassable(w, i, d, p).obj = PassSet(w, i, d, p)
<1>1. /\ Sound(A, U \cup {i}, SetPassable(w, i, d, p))
      /\ Since(w, SetPassable(w, i, d, p))
      /\ Only({"obj", "sum", "flags"}, w, SetPassable(w, i, d, p))
      /\ SetPassable(w, i, d, p).obj = PassSet(w, i, d, p)
  BY SetPassableSound DEF Sane
<1> QED BY <1>1, SaneStep

\* The level is one the state of the object asks for.
Fitting(w, i, d, p) ==
  \A pass : pass[d] = p /\ (\A e \in Way : e # d => pass[e] = w.obj[i].pass[e]) =>
    ShapeFits(w.obj[i].kind, pass, w.obj[i].dir, w.own[i])

\* SetPassable of the level that fits the object's state keeps the invariant.
LEMMA PassKeeps ==
  ASSUME NEW A, NEW U, NEW r, NEW w, NEW i \in DOMAIN w.obj, Sane(A, U \cup {i}, r, w),
         NEW d \in Way, NEW p \in PassableLevel,
         w.obj[i].kind \notin Wall, NEW v, v = SetPassable(w, i, d, p), Fitting(w, i, d, p)
  PROVE  Sane(A, U, r, v) /\ Only({"obj", "sum", "flags"}, w, v) /\ v.obj = PassSet(w, i, d, p)
<1>1. Sane(A, (U \cup {i}) \cup {i}, r, v) /\ Only({"obj", "sum", "flags"}, w, v) /\ v.obj = PassSet(w, i, d, p)
  BY PassStep
<1>2. Sane(A, U \cup {i}, r, v)
  <2>1. (U \cup {i}) \cup {i} = U \cup {i}
    OBVIOUS
  <2> QED BY <1>1, <2>1
<1>3. /\ DOMAIN v.obj = DOMAIN w.obj /\ v.obj[i].kind = w.obj[i].kind /\ v.obj[i].dir = w.obj[i].dir
      /\ v.obj[i].pass[d] = p /\ \A e \in Way : e # d => v.obj[i].pass[e] = w.obj[i].pass[e]
  BY <1>1, PassSetIs
<1>4. v.own = w.own
  BY <1>1, SameFields
<1>5. Shaped(v, i)
  BY <1>3, <1>4 DEF Shaped, Fitting
<1> QED BY <1>1, <1>2, <1>3, <1>5, StraightSane

\* SetFreq keeps the invariant.
LEMMA SetFreqSane ==
  ASSUME NEW A, NEW U, NEW r, NEW w, Sane(A, U, r, w), NEW i \in DOMAIN w.obj, NEW freq \in Nat
  PROVE  Sane(A, U, r, SetFreq(w, i, freq))
<1>1. PICK v : v = SetFreq(w, i, freq)
  OBVIOUS
<1>2. /\ Formed(w) /\ DOMAIN w = Members /\ DOMAIN w.own = DOMAIN w.obj /\ w.obj[i] \in Object
      /\ OwnFits(w, w.obj[i].kind, w.own[i]) /\ i \in 1 .. w.last
      /\ w.obj[i].kind = "glassdoor" => w.obj[i].anchored
  BY SaneForms
<1>3. PICK o : o = [w.obj[i] EXCEPT !.freq = freq]
  OBVIOUS
<1>4. PICK e : e = w.own[i]
  OBVIOUS
<1>5. Only({"obj", "own", "list", "to_add", "chance", "failed", "lobby", "env"}, w, v)
  BY <1>1, <1>2 DEF SetFreq, Only, Members
<1>6. /\ v.own = w.own /\ v.to_add = w.to_add /\ v.chance = w.chance
      /\ v.list = IF freq # 0 /\ ~Contains(w.list, i) THEN Append(w.list, i) ELSE w.list
  BY <1>1, <1>2 DEF SetFreq, Members
<1>7. v.obj = ObjsSet(w, i, o)
  BY <1>1, <1>2, <1>3 DEF SetFreq, ObjsSet, Members
<1>8. v.own = OwnsSet(w, i, e)
  BY <1>2, <1>4, <1>6 DEF OwnsSet, Formed, Owned
<1>9. ObjFine(w, v, i, o)
  <2>1. /\ o \in Object /\ o.kind = w.obj[i].kind /\ o.owner = w.obj[i].owner /\ o.pass = w.obj[i].pass
        /\ o.last_move = w.obj[i].last_move /\ o.anchored = w.obj[i].anchored /\ o.motion = w.obj[i].motion
    BY <1>2, <1>3 DEF Object
  <2>2. v.under_force = w.under_force
    BY <1>5, SameFields
  <2>3. Forces(w)
    BY DEF Sane, Sound, Nearly
  <2> QED BY <1>2, <1>6, <2>1, <2>2, <2>3 DEF ObjFine, Forceful, Forces
<1>10. OwnFine(w, i, e)
  BY <1>2, <1>4 DEF OwnFine
<1>11. QueuesGrow(w, v) /\ Len(w.list) <= Len(v.list)
  <2>1. Queues(w)
    BY <1>2 DEF Formed
  <2>2. CASE v.list = w.list
    BY <1>2, <1>6, <2>2, QueuesSame
  <2>3. CASE v.list = Append(w.list, i)
    <3>1. v.list \in Seq(1 .. w.last) /\ Len(v.list) = Len(w.list) + 1 /\ Len(w.list) \in Nat
      BY <1>2, <2>1, <2>3, AppendIs, LenProperties DEF Queues
    <3> QED BY <1>6, <2>1, <3>1 DEF QueuesGrow, Queues
  <2> QED BY <1>6, <2>2, <2>3
<1>12. i \notin U => ShapeFits(w.obj[i].kind, o.pass, o.dir, e)
  <2>1. Shapes(U, w)
    BY DEF Sane, Sound, Nearly
  <2>2. o.pass = w.obj[i].pass /\ o.dir = w.obj[i].dir
    BY <1>2, <1>3 DEF Object
  <2> QED BY <1>4, <2>1, <2>2 DEF Shapes, Shaped
<1> QED BY <1>1, <1>5, <1>7, <1>8, <1>9, <1>10, <1>11, <1>12, PlainStep

\* What is sane but for some shapes is so but for more.
LEMMA LooseSane ==
  ASSUME NEW A, NEW U, NEW V, NEW r, NEW w, Sane(A, U, r, w), U \subseteq V
  PROVE  Sane(A, V, r, w)
BY Loosened DEF Sane, Sound

-----------------------------------------------------------------------------
(* The members of each class.                                              *)

\* Which fields a new object of a class has of its own.
LEMMA NewOwnIs ==
  ASSUME NEW kind
  PROVE  /\ kind \in {"door", "glassdoor"} => DOMAIN NewOwn(kind) = {"state", "last_tick"}
         /\ kind \in Closet => DOMAIN NewOwn(kind) = {"open", "locked"}
         /\ kind \in Breakable => DOMAIN NewOwn(kind) = {"hit_points", "cutted"}
         /\ kind \in Projectile => DOMAIN NewOwn(kind) = {"movement", "step", "harmless"}
         /\ kind \in Gun => DOMAIN NewOwn(kind) = {"ammunition"}
         /\ kind \in Wall => DOMAIN NewOwn(kind) = {"walls"}
         /\ kind = "human" => DOMAIN NewOwn(kind) = DOMAIN NewHuman
         /\ kind \in {"ghost", "lobby"} => DOMAIN NewOwn(kind) = {"seconds"}
         /\ kind = "welder" => DOMAIN NewOwn(kind) = {"on", "fuel"}
         /\ kind = "opener" => DOMAIN NewOwn(kind) = {"door"}
         /\ kind = "floor" => DOMAIN NewOwn(kind) = {"open"}
BY DEF NewOwn, Closet, Breakable, Projectile, Gun, Wall

\* What a change of the object's own members has to keep, of an object that is no person,
\* no wall and nothing that flies or opens.
LEMMA SimpleOwn ==
  ASSUME NEW w, NEW i, NEW e, DOMAIN e = DOMAIN w.own[i], OwnFits(w, w.obj[i].kind, w.own[i]),
         w.obj[i].kind \notin Wall \cup Projectile \cup {"human", "opener"}
  PROVE  OwnFine(w, i, e)
BY DEF OwnFine, OwnFits

-----------------------------------------------------------------------------
(* Doors.                                                                  *)

IsDoor(w, i) == i \in DOMAIN w.obj /\ w.obj[i].kind \in {"door", "glassdoor"}

\* A door's state may change where it stays open or stays shut.
LEMMA DoorStateSane ==
  ASSUME NEW A, NEW U, NEW r, NEW w, NEW i, Sane(A, U, r, w), IsDoor(w, i), NEW state,
         NEW v, v = DoorState(w, i, state)
  PROVE  /\ (i \notin U => (state = "open" <=> w.own[i].state = "open")) => Sane(A, U, r, v)
         /\ Only({"own"}, w, v)
         /\ v.own[i].state = state
<1>1. /\ Formed(w) /\ DOMAIN w = Members /\ DOMAIN w.own = DOMAIN w.obj
      /\ OwnFits(w, w.obj[i].kind, w.own[i])
  BY SaneForms DEF IsDoor
<1>2. DOMAIN w.own[i] = {"state", "last_tick"}
  BY <1>1, NewOwnIs DEF OwnFits, IsDoor
<1>3. PICK e : e = [w.own[i] EXCEPT !.state = state, !.last_tick = w.tick]
  OBVIOUS
<1>4. Only({"own"}, w, v)
  BY <1>1 DEF DoorState, Only, Members
<1>5. v.own = OwnsSet(w, i, e)
  BY <1>1, <1>2, <1>3 DEF DoorState, OwnsSet, Members, IsDoor
<1>6. e.state = state /\ DOMAIN e = DOMAIN w.own[i]
  BY <1>2, <1>3
<1>7. v.own[i] = e
  BY <1>1, <1>5 DEF OwnsSet, IsDoor
<1>8. OwnFine(w, i, e)
  BY <1>1, <1>6, SimpleOwn DEF IsDoor, Wall, Projectile
<1>9. (i \notin U => (state = "open" <=> w.own[i].state = "open")) =>
        (i \notin U => ShapeFits(w.obj[i].kind, w.obj[i].pass, w.obj[i].dir, e))
  <2>1. Shapes(U, w)
    BY DEF Sane, Sound, Nearly
  <2> QED BY <1>6, <2>1 DEF Shapes, Shaped, ShapeFits, IsDoor, Closet
<1> QED BY <1>4, <1>5, <1>6, <1>7, <1>8, <1>9, OwnStep DEF IsDoor

\* A door blocks all ways, a glass door its direction.
LEMMA DoorWayIs ==
  ASSUME NEW A, NEW U, NEW r, NEW w, NEW i, Sane(A, U, r, w), IsDoor(w, i)
  PROVE  DoorWay(w, i) \in Way /\ DoorWay(w, i) = IF w.obj[i].kind = "door" THEN "all" ELSE w.obj[i].dir
<1>1. w.obj[i] \in Object /\ KindOf(w, i) = w.obj[i].kind
  BY SaneForms DEF IsDoor
<1> QED BY <1>1 DEF DoorWay, Is, DirOf, Object, Way

\* The way through a door follows its state.
LEMMA DoorPass ==
  ASSUME NEW A, NEW U, NEW r, NEW w, NEW i, Sane(A, U \cup {i}, r, w), IsDoor(w, i), NEW p,
         p = IF w.own[i].state = "open" THEN FULL ELSE EMPTY,
         NEW v, v = SetPassable(w, i, DoorWay(w, i), p)
  PROVE  Sane(A, U, r, v)
<1>1. DoorWay(w, i) \in Way /\ DoorWay(w, i) = IF w.obj[i].kind = "door" THEN "all" ELSE w.obj[i].dir
  BY DoorWayIs
<1>2. p \in PassableLevel
  BY DEF PassableLevel
<1>3. PICK d : d = DoorWay(w, i)
  OBVIOUS
<1>4. Fitting(w, i, d, p)
  <2> SUFFICES ASSUME NEW pass, pass[d] = p
               PROVE  ShapeFits(w.obj[i].kind, pass, w.obj[i].dir, w.own[i])
    BY DEF Fitting
  <2> QED BY <1>1, <1>3 DEF ShapeFits, IsDoor, Closet
<1>5. w.obj[i].kind \notin Wall
  BY DEF IsDoor, Wall
<1> QED BY <1>1, <1>2, <1>3, <1>4, <1>5, PassKeeps DEF IsDoor

\* Opening a door keeps the invariant.
LEMMA OpenDoorSane ==
  ASSUME NEW A, NEW U, NEW r, NEW w, NEW i, Sane(A, U, r, w), IsDoor(w, i)
  PROVE  Sane(A, U, r, OpenDoor(w, i))
<1>1. CASE w.own[i].state # "closed"
  BY <1>1 DEF OpenDoor
<1>2. CASE w.own[i].state = "closed"
  <2>1. PICK v : v = DoorState(w, i, "opening")
    OBVIOUS
  <2>2. Sane(A, U, r, v) /\ Only({"own"}, w, v)
    BY <1>2, <2>1, DoorStateSane
  <2>3. i \in DOMAIN v.obj
    BY <2>2, SameFields DEF IsDoor
  <2>4. OpenDoor(w, i) = SetFreq(v, i, 1)
    BY <1>2, <2>1 DEF OpenDoor
  <2> QED BY <2>2, <2>3, <2>4, SetFreqSane
<1> QED BY <1>1, <1>2

\* Closing a door keeps the invariant.
LEMMA CloseDoorSane ==
  ASSUME NEW A, NEW U, NEW r, NEW w, NEW i, Sane(A, U, r, w), IsDoor(w, i)
  PROVE  Sane(A, U, r, CloseDoor(w, i))
<1>1. CASE w.own[i].state # "open"
  BY <1>1 DEF CloseDoor
<1>2. CASE w.own[i].state = "open"
  <2>1. PICK d : d = DoorWay(w, i)
    OBVIOUS
  <2>2. d \in Way /\ d = IF w.obj[i].kind = "door" THEN "all" ELSE w.obj[i].dir
    BY <2>1, DoorWayIs
  <2>3. PICK v : v = SetPassable(w, i, d, EMPTY)
    OBVIOUS
  <2>4. /\ Sane(A, U \cup {i}, r, v) /\ Only({"obj", "sum", "flags"}, w, v)
        /\ v.obj = PassSet(w, i, d, EMPTY)
    <3>1. EMPTY \in PassableLevel /\ i \in DOMAIN w.obj
      BY DEF PassableLevel, IsDoor
    <3>2. /\ Sane(A, U \cup {i}, r, SetPassable(w, i, d, EMPTY))
          /\ Only({"obj", "sum", "flags"}, w, SetPassable(w, i, d, EMPTY))
          /\ SetPassable(w, i, d, EMPTY).obj = PassSet(w, i, d, EMPTY)
      BY <3>1, PassStep
    <3> QED BY <2>3, <3>2
  <2>5. /\ DOMAIN v.obj = DOMAIN w.obj /\ v.obj[i].kind = w.obj[i].kind /\ v.obj[i].dir = w.obj[i].dir
        /\ v.obj[i].pass[d] = EMPTY
    BY <2>2, <2>4, PassSetIs DEF IsDoor
  <2>6. IsDoor(v, i)
    BY <2>5 DEF IsDoor
  <2>7. PICK x : x = DoorState(v, i, "closing")
    OBVIOUS
  <2>8. Sane(A, U \cup {i}, r, x) /\ Only({"own"}, v, x) /\ x.own[i].state = "closing"
    BY <2>4, <2>6, <2>7, DoorStateSane
  <2>9. x.obj = v.obj
    BY <2>8, SameFields
  <2>10. Shaped(x, i)
    BY <2>2, <2>5, <2>6, <2>8, <2>9 DEF Shaped, ShapeFits, IsDoor, Closet
  <2>11. i \in DOMAIN x.obj /\ x.obj[i].kind \notin Wall
    BY <2>6, <2>9 DEF IsDoor, Wall
  <2>12. CloseDoor(w, i) = x
    BY <1>2, <2>1, <2>3, <2>7 DEF CloseDoor
  <2> QED BY <2>8, <2>10, <2>11, <2>12, StraightSane
<1> QED BY <1>1, <1>2

\* A door's turn keeps the invariant.
LEMMA ProcessDoorSane ==
  ASSUME NEW A, NEW U, NEW r, NEW w, NEW i, Sane(A, U, r, w), IsDoor(w, i)
  PROVE  Sane(A, U, r, ProcessDoor(w, i))
<1> DEFINE late == w.tick - w.own[i].last_tick
           x == DoorState(w, i, "open")
           y == DoorState(w, i, "closed")
<1>1. CASE w.own[i].state = "opening" /\ late > DoorTime(w, i)
  <2>1. Sane(A, U \cup {i}, r, w)
    BY LooseSane
  <2>2. Sane(A, U \cup {i}, r, x) /\ Only({"own"}, w, x) /\ x.own[i].state = "open"
    BY <2>1, DoorStateSane
  <2>3. x.obj = w.obj
    BY <2>2, SameFields
  <2>4. IsDoor(x, i) /\ DoorWay(x, i) = DoorWay(w, i)
    BY <2>3 DEF IsDoor, DoorWay, Is, KindOf, IsValid, DirOf
  <2>5. ProcessDoor(w, i) = SetPassable(x, i, DoorWay(x, i), FULL)
    BY <1>1, <2>4 DEF ProcessDoor
  <2> HIDE DEF x
  <2> QED BY <2>2, <2>4, <2>5, DoorPass
<1>2. CASE w.own[i].state = "closing" /\ late > DoorTime(w, i)
  <2>1. Sane(A, U, r, y) /\ Only({"own"}, w, y)
    BY <1>2, DoorStateSane
  <2>2. i \in DOMAIN y.obj
    BY <2>1, SameFields DEF IsDoor
  <2>3. ProcessDoor(w, i) = SetFreq(y, i, 0)
    BY <1>2 DEF ProcessDoor
  <2> HIDE DEF y
  <2> QED BY <2>1, <2>2, <2>3, SetFreqSane
<1>3. CASE ~(w.own[i].state = "opening" /\ late > DoorTime(w, i)) /\ ~(w.own[i].state = "closing" /\ late > DoorTime(w, i))
  <2>1. ProcessDoor(w, i) \in {w, CloseDoor(w, i)}
    BY <1>3 DEF ProcessDoor
  <2> QED BY <2>1, CloseDoorSane
<1> QED BY <1>1, <1>2, <1>3

-----------------------------------------------------------------------------
(* Forces.                                                                 *)

\* Vector arithmetic stays in vectors, and a vector has a direction.
LEMMA VectorTypes ==
  /\ Zero \in Vector /\ \A u, v \in Vector : Plus(u, v) \in Vector /\ Minus(u, v) \in Vector
  /\ \A d : DirToVDir(d) \in Vector /\ StepForce(d) \in Vector
  /\ \A k \in Int, v \in Vector : Times(k, v) \in Vector
  /\ \A v : VDirToDir(v) \in Dir
<1>1. \A k \in Int, v \in Vector : Times(k, v) \in Vector
  BY DEF Times, Vector
<1>2. \A u, v \in Vector : Plus(u, v) \in Vector
  BY DEF Plus, Vector
<1>3. \A d : DirToVDir(d) \in Vector
  BY DEF DirToVDir, Vector
<1>4. \A d : StepForce(d) \in Vector
  BY <1>1, <1>3 DEF StepForce, FORCE_UNIT
<1>5. \A u, v \in Vector : Minus(u, v) \in Vector
  BY <1>1, <1>2 DEF Minus
<1>6. Zero \in Vector /\ \A v : VDirToDir(v) \in Dir
  BY DEF Zero, Vector, VDirToDir, Dir
<1> QED BY <1>1, <1>2, <1>3, <1>4, <1>5, <1>6

\* The error share of a force is within one scale.
LEMMA ShareIs ==
  ASSUME NEW f \in Vector
  PROVE  Share(f) \in 0 .. ERROR_SCALE
<1>1. PICK a : a = AtMost(Abs(f.x), Abs(f.y))
  OBVIOUS
<1>2. PICK b : b = AtLeast(1, AtLeast(Abs(f.x), Abs(f.y)))
  OBVIOUS
<1>3. a \in Nat /\ b \in Nat /\ b > 0 /\ a <= b
  BY <1>1, <1>2 DEF AtMost, AtLeast, Abs, Vector
<1>4. (a * 2048) \div b \in 0 .. 2048
  <2>1. PICK q : q = (a * 2048) \div b
    OBVIOUS
  <2>2. a * 2048 \in Nat
    BY <1>3
  <2>3. q \in Int /\ q * b <= a * 2048 /\ a * 2048 < q * b + b
    BY <1>3, <2>1, <2>2
  <2>4. q >= 0
    BY <1>3, <2>3
  <2>5. q <= 2048
    BY <1>3, <2>3
  <2> QED BY <2>1, <2>3, <2>4, <2>5
<1>5. Share(f) = (a * ERROR_SCALE) \div b
  BY <1>1, <1>2 DEF Share
<1>6. ERROR_SCALE = 2048
  BY DEF ERROR_SCALE
<1> QED BY <1>4, <1>5, <1>6

\* A pushed motion is a motion.
LEMMA PushedIs ==
  ASSUME NEW m \in Motion, NEW f \in Vector
  PROVE  Pushed(m, f) \in Motion
<1>1. PICK g : g = Plus(m.force, f)
  OBVIOUS
<1>2. g \in Vector
  BY <1>1, VectorTypes DEF Motion
<1>3. Main(g) \in Dir /\ Second(g) \in Dir
  BY DEF Main, Second, NorthSouth, EastWest, Dir
<1>4. Share(g) \in 0 .. ERROR_SCALE
  BY <1>2, ShareIs
<1>5. Pushed(m, f) = [m EXCEPT !.force = g, !.main = Main(g), !.second = Second(g),
                               !.error = IF Second(g) = m.second THEN @ ELSE 0, !.per_main = Share(g)]
  BY <1>1 DEF Pushed
<1>6. 0 \in -(ERROR_SCALE \div 2) .. (3 * ERROR_SCALE) \div 2
  BY DEF ERROR_SCALE
<1> QED BY <1>2, <1>3, <1>4, <1>5, <1>6 DEF Motion

\* A step of force has a way and a bounded error.
LEMMA ForceStepIs ==
  ASSUME NEW m \in Motion
  PROVE  /\ ForceStep(m).way \in Way
         /\ ForceStep(m).error \in -(ERROR_SCALE \div 2) .. (3 * ERROR_SCALE) \div 2
<1>e. PICK e : e = m.error
  OBVIOUS
<1>p. PICK p : p = m.per_main
  OBVIOUS
<1>0. m.main \in Dir /\ m.second \in Dir /\ e \in -1024 .. 3072 /\ p \in 0 .. 2048
  BY <1>e, <1>p DEF Motion, ERROR_SCALE
<1>1. e \in Int /\ e >= -1024 /\ e <= 3072 /\ p \in Int /\ p >= 0 /\ p <= 2048
  BY <1>0
<1>2. -(ERROR_SCALE \div 2) = -1024 /\ (3 * ERROR_SCALE) \div 2 = 3072 /\ ERROR_SCALE \div 2 = 1024 /\ ERROR_SCALE = 2048
  BY DEF ERROR_SCALE
<1>3. First(m) \in Way /\ Other(m) \in Way
  BY <1>0 DEF First, Other, Way
<1>4. TakesSecond(m) <=> e >= 1024
  BY <1>2, <1>e DEF TakesSecond
<1>5. PICK s : s = ForceStep(m)
  OBVIOUS
<1>6. CASE ProjectionToDir(m.force, First(m)) >= FORCE_UNIT
  <2>1. s.way = First(m) /\ s.error = IF TakesSecond(m) THEN m.error - ERROR_SCALE ELSE m.error + m.per_main
    BY <1>5, <1>6 DEF ForceStep
  <2>2. s.error \in -1024 .. 3072
    <3>1. CASE TakesSecond(m)
      <4>1. s.error = e - 2048
        BY <1>2, <1>e, <2>1, <3>1
      <4> QED BY <1>1, <1>4, <3>1, <4>1
    <3>2. CASE ~TakesSecond(m)
      <4>1. s.error = e + p
        BY <1>e, <1>p, <2>1, <3>2
      <4> QED BY <1>1, <1>4, <3>2, <4>1
    <3> QED BY <3>1, <3>2
  <2>3. s.way \in Way
    BY <1>3, <2>1
  <2> QED BY <1>2, <1>5, <2>2, <2>3
<1>7. CASE ~(ProjectionToDir(m.force, First(m)) >= FORCE_UNIT)
  <2>1. s.way \in {Other(m), "all"} /\ s.error = 0
    BY <1>5, <1>7 DEF ForceStep
  <2>2. s.way \in Way /\ s.error \in -1024 .. 3072
    BY <1>3, <2>1 DEF Way
  <2> QED BY <1>2, <1>5, <2>2
<1> QED BY <1>6, <1>7

\* Of the members every object has only the motion changes, or the direction.
MotionSet(w, i, m) == ObjsSet(w, i, [w.obj[i] EXCEPT !.motion = m])

WithMotion(w, i, m) == [w EXCEPT !.obj[i].motion = m]

\* A motion may change where its object is queued or its force is zero.
LEMMA MotionSane ==
  ASSUME NEW A, NEW U, NEW r, NEW w, Sane(A, U, r, w), NEW i \in DOMAIN w.obj, NEW m \in Motion, NEW v,
         v = WithMotion(w, i, m),
         IsZero(m.force) \/ (w.obj[i].kind \in Movable /\ i \in ToSet(w.to_add) \cup ToSet(w.under_force))
  PROVE  /\ Sane(A, U, r, v) /\ Only({"obj"}, w, v)
         /\ v.obj = MotionSet(w, i, m)
<1>1. DOMAIN w = Members /\ w.obj[i] \in Object /\ Formed(w) /\ (w.obj[i].kind = "glassdoor" => w.obj[i].anchored)
  BY SaneForms
<1>2. PICK o : o = [w.obj[i] EXCEPT !.motion = m]
  OBVIOUS
<1>3. Only({"obj"}, w, v)
  BY <1>1 DEF WithMotion, Only, Members
<1>4. v.obj = ObjsSet(w, i, o)
  BY <1>1, <1>2 DEF WithMotion, ObjsSet, Members
<1>5. /\ o \in Object /\ o.kind = w.obj[i].kind /\ o.owner = w.obj[i].owner /\ o.pass = w.obj[i].pass
      /\ o.last_move = w.obj[i].last_move /\ o.anchored = w.obj[i].anchored /\ o.motion = m /\ o.dir = w.obj[i].dir
  BY <1>1, <1>2 DEF Object
<1>6. ObjFine(w, w, i, o)
  BY <1>1, <1>5 DEF ObjFine, Forceful
<1>7. i \notin U => ShapeFits(w.obj[i].kind, o.pass, o.dir, w.own[i])
  BY <1>5 DEF Sane, Sound, Nearly, Shapes, Shaped
<1>8. v.obj = MotionSet(w, i, m)
  BY <1>2, <1>4 DEF MotionSet
<1> QED BY <1>3, <1>4, <1>6, <1>7, <1>8, ObjStep

\* Stopping an object keeps the invariant.
LEMMA StopForceSane ==
  ASSUME NEW A, NEW U, NEW r, NEW w, Sane(A, U, r, w), NEW i
  PROVE  /\ Sane(A, U, r, StopForce(w, i)) /\ Only({"obj"}, w, StopForce(w, i))
         /\ DOMAIN StopForce(w, i).obj = DOMAIN w.obj
         /\ \A j \in DOMAIN w.obj : StopForce(w, i).obj[j] = [w.obj[j] EXCEPT !.motion = StopForce(w, i).obj[j].motion]
<1>1. CASE i \in DOMAIN w.obj
  <2>1. DOMAIN w = Members /\ Formed(w) /\ \A j \in DOMAIN w.obj : w.obj[j] \in Object
    BY SaneForms
  <2>2. PICK m : m = [w.obj[i].motion EXCEPT !.force = Zero]
    OBVIOUS
  <2>3. m \in Motion /\ IsZero(m.force)
    BY <1>1, <2>1, <2>2, VectorTypes DEF Object, Motion, IsZero, Zero
  <2>4. PICK v : v = StopForce(w, i)
    OBVIOUS
  <2>5. v = WithMotion(w, i, m)
    BY <1>1, <2>1, <2>2, <2>4 DEF StopForce, IsValid, WithMotion, Members, Object, Motion
  <2>6. Sane(A, U, r, v) /\ Only({"obj"}, w, v) /\ v.obj = MotionSet(w, i, m)
    BY <1>1, <2>3, <2>5, MotionSane
  <2>7. DOMAIN v.obj = DOMAIN w.obj /\ \A j \in DOMAIN w.obj : v.obj[j] = [w.obj[j] EXCEPT !.motion = v.obj[j].motion]
    BY <1>1, <2>1, <2>6 DEF MotionSet, ObjsSet, Object
  <2> QED BY <2>4, <2>6, <2>7
<1>2. CASE i \notin DOMAIN w.obj
  <2>1. StopForce(w, i) = w
    BY <1>2 DEF StopForce, IsValid
  <2>2. DOMAIN w = Members /\ \A j \in DOMAIN w.obj : w.obj[j] \in Object
    BY SaneForms
  <2> QED BY <2>1, <2>2 DEF Only, Object
<1> QED BY <1>1, <1>2

\* Queueing an object for the physics engine keeps the invariant.
LEMMA QueuedSane ==
  ASSUME NEW A, NEW U, NEW r, NEW w, Sane(A, U, r, w), NEW i \in DOMAIN w.obj, w.obj[i].kind \in Movable, NEW f
  PROVE  /\ Sane(A, U, r, Queued(w, i, f)) /\ Only({"to_add"}, w, Queued(w, i, f))
         /\ i \in ToSet(Queued(w, i, f).to_add) \cup ToSet(Queued(w, i, f).under_force)
<1>1. PICK v : v = Queued(w, i, f)
  OBVIOUS
<1>2. DOMAIN w = Members /\ Formed(w) /\ i \in 1 .. w.last
  BY SaneForms
<1>3. Queues(w) /\ Len(w.list) \in Nat
  BY <1>2, LenProperties DEF Formed, Queues
<1>4. CASE IsZero(w.obj[i].motion.force)
  <2>1. v = [w EXCEPT !.to_add = Append(w.to_add, i)]
    BY <1>1, <1>2, <1>4 DEF Queued, Members
  <2>2. Only({"to_add"}, w, v) /\ v.to_add = Append(w.to_add, i)
    BY <1>2, <2>1 DEF Only, Members
  <2>3. v.to_add \in Seq(1 .. w.last) /\ ToSet(v.to_add) = ToSet(w.to_add) \cup {i}
    <3>1. w.to_add \in Seq(1 .. w.last) /\ i \in 1 .. w.last
      BY <1>2, <1>3 DEF Queues
    <3>2. PICK S : S = 1 .. w.last
      OBVIOUS
    <3>3. PICK s : s = w.to_add
      OBVIOUS
    <3>4. s \in Seq(S) /\ i \in S
      BY <3>1, <3>2, <3>3
    <3>5. Append(s, i) \in Seq(S)
      BY <3>4
    <3>6. ToSet(Append(s, i)) = ToSet(s) \cup {i}
      BY <3>4, AppendIs
    <3> QED BY <2>2, <3>2, <3>3, <3>5, <3>6
  <2>4. v.list = w.list /\ v.chance = w.chance
    BY <2>2, SameFields
  <2>5. QueuesGrow(w, v) /\ Len(w.list) <= Len(v.list)
    BY <1>3, <2>3, <2>4 DEF QueuesGrow, Queues
  <2>6. Only({"list", "to_add", "chance", "failed", "lobby", "env"}, w, v)
    BY <2>2 DEF Only
  <2>7. Sane(A, U, r, v)
    BY <2>5, <2>6, ScalarStep
  <2> QED BY <1>1, <2>2, <2>3, <2>7
<1>5. CASE ~IsZero(w.obj[i].motion.force)
  <2>1. v = w
    BY <1>1, <1>5 DEF Queued
  <2>2. i \in ToSet(w.to_add) \cup ToSet(w.under_force)
    BY <1>5 DEF Sane, Sound, Nearly, Forces
  <2> QED BY <1>1, <1>2, <2>1, <2>2 DEF Only
<1> QED BY <1>4, <1>5

\* A push that breaks nothing.
LEMMA PushedSane ==
  ASSUME NEW A, NEW U, NEW r, NEW w, Sane(A, U, r, w), NEW i \in DOMAIN w.obj, w.obj[i].kind \in Movable,
         NEW f \in Vector
  PROVE  Sane(A, U, r, [Queued(w, i, f) EXCEPT !.obj[i].motion = Pushed(@, f)])
<1>1. PICK x : x = Queued(w, i, f)
  OBVIOUS
<1>2. Sane(A, U, r, x) /\ Only({"to_add"}, w, x) /\ i \in ToSet(x.to_add) \cup ToSet(x.under_force)
  BY <1>1, QueuedSane
<1>3. x.obj = w.obj /\ DOMAIN x = Members
  BY <1>2, SameFields
<1>4. w.obj[i] \in Object
  BY SaneForms
<1>5. PICK m : m = Pushed(x.obj[i].motion, f)
  OBVIOUS
<1>6. m \in Motion
  BY <1>3, <1>4, <1>5, PushedIs DEF Object
<1>7. PICK v : v = [Queued(w, i, f) EXCEPT !.obj[i].motion = Pushed(@, f)]
  OBVIOUS
<1>8. v = WithMotion(x, i, m)
  BY <1>1, <1>5, <1>7 DEF WithMotion
<1>9. Sane(A, U, r, v)
  BY <1>2, <1>3, <1>6, <1>8, MotionSane
<1> QED BY <1>7, <1>9

-----------------------------------------------------------------------------
(* People.                                                                 *)

\* A human's own data may change where slots, hand, pull and life stay.
LEMMA HumanStep ==
  ASSUME NEW A, NEW U, NEW r, NEW w, Sane(A, U, r, w), NEW h, IsHuman(w, h), NEW v, NEW e,
         Only({"own"}, w, v), v.own = OwnsSet(w, h, e), DOMAIN e = DOMAIN w.own[h],
         e.slot = w.own[h].slot, e.active_hand \in {"right_hand", "left_hand"},
         e.pulled \in {w.own[h].pulled, None},
         e.dead => w.own[h].dead \/ \A p \in Player : w.mind[p] # h,
         e.lying = w.own[h].lying \/ h \in U
  PROVE  Sane(A, U, r, v)
<1>1. /\ Formed(w) /\ w.last \in Nat /\ None \notin DOMAIN w.obj /\ h \in DOMAIN w.obj /\ w.obj[h].kind = "human"
      /\ OwnFits(w, "human", w.own[h])
  BY SaneForms DEF IsHuman
<1>2. /\ w.own[h].slot \in [Slot -> Nat] /\ Refers(w, w.own[h].pulled, Movable \ Projectile)
  BY <1>1, HumanOwn
<1>3. Refers(w, None, Movable \ Projectile)
  BY <1>1 DEF Refers, None, IsValid
<1>4. OwnFine(w, h, e)
  BY <1>1, <1>2, <1>3 DEF OwnFine, OwnFits, Wall, Projectile
<1>5. h \notin U => ShapeFits("human", w.obj[h].pass, w.obj[h].dir, e)
  <2>1. Shapes(U, w)
    BY DEF Sane, Sound, Nearly
  <2> QED BY <1>1, <2>1 DEF Shapes, Shaped, ShapeFits, Closet
<1> QED BY <1>1, <1>4, <1>5, OwnStep

\* Letting go of what is pulled keeps the invariant.
LEMMA StopPullSane ==
  ASSUME NEW A, NEW U, NEW r, NEW w, Sane(A, U, r, w), NEW h, IsHuman(w, h)
  PROVE  Sane(A, U, r, StopPull(w, h)) /\ Only({"own"}, w, StopPull(w, h))
<1>1. PICK v : v = StopPull(w, h)
  OBVIOUS
<1>2. DOMAIN w = Members /\ Formed(w)
  BY SaneForms
<1>3. PICK e : e = [w.own[h] EXCEPT !.pulled = None]
  OBVIOUS
<1>4. DOMAIN w.own[h] = DOMAIN NewHuman /\ w.own[h].active_hand \in {"right_hand", "left_hand"}
  BY <1>2, HumanOwn
<1>5. /\ DOMAIN e = DOMAIN w.own[h] /\ e.slot = w.own[h].slot /\ e.active_hand = w.own[h].active_hand
      /\ e.pulled = None /\ e.dead = w.own[h].dead /\ e.lying = w.own[h].lying
  BY <1>3, <1>4 DEF NewHuman
<1>6. Only({"own"}, w, v) /\ v.own = OwnsSet(w, h, e)
  BY <1>1, <1>2, <1>3 DEF StopPull, Only, Members, OwnsSet
<1> QED BY <1>1, <1>4, <1>5, <1>6, HumanStep

\* So does the check that it is still near.
LEMMA KeepPullingSane ==
  ASSUME NEW A, NEW U, NEW r, NEW w, Sane(A, U, r, w), NEW h
  PROVE  Sane(A, U, r, KeepPulling(w, h)) /\ Only({"own"}, w, KeepPulling(w, h))
<1>1. CASE Pulls(w, h) /\ ~CanTouch(w, h, w.own[h].pulled)
  <2>1. IsHuman(w, h)
    BY <1>1 DEF Pulls, Is, KindOf, IsValid, IsHuman
  <2> QED BY <1>1, <2>1, StopPullSane DEF KeepPulling
<1>2. CASE ~(Pulls(w, h) /\ ~CanTouch(w, h, w.own[h].pulled))
  <2>1. DOMAIN w = Members
    BY SaneForms
  <2> QED BY <1>2, <2>1 DEF KeepPulling, Only
<1> QED BY <1>1, <1>2

\* A wound keeps the invariant.
LEMMA WoundSane ==
  ASSUME NEW A, NEW U, NEW r, NEW w, Sane(A, U, r, w), NEW h, IsHuman(w, h), NEW i
  PROVE  Sane(A, U, r, Wound(w, h, i)) /\ Only({"own"}, w, Wound(w, h, i))
<1>1. PICK v : v = Wound(w, h, i)
  OBVIOUS
<1>2. DOMAIN w = Members /\ Formed(w) /\ DOMAIN w.own = DOMAIN w.obj
  BY SaneForms
<1>3. PICK x, y : x = w.own[h].brute + 100 * Damage(KindOf(w, i)) /\ y = w.own[h].burn + 100 * BurnDamage(KindOf(w, i))
  OBVIOUS
<1>4. PICK e : e = [w.own[h] EXCEPT !.brute = x, !.burn = y]
  OBVIOUS
<1>5. DOMAIN w.own[h] = DOMAIN NewHuman /\ w.own[h].active_hand \in {"right_hand", "left_hand"}
  BY <1>2, HumanOwn
<1>6. /\ DOMAIN e = DOMAIN w.own[h] /\ e.slot = w.own[h].slot /\ e.active_hand = w.own[h].active_hand
      /\ e.pulled = w.own[h].pulled /\ e.dead = w.own[h].dead /\ e.lying = w.own[h].lying
  BY <1>4, <1>5 DEF NewHuman
<1>7. Only({"own"}, w, v)
  BY <1>1, <1>2 DEF Wound, Only, Members
<1>8. v.own = OwnsSet(w, h, e)
  BY <1>1, <1>2, <1>3, <1>4, <1>5 DEF Wound, Members, OwnsSet, IsHuman, NewHuman
<1> QED BY <1>1, <1>5, <1>6, <1>7, <1>8, HumanStep

-----------------------------------------------------------------------------
(* Turns.                                                                  *)

\* Nothing moved, and nothing moves otherwise than before.
Stays(w, v) ==
  /\ Only({"obj", "sum", "flags"}, w, v) /\ Twins(w, v)
  /\ \A j \in DOMAIN w.obj :
       /\ v.obj[j].last_move = w.obj[j].last_move /\ v.obj[j].motion = w.obj[j].motion
       /\ v.obj[j].anchored = w.obj[j].anchored

\* Objects that stay through two changes stay through both.
LEMMA StaysTrans ==
  ASSUME NEW w, NEW x, NEW v, Stays(w, x), Stays(x, v)
  PROVE  Stays(w, v)
BY DEF Stays, Only, Twins

\* A passability that is set moves nothing.
LEMMA PassStays ==
  ASSUME NEW A, NEW U, NEW r, NEW w, Sane(A, U, r, w), NEW i \in DOMAIN w.obj, NEW d \in Way, NEW p,
         NEW v, Only({"obj", "sum", "flags"}, w, v), v.obj = PassSet(w, i, d, p)
  PROVE  Stays(w, v)
BY PassSetIs DEF Stays, Twins

\* A direction may change where no shape depends on it.
LEMMA DirStep ==
  ASSUME NEW A, NEW U, NEW r, NEW w, Sane(A, U, r, w), NEW i \in DOMAIN w.obj, NEW d \in Dir,
         i \in U \/ w.obj[i].kind \notin {"glass", "glassdoor"}, NEW v, v = [w EXCEPT !.obj[i].dir = d]
  PROVE  /\ Sane(A, U, r, v) /\ Stays(w, v)
         /\ v.obj[i].dir = d /\ v.obj[i].pass = w.obj[i].pass
<1>1. DOMAIN w = Members /\ w.obj[i] \in Object /\ Formed(w) /\ (w.obj[i].kind = "glassdoor" => w.obj[i].anchored)
  BY SaneForms
<1>2. PICK o : o = [w.obj[i] EXCEPT !.dir = d]
  OBVIOUS
<1>3. Only({"obj"}, w, v)
  BY <1>1 DEF Only, Members
<1>4. v.obj = ObjsSet(w, i, o)
  BY <1>1, <1>2 DEF ObjsSet, Members
<1>5. /\ o \in Object /\ o.kind = w.obj[i].kind /\ o.owner = w.obj[i].owner /\ o.pass = w.obj[i].pass
      /\ o.last_move = w.obj[i].last_move /\ o.anchored = w.obj[i].anchored /\ o.motion = w.obj[i].motion /\ o.dir = d
  BY <1>1, <1>2 DEF Object
<1>6. ObjFine(w, w, i, o)
  BY <1>1, <1>5 DEF ObjFine, Forceful, Sane, Sound, Nearly, Forces
<1>7. i \notin U => ShapeFits(w.obj[i].kind, o.pass, o.dir, w.own[i])
  <2>1. Shapes(U, w)
    BY DEF Sane, Sound, Nearly
  <2> QED BY <1>5, <2>1 DEF Shapes, Shaped, ShapeFits
<1>8. Sane(A, U, r, v)
  BY <1>3, <1>4, <1>6, <1>7, ObjStep
<1>9. DOMAIN v.obj = DOMAIN w.obj /\ v.obj[i] = o /\ \A j \in DOMAIN w.obj : j # i => v.obj[j] = w.obj[j]
  BY <1>4 DEF ObjsSet
<1>10. Stays(w, v)
  BY <1>3, <1>5, <1>9 DEF Stays, Twins, Only
<1> QED BY <1>5, <1>8, <1>9, <1>10

\* Rotate keeps the invariant, for all but glass doors.
LEMMA RotateSane ==
  ASSUME NEW A, NEW U, NEW r, NEW w, Sane(A, U, r, w), NEW i \in DOMAIN w.obj, NEW d \in Dir,
         i \notin U, w.obj[i].kind # "glassdoor"
  PROVE  Sane(A, U, r, Rotate(w, i, d)) /\ Stays(w, Rotate(w, i, d)) /\ Rotate(w, i, d).obj[i].dir = d
<1>1. w.obj[i] \in Object /\ KindOf(w, i) = w.obj[i].kind
  BY SaneForms
<1>2. CASE w.obj[i].kind # "glass"
  <2>1. Rotate(w, i, d) = [w EXCEPT !.obj[i].dir = d]
    BY <1>1, <1>2 DEF Rotate, Is
  <2>2. PICK v : v = [w EXCEPT !.obj[i].dir = d]
    OBVIOUS
  <2>3. Sane(A, U, r, v) /\ Stays(w, v) /\ v.obj[i].dir = d
    BY <1>2, <2>2, DirStep
  <2> QED BY <2>1, <2>2, <2>3
<1>3. CASE w.obj[i].kind = "glass"
  <2>1. PICK b : b = w.obj[i].dir
    OBVIOUS
  <2>2. b \in Dir /\ b \in Way /\ d \in Way /\ FULL \in PassableLevel /\ EMPTY \in PassableLevel
    BY <1>1, <2>1 DEF Object, Way, PassableLevel
  <2>3. PICK x : x = SetPassable(w, i, b, FULL)
    OBVIOUS
  <2>4. /\ Sane(A, U \cup {i}, r, x)
        /\ Only({"obj", "sum", "flags"}, w, x)
        /\ x.obj = PassSet(w, i, b, FULL)
    <3>1. /\ Sane(A, U \cup {i}, r, SetPassable(w, i, b, FULL))
          /\ Only({"obj", "sum", "flags"}, w, SetPassable(w, i, b, FULL))
          /\ SetPassable(w, i, b, FULL).obj = PassSet(w, i, b, FULL)
      BY <2>2, PassStep
    <3> QED BY <2>3, <3>1
  <2>5. Stays(w, x)
    BY <2>2, <2>4, PassStays
  <2>6. /\ DOMAIN x.obj = DOMAIN w.obj /\ x.obj[i].kind = "glass"
        /\ x.obj[i].pass[b] = FULL /\ \A e \in Way : e # b => x.obj[i].pass[e] = w.obj[i].pass[e]
    BY <1>3, <2>2, <2>4, PassSetIs
  <2>7. \A e \in Way : x.obj[i].pass[e] # EMPTY
    <3>1. ShapeFits("glass", w.obj[i].pass, b, w.own[i])
      BY <1>3, <2>1 DEF Sane, Sound, Nearly, Shapes, Shaped
    <3>2. w.obj[i].pass["all"] # EMPTY /\ \A e \in Dir : e # b => w.obj[i].pass[e] # EMPTY
      BY <3>1 DEF ShapeFits
    <3> QED BY <2>2, <2>6, <3>2 DEF Way, FULL, EMPTY
  <2>8. PICK y : y = [x EXCEPT !.obj[i].dir = d]
    OBVIOUS
  <2>9. Sane(A, U \cup {i}, r, y) /\ Stays(x, y) /\ y.obj[i].dir = d /\ y.obj[i].pass = x.obj[i].pass
    BY <2>4, <2>6, <2>8, DirStep
  <2>10. DOMAIN y.obj = DOMAIN w.obj /\ y.obj[i].kind = "glass"
    BY <2>6, <2>9 DEF Stays, Twins
  <2>11. PICK v : v = SetPassable(y, i, d, EMPTY)
    OBVIOUS
  <2>12. ASSUME NEW pass, pass[d] = EMPTY, \A e \in Way : e # d => pass[e] = y.obj[i].pass[e]
         PROVE  ShapeFits(y.obj[i].kind, pass, y.obj[i].dir, y.own[i])
    BY <2>7, <2>9, <2>10, <2>12 DEF ShapeFits, Closet, Way, Dir
  <2>13. y.obj[i].kind \notin Wall
    BY <2>10 DEF Wall
  <2>14. Sane(A, U, r, v) /\ Only({"obj", "sum", "flags"}, y, v) /\ v.obj = PassSet(y, i, d, EMPTY)
    <3>1. PICK p : p = EMPTY
      OBVIOUS
    <3>2. p \in PassableLevel /\ v = SetPassable(y, i, d, p)
      BY <2>2, <2>11, <3>1
    <3>3. Fitting(y, i, d, p)
      BY <2>12, <3>1 DEF Fitting
    <3>4. Sane(A, U, r, v) /\ Only({"obj", "sum", "flags"}, y, v) /\ v.obj = PassSet(y, i, d, p)
      <4>1. i \in DOMAIN y.obj /\ Sane(A, U \cup {i}, r, y) /\ d \in Way
        BY <2>2, <2>9, <2>10
      <4> QED BY <2>13, <3>2, <3>3, <4>1, PassKeeps
    <3> QED BY <3>1, <3>4
  <2>15. Stays(y, v) /\ v.obj[i].dir = d
    BY <2>2, <2>9, <2>10, <2>14, PassStays, PassSetIs
  <2>16. Stays(w, v)
    BY <2>5, <2>9, <2>15, StaysTrans
  <2>17. Rotate(w, i, d) = v
    BY <1>1, <1>3, <2>1, <2>3, <2>8, <2>11 DEF Rotate, Is, DirOf
  <2> QED BY <2>14, <2>15, <2>16, <2>17
<1> QED BY <1>2, <1>3

-----------------------------------------------------------------------------
(* The map.                                                                *)

\* Reverting a direction twice gives it back.
LEMMA RevertIs ==
  \A d \in Dir : RevertDir(d) \in Dir /\ RevertDir(RevertDir(d)) = d /\ RevertDir(d) # d
BY DEF Dir, RevertDir

\* The coordinates of the tile at some coordinates are these.
LEMMA CoordinatesOf ==
  ASSUME NEW x \in 0 .. Width - 1, NEW y \in 0 .. Height - 1
  PROVE  X(At(x, y)) = x /\ Y(At(x, y)) = y
<1>1. Width \in Nat /\ Width > 0 /\ x \in Nat /\ y \in Nat /\ x < Width
  BY MapAssumption
<1>2. At(x, y) - 1 = Width * y + x
  BY <1>1 DEF At
<1>3. (Width * y + x) % Width = x /\ (Width * y + x) \div Width = y
  BY <1>1
<1> QED BY <1>2, <1>3 DEF X, Y

\* A tile is at its coordinates.
LEMMA TileAt ==
  ASSUME NEW t \in Tile
  PROVE  X(t) \in 0 .. Width - 1 /\ Y(t) \in 0 .. Height - 1 /\ At(X(t), Y(t)) = t
<1>1. Width \in Nat /\ Width > 0 /\ Height \in Nat /\ Height > 0 /\ t \in Nat /\ t >= 1 /\ t <= Width * Height
  BY MapAssumption DEF Tile
<1>2. PICK x, y : x = (t - 1) % Width /\ y = (t - 1) \div Width
  OBVIOUS
<1>3. x \in 0 .. Width - 1 /\ y \in Int /\ t - 1 = Width * y + x
  BY <1>1, <1>2
<1>4. y >= 0
  BY <1>1, <1>3
<1>5. y <= Height - 1
  <2>1. SUFFICES ASSUME y >= Height PROVE FALSE
    BY <1>1, <1>3
  <2>2. PICK k : k = y - Height
    OBVIOUS
  <2>3. k \in Nat /\ y = Height + k
    BY <1>1, <1>3, <2>1, <2>2
  <2>4. Width * y = Width * Height + Width * k /\ Width * k >= 0 /\ Width * k \in Int /\ Width * Height \in Int
    BY <1>1, <2>3
  <2> QED BY <1>1, <1>3, <2>4
<1> QED BY <1>1, <1>2, <1>3, <1>4, <1>5 DEF X, Y, At

\* The neighbour's neighbour the other way is the tile itself.
LEMMA NeighbourBack ==
  ASSUME NEW t \in Tile, NEW d \in Dir, Neighbour(t, d) # t
  PROVE  Neighbour(Neighbour(t, d), RevertDir(d)) = t
<1>1. X(t) \in 0 .. Width - 1 /\ Y(t) \in 0 .. Height - 1 /\ At(X(t), Y(t)) = t
  BY TileAt
<1>2. PICK x, y : x = X(t) + DirToVDir(d).x /\ y = Y(t) + DirToVDir(d).y
  OBVIOUS
<1>3. x \in 0 .. Width - 1 /\ y \in 0 .. Height - 1 /\ Neighbour(t, d) = At(x, y)
  BY <1>2 DEF Neighbour
<1>4. PICK u : u = At(x, y)
  OBVIOUS
<1>5. X(u) = x /\ Y(u) = y
  BY <1>3, <1>4, CoordinatesOf
<1>6. PICK p, q : p = DirToVDir(RevertDir(d)).x /\ q = DirToVDir(RevertDir(d)).y
  OBVIOUS
<1>7. x + p = X(t) /\ y + q = Y(t)
  BY <1>1, <1>2, <1>6 DEF DirToVDir, RevertDir, Dir
<1>8. Neighbour(u, RevertDir(d)) = IF x + p \in 0 .. Width - 1 /\ y + q \in 0 .. Height - 1 THEN At(x + p, y + q) ELSE u
  BY <1>5, <1>6 DEF Neighbour
<1> QED BY <1>1, <1>3, <1>4, <1>7, <1>8

\* Neighbours are one step apart.
LEMMA NeighbourNext ==
  ASSUME NEW t \in Tile, NEW d \in Dir, Neighbour(t, d) # t
  PROVE  NextTo(t, Neighbour(t, d))
<1>1. X(t) \in 0 .. Width - 1 /\ Y(t) \in 0 .. Height - 1
  BY TileAt
<1>2. PICK x, y : x = X(t) + DirToVDir(d).x /\ y = Y(t) + DirToVDir(d).y
  OBVIOUS
<1>3. x \in 0 .. Width - 1 /\ y \in 0 .. Height - 1 /\ Neighbour(t, d) = At(x, y)
  BY <1>2 DEF Neighbour
<1>4. X(Neighbour(t, d)) = x /\ Y(Neighbour(t, d)) = y
  BY <1>3, CoordinatesOf
<1> QED BY <1>1, <1>2, <1>4 DEF NextTo, DirToVDir, Dir, Abs

-----------------------------------------------------------------------------
(* Walls and their neighbours.                                             *)

\* Of the worlds only what the walls know is different.
WallsOnly(w, v) ==
  /\ Only({"own"}, w, v)
  /\ v.own = [j \in DOMAIN w.obj |-> v.own[j]]
  /\ \A j \in DOMAIN w.obj :
       IF w.obj[j].kind \in Wall THEN DOMAIN v.own[j] = {"walls"} /\ v.own[j].walls \subseteq Dir
       ELSE v.own[j] = w.own[j]

\* A wall knows a set of directions.
LEMMA WallOwn ==
  ASSUME NEW A, NEW U, NEW r, NEW w, Sane(A, U, r, w), NEW j \in DOMAIN w.obj, w.obj[j].kind \in Wall
  PROVE  DOMAIN w.own[j] = {"walls"} /\ w.own[j].walls \subseteq Dir
<1>1. OwnFits(w, w.obj[j].kind, w.own[j])
  BY SaneForms
<1> QED BY <1>1, NewOwnIs DEF OwnFits

\* A change of what walls know keeps the rest of the invariant.
LEMMA WallsChanged ==
  ASSUME NEW A, NEW U, NEW V, NEW r, NEW w, Sane(A, U, r, w), NEW v, WallsOnly(w, v), U \subseteq V, Walls(V, v)
  PROVE  Sane(A, V, r, v)
<1>1. Formed(w) /\ Sound(A, U, w)
  BY SaneForms DEF Sane
<1>2. /\ v.obj = w.obj /\ v.turf = w.turf /\ v.sum = w.sum /\ v.flags = w.flags /\ v.tick = w.tick
      /\ v.last = w.last /\ v.list = w.list /\ v.to_add = w.to_add /\ v.under_force = w.under_force
      /\ v.chance = w.chance /\ v.mind = w.mind /\ v.music = w.music /\ DOMAIN v = Members
      /\ v.content = w.content
  BY SameFields DEF WallsOnly
<1>3. \A j \in DOMAIN w.obj : w.obj[j].kind \notin Wall => v.own[j] = w.own[j]
  BY DEF WallsOnly
<1>4. Twins(w, v) /\ Kin(w, v) /\ SameSlots(w, v)
  BY <1>2, <1>3 DEF Twins, Kin, SameSlots, Wall
<1>5. Formed(v)
  <2>1. Counted(v) /\ Objects(v) /\ Grid(v) /\ Queues(v)
    BY <1>1, <1>2 DEF Formed, Counted, Objects, Grid, Queues
  <2>2. Owned(v)
    <3>1. v.own = [j \in DOMAIN v.obj |-> v.own[j]]
      BY <1>2 DEF WallsOnly
    <3>2. ASSUME NEW j \in DOMAIN w.obj PROVE OwnFits(v, w.obj[j].kind, v.own[j])
      <4>1. OwnFits(w, w.obj[j].kind, w.own[j])
        BY <1>1 DEF Formed, Owned
      <4>2. \A n, class : Refers(w, n, class) <=> Refers(v, n, class)
        BY <1>2 DEF Refers, IsValid
      <4>3. CASE w.obj[j].kind \in Wall
        <5>1. DOMAIN v.own[j] = DOMAIN NewOwn(w.obj[j].kind) /\ v.own[j].walls \subseteq Dir
          BY <4>3, NewOwnIs DEF WallsOnly
        <5> QED BY <4>3, <5>1 DEF OwnFits, Wall, Projectile
      <4>4. CASE w.obj[j].kind \notin Wall
        BY <1>3, <4>1, <4>2, <4>4 DEF OwnFits
      <4> QED BY <4>3, <4>4
    <3> QED BY <1>2, <3>1, <3>2 DEF Owned
  <2>3. Contents(v)
    BY <1>1, <1>2, <1>4, ContentsSame DEF Formed
  <2> QED BY <2>1, <2>2, <2>3 DEF Formed
<1>6. Settled(A, v)
  BY <1>1, <1>2, <1>4, SettledSame DEF Sound, Nearly
<1>7. Forces(v)
  BY <1>1, <1>2 DEF Sound, Nearly, Forces
<1>8. Sums(None, v)
  <2> SUFFICES ASSUME NEW u \in Tile PROVE SumAt(v, u)
    BY DEF Sums
  <2>1. SumAt(w, u)
    BY <1>1, NoneIsNoTile DEF Nearly, Sums, Sound
  <2> QED BY <1>2, <2>1, SumAtSame
<1>9. Shapes(V, v)
  <2>1. Shapes(U, w)
    BY <1>1 DEF Sound, Nearly
  <2>2. \A j \in DOMAIN w.obj : Shaped(w, j) => Shaped(v, j)
    <3> SUFFICES ASSUME NEW j \in DOMAIN w.obj, Shaped(w, j) PROVE Shaped(v, j)
      OBVIOUS
    <3>1. CASE w.obj[j].kind \in Wall
      BY <1>2, <3>1 DEF Shaped, ShapeFits, Wall, Closet
    <3>2. CASE w.obj[j].kind \notin Wall
      BY <1>2, <1>3, <3>2 DEF Shaped
    <3> QED BY <3>1, <3>2
  <2> QED BY <1>2, <2>1, <2>2 DEF Shapes
<1>10. Minds(v)
  <2>1. \A j \in DOMAIN w.obj : w.obj[j].kind = "human" => v.own[j] = w.own[j]
    BY <1>3 DEF Wall
  <2> QED BY <1>1, <1>2, <2>1, MindsSame DEF Sound, Nearly
<1>11. Since(w, v)
  <2>1. Since(w, w)
    BY <1>1, SinceSelf DEF Formed
  <2>2. \A j \in DOMAIN w.obj : w.obj[j].kind = "human" => v.own[j] = w.own[j]
    BY <1>3 DEF Wall
  <2> QED BY <1>2, <2>1, <2>2 DEF Since, Remains, Moves, Waiting
<1>12. Sound(A, V, v)
  BY <1>5, <1>6, <1>7, <1>8, <1>9, <1>10 DEF Sound, Nearly
<1> QED BY <1>11, <1>12, SaneStep

-----------------------------------------------------------------------------
(* CheckNeighborhood and NotifyNeighborhood.                               *)

WallSet(w, j, S) == [w EXCEPT !.own[j].walls = S]

\* What writing one wall's knowledge changes.
LEMMA WallSetIs ==
  ASSUME NEW w, NEW v, WallsOnly(w, v), NEW j \in DOMAIN w.obj, w.obj[j].kind \in Wall, NEW S, S \subseteq Dir,
         NEW y, y = WallSet(v, j, S)
  PROVE  /\ WallsOnly(w, y)
         /\ y.own[j].walls = S
         /\ \A i \in DOMAIN w.obj : i # j => y.own[i] = v.own[i]
<1>1. DOMAIN w = Members /\ DOMAIN v = Members /\ v.own = [i \in DOMAIN w.obj |-> v.own[i]]
  BY DEF WallsOnly, Only
<1>2. DOMAIN v.own[j] = {"walls"}
  BY DEF WallsOnly
<1>3. y.own = [v.own EXCEPT ![j] = [v.own[j] EXCEPT !.walls = S]]
  BY <1>1 DEF WallSet, Members
<1>4. DOMAIN y = Members /\ \A m \in Members \ {"own"} : y[m] = v[m]
  BY <1>1 DEF WallSet, Members
<1>5. y.own = [i \in DOMAIN w.obj |-> y.own[i]]
  BY <1>1, <1>3
<1>6. y.own[j].walls = S /\ DOMAIN y.own[j] = {"walls"}
  BY <1>1, <1>2, <1>3
<1>7. \A i \in DOMAIN w.obj : i # j => y.own[i] = v.own[i]
  BY <1>1, <1>3
<1>8. Only({"own"}, w, y)
  BY <1>1, <1>4 DEF WallsOnly, Only
<1>9. ASSUME NEW i \in DOMAIN w.obj
      PROVE IF w.obj[i].kind \in Wall THEN DOMAIN y.own[i] = {"walls"} /\ y.own[i].walls \subseteq Dir
            ELSE y.own[i] = w.own[i]
  <2>1. CASE i = j
    BY <1>6, <2>1
  <2>2. CASE i # j
    BY <1>7, <2>2 DEF WallsOnly
  <2> QED BY <2>1, <2>2
<1> QED BY <1>5, <1>6, <1>7, <1>8, <1>9 DEF WallsOnly

\* A world differs from itself in no wall.
LEMMA WallsOnlySelf ==
  ASSUME NEW A, NEW U, NEW r, NEW w, Sane(A, U, r, w)
  PROVE  WallsOnly(w, w)
<1>1. Formed(w) /\ DOMAIN w = Members
  BY SaneForms
<1>2. w.own = [j \in DOMAIN w.obj |-> w.own[j]]
  BY <1>1 DEF Formed, Owned
<1> QED BY <1>1, <1>2, WallOwn DEF WallsOnly, Only

\* Where the walls are does not depend on what they know.
LEMMA WallAtSame ==
  ASSUME NEW w, NEW v, WallsOnly(w, v), NEW i, NEW d
  PROVE  WallAt(v, i, d) = WallAt(w, i, d)
<1>1. v.obj = w.obj /\ v.turf = w.turf
  BY SameFields DEF WallsOnly
<1> QED BY <1>1 DEF WallAt, Owner, Is, KindOf, IsValid

\* A wall that is found is there.
LEMMA WallAtIs ==
  ASSUME NEW A, NEW U, NEW r, NEW w, Sane(A, U, r, w), NEW i \in DOMAIN w.obj, w.obj[i].owner \in Tile, NEW d \in Dir,
         WallAt(w, i, d) # None
  PROVE  /\ WallAt(w, i, d) \in DOMAIN w.obj /\ w.obj[WallAt(w, i, d)].kind \in Wall
         /\ WallAt(w, i, d) \notin A
         /\ w.obj[WallAt(w, i, d)].owner = Neighbour(w.obj[i].owner, d)
         /\ w.turf[Neighbour(w.obj[i].owner, d)] = WallAt(w, i, d)
<1>1. PICK n : n = WallAt(w, i, d)
  OBVIOUS
<1>2. n = w.turf[Neighbour(w.obj[i].owner, d)] /\ Is(w, n, Wall)
  BY <1>1 DEF WallAt, Owner
<1>3. n # Hand /\ n \in DOMAIN w.obj /\ w.obj[n].kind \in Wall
  BY <1>2 DEF Is, KindOf, IsValid, Wall
<1>4. Neighbour(w.obj[i].owner, d) \in Tile
  BY NeighbourIsTile
<1>5. OnTiles(A, w)
  BY DEF Sane, Sound, Nearly, Settled
<1>6. Lies(A, w, n, Neighbour(w.obj[i].owner, d), Turf)
  BY <1>1, <1>2, <1>4, <1>5 DEF OnTiles
<1> QED BY <1>1, <1>2, <1>3, <1>6 DEF Lies

\* A turf is the turf of its tile.
LEMMA TurfHome ==
  ASSUME NEW A, NEW U, NEW r, NEW w, Sane(A, U, r, w), NEW j \in DOMAIN w.obj, j \notin A, w.obj[j].kind \in Turf
  PROVE  w.obj[j].owner \in Tile /\ w.turf[w.obj[j].owner] = j
<1>1. Formed(w) /\ Settled(A, w)
  BY DEF Sane, Sound, Nearly
<1>2. j # None /\ w.obj[j].owner \in Tile
  BY <1>1, SaneForms DEF Settled, Homed, Rooted
<1>3. w.obj[j].owner # None
  BY <1>2, NoneIsNoTile
<1>4. Has(w, w.obj[j].owner, j)
  BY <1>1, <1>2, <1>3 DEF Settled, Homed
<1> QED BY <1>1, <1>2, <1>4, HasLies

CheckOp(c, v, d) ==
  IF WallAt(v, c.i, d) = None THEN WallSet(v, c.i, v.own[c.i].walls \ {d})
  ELSE Learns(Learns(v, c.i, d), WallAt(v, c.i, d), RevertDir(d))

\* What the walls know after some directions were looked at.
Learnt(w, i, v, d) ==
  /\ IsInside(w.obj[i].owner, d) => (d \in v.own[i].walls <=> WallAt(w, i, d) # None)
  /\ WallAt(w, i, d) \notin {None, i} => RevertDir(d) \in v.own[WallAt(w, i, d)].walls

OnlyLearnt(w, i, v) ==
  \A j \in DOMAIN w.obj : w.obj[j].kind \in Wall /\ j # i =>
    /\ w.own[j].walls \subseteq v.own[j].walls
    /\ \A e \in v.own[j].walls \ w.own[j].walls : WallAt(w, i, RevertDir(e)) = j

CheckKnows(c, k, v) ==
  /\ WallsOnly(c.w, v)
  /\ \A m \in 1 .. k : Learnt(c.w, c.i, v, WALL_PROCESSING_DIRS[m])
  /\ OnlyLearnt(c.w, c.i, v)

CheckFold == INSTANCE FoldInduction WITH Op <- CheckOp, P <- CheckKnows

\* CheckNeighborhood as a fold over the four directions.
LEMMA CheckIsFold ==
  ASSUME NEW c, NEW w
  PROVE  CheckNeighborhood(w, c.i) = CheckFold!Folded(c, w, WALL_PROCESSING_DIRS)
BY DEF CheckFold!Folded, CheckFold!MaxOf, CheckNeighborhood, CheckOp, WallSet, FoldLeft, MapThenFoldSet, Max

\* The four directions walls look at, each once.
LEMMA DirsAre ==
  /\ DOMAIN WALL_PROCESSING_DIRS = 1 .. 4
  /\ \A k \in 1 .. 4 : WALL_PROCESSING_DIRS[k] \in Dir
  /\ \A k, m \in 1 .. 4 : WALL_PROCESSING_DIRS[k] = WALL_PROCESSING_DIRS[m] => k = m
  /\ \A d \in Dir : \E k \in 1 .. 4 : WALL_PROCESSING_DIRS[k] = d
BY DEF WALL_PROCESSING_DIRS, Dir

\* A pair of a wall and a world whose walls are where they should be.
Watched(w, i) ==
  /\ i \in DOMAIN w.obj /\ i # None /\ w.obj[i].kind \in Wall /\ w.obj[i].owner \in Tile
  /\ \A d \in Dir : WallAt(w, i, d) # None =>
       /\ WallAt(w, i, d) \in DOMAIN w.obj /\ w.obj[WallAt(w, i, d)].kind \in Wall
       /\ w.obj[WallAt(w, i, d)].owner = Neighbour(w.obj[i].owner, d)

\* What a step of CheckNeighborhood does.
LostOne(w, i, v, d, y) ==
  /\ y.own[i].walls = v.own[i].walls \ {d}
  /\ \A j \in DOMAIN w.obj : j # i => y.own[j] = v.own[j]

GotBoth(w, i, v, d, n, y) ==
  /\ y.own[i].walls = v.own[i].walls \cup (IF n = i THEN {d, RevertDir(d)} ELSE {d})
  /\ \A j \in DOMAIN w.obj : j # i /\ j = n => y.own[j].walls = v.own[j].walls \cup {RevertDir(d)}
  /\ \A j \in DOMAIN w.obj : j # i /\ j # n => y.own[j] = v.own[j]

\* One step of it: both walls learn of each other, or the one forgets.
LEMMA CheckOpIs ==
  ASSUME NEW c, NEW w, NEW i, w = c.w, i = c.i, Watched(w, i), NEW v, WallsOnly(w, v),
         NEW d \in Dir, NEW n, n = WallAt(w, i, d), NEW y, y = CheckOp(c, v, d)
  PROVE  /\ WallsOnly(w, y)
         /\ n = None => LostOne(w, i, v, d, y)
         /\ n # None => GotBoth(w, i, v, d, n, y)
<1>2. i \in DOMAIN w.obj /\ w.obj[i].kind \in Wall
  BY DEF Watched
<1>3. DOMAIN v.own[i] = {"walls"} /\ v.own[i].walls \subseteq Dir
  BY <1>2 DEF WallsOnly
<1>4. WallAt(v, i, d) = n
  BY WallAtSame
<1>5. RevertDir(d) \in Dir
  BY RevertIs
<1>6. WallsOnly(w, v)
  OBVIOUS
<1>7. CASE n = None
  <2>1. y = WallSet(v, i, v.own[i].walls \ {d})
    BY <1>4, <1>7 DEF CheckOp
  <2>2. PICK S : S = v.own[i].walls \ {d}
    OBVIOUS
  <2>3. S \subseteq Dir
    BY <1>3, <2>2
  <2>10. y = WallSet(v, i, S)
    BY <2>1, <2>2
  <2>4. WallsOnly(w, y) /\ y.own[i].walls = S /\ \A j \in DOMAIN w.obj : j # i => y.own[j] = v.own[j]
    BY <1>2, <1>6, <2>3, <2>10, WallSetIs
  <2> QED BY <1>7, <2>2, <2>4 DEF LostOne
<1>8. CASE n # None
  <2>1. n \in DOMAIN w.obj /\ w.obj[n].kind \in Wall
    BY <1>8 DEF Watched
  <2>2. PICK S : S = v.own[i].walls \cup {d}
    OBVIOUS
  <2>3. PICK z : z = WallSet(v, i, S)
    OBVIOUS
  <2>4. S \subseteq Dir
    BY <1>3, <2>2
  <2>5. WallsOnly(w, z) /\ z.own[i].walls = S /\ \A j \in DOMAIN w.obj : j # i => z.own[j] = v.own[j]
    BY <1>2, <1>6, <2>3, <2>4, WallSetIs
  <2>6. PICK T : T = z.own[n].walls \cup {RevertDir(d)}
    OBVIOUS
  <2>7. T \subseteq Dir
    BY <1>5, <2>1, <2>5, <2>6 DEF WallsOnly
  <2>8. y = WallSet(z, n, T)
    <3>1. y = Learns(Learns(v, i, d), n, RevertDir(d))
      BY <1>4, <1>8 DEF CheckOp
    <3>2. z = Learns(v, i, d)
      BY <2>2, <2>3 DEF Learns, WallSet
    <3>3. Learns(z, n, RevertDir(d)) = WallSet(z, n, T)
      BY <2>6 DEF Learns, WallSet
    <3> QED BY <3>1, <3>2, <3>3
  <2>9. WallsOnly(w, y) /\ y.own[n].walls = T /\ \A j \in DOMAIN w.obj : j # n => y.own[j] = z.own[j]
    BY <2>1, <2>5, <2>7, <2>8, WallSetIs
  <2>10. y.own[i].walls = v.own[i].walls \cup (IF n = i THEN {d, RevertDir(d)} ELSE {d})
    <3>1. CASE n = i
      BY <2>2, <2>5, <2>6, <2>9, <3>1
    <3>2. CASE n # i
      BY <1>2, <2>2, <2>5, <2>9, <3>2
    <3> QED BY <3>1, <3>2
  <2>11. ASSUME NEW j \in DOMAIN w.obj, j # i, j = n PROVE y.own[j].walls = v.own[j].walls \cup {RevertDir(d)}
    <3>1. z.own[n] = v.own[n]
      BY <2>5, <2>11
    <3> QED BY <2>6, <2>9, <2>11, <3>1
  <2>12. ASSUME NEW j \in DOMAIN w.obj, j # i, j # n PROVE y.own[j] = v.own[j]
    BY <2>5, <2>9, <2>12
  <2> QED BY <1>8, <2>9, <2>10, <2>11, <2>12 DEF GotBoth
<1> QED BY <1>7, <1>8

\* The loop's invariant holds for one direction more.
LEMMA CheckStep ==
  ASSUME NEW c, Watched(c.w, c.i), NEW k \in 0 .. 3, NEW v, CheckKnows(c, k, v)
  PROVE  CheckKnows(c, k + 1, CheckOp(c, v, WALL_PROCESSING_DIRS[k + 1]))
<1>1. PICK w, i, d : w = c.w /\ i = c.i /\ d = WALL_PROCESSING_DIRS[k + 1]
  OBVIOUS
<1>2. PICK n, y, t : n = WallAt(w, i, d) /\ y = CheckOp(c, v, d) /\ t = w.obj[i].owner
  OBVIOUS
<1>3. d \in Dir /\ \A m \in 1 .. k : WALL_PROCESSING_DIRS[m] # d /\ WALL_PROCESSING_DIRS[m] \in Dir
  BY <1>1, DirsAre
<1>4. WallsOnly(w, v) /\ OnlyLearnt(w, i, v) /\ \A m \in 1 .. k : Learnt(w, i, v, WALL_PROCESSING_DIRS[m])
  BY <1>1 DEF CheckKnows
<1>5. Watched(w, i)
  BY <1>1
<1>6. i \in DOMAIN w.obj /\ w.obj[i].kind \in Wall /\ t \in Tile
  BY <1>2, <1>5 DEF Watched
<1>7. WallsOnly(w, y)
  BY <1>1, <1>2, <1>3, <1>4, <1>5, CheckOpIs
<1>17. (n = None => LostOne(w, i, v, d, y)) /\ (n # None => GotBoth(w, i, v, d, n, y))
  BY <1>1, <1>2, <1>3, <1>4, <1>5, CheckOpIs
<1>8. n = None => y.own[i].walls = v.own[i].walls \ {d} /\ \A j \in DOMAIN w.obj : j # i => y.own[j] = v.own[j]
  BY <1>17 DEF LostOne
<1>9. n # None => /\ y.own[i].walls = v.own[i].walls \cup (IF n = i THEN {d, RevertDir(d)} ELSE {d})
                  /\ \A j \in DOMAIN w.obj : j # i /\ j = n => y.own[j].walls = v.own[j].walls \cup {RevertDir(d)}
                  /\ \A j \in DOMAIN w.obj : j # i /\ j # n => y.own[j] = v.own[j]
  BY <1>17 DEF GotBoth
<1>10. n # None => n \in DOMAIN w.obj /\ w.obj[n].kind \in Wall /\ w.obj[n].owner = Neighbour(t, d)
  BY <1>2, <1>3, <1>5 DEF Watched
<1>11. n = i => Neighbour(t, d) = t
  <2>1. i # None
    BY <1>5 DEF Watched
  <2> QED BY <1>2, <1>10, <2>1
<1>12. \A j \in DOMAIN w.obj : j # i => v.own[j].walls \subseteq y.own[j].walls
  BY <1>8, <1>9
<1>13. Learnt(w, i, y, d)
  <2>1. IsInside(t, d) => (d \in y.own[i].walls <=> n # None)
    BY <1>8, <1>9
  <2>2. n \notin {None, i} => RevertDir(d) \in y.own[n].walls
    BY <1>9, <1>10
  <2> QED BY <1>2, <2>1, <2>2 DEF Learnt
<1>14. ASSUME NEW m \in 1 .. k, NEW e, e = WALL_PROCESSING_DIRS[m] PROVE Learnt(w, i, y, e)
  <2>1. e \in Dir /\ e # d /\ Learnt(w, i, v, e)
    BY <1>3, <1>4, <1>14
  <2>2. ASSUME IsInside(t, e) PROVE e \in y.own[i].walls <=> e \in v.own[i].walls
    <3>1. CASE n = i /\ n # None
      <4>1. Neighbour(t, d) = t
        BY <1>11, <3>1
      <4>2. e # RevertDir(d)
        BY <1>3, <2>1, <2>2, <4>1, RevertIs DEF IsInside
      <4> QED BY <1>9, <2>1, <3>1, <4>2
    <3>2. CASE n # i /\ n # None
      BY <1>9, <2>1, <3>2
    <3>3. CASE n = None
      BY <1>8, <2>1, <3>3
    <3> QED BY <3>1, <3>2, <3>3
  <2>3. WallAt(w, i, e) # None => WallAt(w, i, e) \in DOMAIN w.obj
    BY <1>5, <2>1 DEF Watched
  <2> QED BY <1>2, <1>12, <2>1, <2>2, <2>3 DEF Learnt
<1>15. OnlyLearnt(w, i, y)
  <2> SUFFICES ASSUME NEW j \in DOMAIN w.obj, w.obj[j].kind \in Wall, j # i
               PROVE  /\ w.own[j].walls \subseteq y.own[j].walls
                      /\ \A e \in y.own[j].walls \ w.own[j].walls : WallAt(w, i, RevertDir(e)) = j
    BY DEF OnlyLearnt
  <2>1. /\ w.own[j].walls \subseteq v.own[j].walls
        /\ \A e \in v.own[j].walls \ w.own[j].walls : WallAt(w, i, RevertDir(e)) = j
    BY <1>4 DEF OnlyLearnt
  <2>2. ASSUME NEW e \in y.own[j].walls \ v.own[j].walls PROVE WallAt(w, i, RevertDir(e)) = j
    <3>1. n # None /\ j = n /\ e = RevertDir(d)
      BY <1>8, <1>9, <2>2
    <3> QED BY <1>2, <1>3, <3>1, RevertIs
  <2> QED BY <1>12, <2>1, <2>2
<1>16. \A m \in 1 .. (k + 1) : Learnt(w, i, y, WALL_PROCESSING_DIRS[m])
  <2> SUFFICES ASSUME NEW m \in 1 .. (k + 1) PROVE Learnt(w, i, y, WALL_PROCESSING_DIRS[m])
    OBVIOUS
  <2>1. m \in 1 .. k \/ m = k + 1
    OBVIOUS
  <2> QED BY <1>1, <1>13, <1>14, <2>1
<1> QED BY <1>1, <1>2, <1>7, <1>15, <1>16 DEF CheckKnows

\* A wall on a tile has what the loop needs.
LEMMA WatchedSane ==
  ASSUME NEW A, NEW U, NEW r, NEW w, Sane(A, U, r, w), NEW i \in DOMAIN w.obj, w.obj[i].kind \in Wall, w.obj[i].owner \in Tile
  PROVE  Watched(w, i)
<1>1. i # None
  BY SaneForms
<1> QED BY <1>1, WallAtIs DEF Watched

\* After the loop the wall and its neighbours know of each other.
LEMMA CheckLearns ==
  ASSUME NEW A, NEW U, NEW r, NEW w, Sane(A, U, r, w), NEW i, Watched(w, i), NEW v, v = CheckNeighborhood(w, i)
  PROVE  /\ WallsOnly(w, v) /\ OnlyLearnt(w, i, v)
         /\ \A d \in Dir : Learnt(w, i, v, d)
<1>1. PICK c : c = [w |-> w, i |-> i]
  OBVIOUS
<1>2. c.w = w /\ c.i = i
  BY <1>1
<1>3. v = CheckFold!Folded(c, w, WALL_PROCESSING_DIRS)
  BY <1>2, CheckIsFold
<1>4. CheckKnows(c, 0, w)
  BY <1>2, WallsOnlySelf DEF CheckKnows, OnlyLearnt
<1>5. \A k \in 0 .. 4 - 1 : \A y : CheckKnows(c, k, y) => CheckKnows(c, k + 1, CheckOp(c, y, WALL_PROCESSING_DIRS[k + 1]))
  <2>1. Watched(c.w, c.i)
    BY <1>2
  <2> QED BY <2>1, CheckStep
<1>6. DOMAIN WALL_PROCESSING_DIRS = 1 .. 4 /\ 4 \in Nat
  BY DirsAre
<1>7. CheckKnows(c, 4, CheckFold!Folded(c, w, WALL_PROCESSING_DIRS))
  BY <1>4, <1>5, <1>6, CheckFold!FoldKeeps
<1> QED BY <1>2, <1>3, <1>7, DirsAre DEF CheckKnows

\* Of the worlds whose walls at a tile are looked at: what the walls know is right again.
LEMMA Relearnt ==
  ASSUME NEW U, NEW V, NEW r, NEW w, Sane({}, V, r, w), NEW i, NEW t, V = U \cup {i, t}, Watched(w, i),
         t = w.obj[i].owner, NEW v, WallsOnly(w, v), OnlyLearnt(w, i, v), \A d \in Dir : Learnt(w, i, v, d)
  PROVE  Walls(U, v)
<1>1. v.obj = w.obj /\ v.turf = w.turf
  BY SameFields DEF WallsOnly
<1>2. i \in DOMAIN w.obj /\ w.obj[i].kind \in Wall /\ t \in Tile
  BY DEF Watched
<1>3. w.turf[t] = i
  BY <1>2, TurfHome DEF Wall, Turf
<1> SUFFICES ASSUME NEW j \in DOMAIN w.obj, j \notin U, w.obj[j].kind \in Wall, NEW d \in Dir,
                    IsInside(w.obj[j].owner, d), Neighbour(w.obj[j].owner, d) \notin U
             PROVE  Knows(v, j, d)
  BY <1>1 DEF Walls
<1>4. WallAt(v, j, d) = WallAt(w, j, d)
  BY WallAtSame
<1>5. CASE j = i
  <2>1. Learnt(w, i, v, d)
    OBVIOUS
  <2> QED BY <1>4, <1>5, <2>1 DEF Learnt, Knows
<1>6. CASE j # i
  <2>1. PICK u, n, e : u = w.obj[j].owner /\ n = Neighbour(u, d) /\ e = RevertDir(d)
    OBVIOUS
  <2>2. u \in Tile /\ w.turf[u] = j /\ u # t
    BY <1>3, <1>6, <2>1, TurfHome DEF Wall, Turf
  <2>3. e \in Dir /\ RevertDir(e) = d
    BY <2>1, RevertIs
  <2>4. n # u /\ Neighbour(u, e) # u
    BY <2>1 DEF IsInside
  <2>5. Neighbour(n, e) = u
    BY <2>1, <2>2, <2>4, NeighbourBack
  <2>6. j # None /\ KindOf(w, j) = w.obj[j].kind /\ i # None /\ KindOf(w, i) = w.obj[i].kind
    BY <1>2, SaneForms
  <2>7. CASE n = t
    <3>1. WallAt(w, i, e) = j
      BY <2>2, <2>5, <2>6, <2>7 DEF WallAt, Owner, Is
    <3>2. RevertDir(e) \in v.own[j].walls
      BY <1>6, <2>3, <2>6, <3>1 DEF Learnt
    <3>3. WallAt(w, j, d) = i
      BY <1>2, <1>3, <2>1, <2>6, <2>7 DEF WallAt, Owner, Is
    <3> QED BY <1>4, <2>3, <2>6, <3>2, <3>3 DEF Knows
  <2>8. CASE n # t
    <3>1. j \notin V /\ n \notin V
      <4>1. n \in Tile
        BY <2>1, <2>2, NeighbourIsTile
      <4>2. i \notin Tile
        BY <1>2, SaneForms
      <4>3. j \notin Tile
        BY SaneForms
      <4>4. j # t /\ n # i /\ n \notin U
        BY <1>2, <2>1, <4>1, <4>2, <4>3
      <4> QED BY <1>6, <2>8, <4>4
    <3>2. Knows(w, j, d)
      <4>1. Walls(V, w)
        BY DEF Sane, Sound, Nearly
      <4> QED BY <2>1, <3>1, <4>1 DEF Walls
    <3>3. WallAt(w, i, e) # j
      <4>1. SUFFICES ASSUME WallAt(w, i, e) = j PROVE FALSE
        OBVIOUS
      <4>2. u = Neighbour(t, e)
        BY <1>2, <2>1, <2>3, <2>6, <4>1 DEF Watched
      <4>3. Neighbour(t, e) # t
        BY <2>2, <4>2
      <4>4. Neighbour(u, d) = t
        BY <1>2, <2>3, <4>2, <4>3, NeighbourBack
      <4> QED BY <2>1, <2>8, <4>4
    <3>4. d \in v.own[j].walls <=> d \in w.own[j].walls
      BY <1>6, <2>1, <3>3 DEF OnlyLearnt
    <3> QED BY <1>4, <3>2, <3>4 DEF Knows
  <2> QED BY <2>7, <2>8
<1> QED BY <1>5, <1>6

\* CheckNeighborhood makes the walls around a tile match.
LEMMA CheckSane ==
  ASSUME NEW U, NEW r, NEW w, NEW i, NEW t, Sane({}, U \cup {i, t}, r, w), i \in DOMAIN w.obj, w.obj[i].kind \in Wall,
         t = w.obj[i].owner, NEW v, v = CheckNeighborhood(w, i)
  PROVE  Sane({}, U, r, v) /\ Only({"own"}, w, v)
<1>1. PICK V : V = U \cup {i, t}
  OBVIOUS
<1>2. Sane({}, V, r, w)
  BY <1>1
<1>3. t \in Tile
  BY <1>2, TurfHome DEF Wall, Turf
<1>4. Watched(w, i)
  BY <1>2, <1>3, WatchedSane
<1>5. WallsOnly(w, v) /\ OnlyLearnt(w, i, v) /\ \A d \in Dir : Learnt(w, i, v, d)
  BY <1>2, <1>4, CheckLearns
<1>6. Walls(U, v)
  BY <1>1, <1>2, <1>4, <1>5, Relearnt
<1>7. U \subseteq V
  BY <1>1
<1>8. Walls(V, v)
  BY <1>6, <1>7, WallsMore
<1>9. Sane({}, V, r, v)
  BY <1>2, <1>5, <1>8, WallsChanged
<1>10. Shapes(U, v)
  <2>1. Shapes(V, v) /\ Formed(v)
    BY <1>9 DEF Sane, Sound, Nearly
  <2>2. v.obj = w.obj
    BY <1>5, SameFields DEF WallsOnly
  <2>3. Shaped(v, i)
    BY <2>2 DEF Shaped, ShapeFits, Wall, Closet
  <2>4. t \notin DOMAIN v.obj
    BY <1>3, <1>9, SaneForms
  <2> QED BY <1>1, <2>1, <2>3, <2>4 DEF Shapes
<1> QED BY <1>5, <1>6, <1>9, <1>10 DEF Sane, Sound, Nearly, WallsOnly

NotifyOp(c, v, d) ==
  IF WallAt(v, c.i, d) = None THEN v
  ELSE WallSet(v, WallAt(v, c.i, d), v.own[WallAt(v, c.i, d)].walls \ {RevertDir(d)})

\* What the other walls know less.
OnlyForgot(w, i, v) ==
  \A j \in DOMAIN w.obj : w.obj[j].kind \in Wall /\ j # i =>
    /\ v.own[j].walls \subseteq w.own[j].walls
    /\ \A e \in w.own[j].walls \ v.own[j].walls : WallAt(w, i, RevertDir(e)) = j

Forgot(w, i, v, d) ==
  WallAt(w, i, d) \notin {None, i} => RevertDir(d) \notin v.own[WallAt(w, i, d)].walls

NotifyKnows(c, k, v) ==
  /\ WallsOnly(c.w, v)
  /\ \A m \in 1 .. k : Forgot(c.w, c.i, v, WALL_PROCESSING_DIRS[m])
  /\ OnlyForgot(c.w, c.i, v)

NotifyFold == INSTANCE FoldInduction WITH Op <- NotifyOp, P <- NotifyKnows

\* NotifyNeighborhood as a fold over the four directions.
LEMMA NotifyIsFold ==
  ASSUME NEW c, NEW w
  PROVE  NotifyNeighborhood(w, c.i) = NotifyFold!Folded(c, w, WALL_PROCESSING_DIRS)
BY DEF NotifyFold!Folded, NotifyFold!MaxOf, NotifyNeighborhood, NotifyOp, WallSet, FoldLeft, MapThenFoldSet, Max

\* The loop's invariant holds for one direction more.
LEMMA NotifyStep ==
  ASSUME NEW c, Watched(c.w, c.i), NEW k \in 0 .. 3, NEW v, NotifyKnows(c, k, v)
  PROVE  NotifyKnows(c, k + 1, NotifyOp(c, v, WALL_PROCESSING_DIRS[k + 1]))
<1>1. PICK w, i, d : w = c.w /\ i = c.i /\ d = WALL_PROCESSING_DIRS[k + 1]
  OBVIOUS
<1>2. PICK n, y : n = WallAt(w, i, d) /\ y = NotifyOp(c, v, d)
  OBVIOUS
<1>3. d \in Dir /\ \A m \in 1 .. k : WALL_PROCESSING_DIRS[m] # d /\ WALL_PROCESSING_DIRS[m] \in Dir
  BY <1>1, DirsAre
<1>4. WallsOnly(w, v) /\ OnlyForgot(w, i, v) /\ \A m \in 1 .. k : Forgot(w, i, v, WALL_PROCESSING_DIRS[m])
  BY <1>1 DEF NotifyKnows
<1>5. Watched(w, i)
  BY <1>1
<1>6. WallAt(v, c.i, d) = n
  BY <1>1, <1>2, <1>4, WallAtSame
<1>7. CASE n = None
  <2>1. y = v
    BY <1>2, <1>6, <1>7 DEF NotifyOp
  <2>2. Forgot(w, i, v, d)
    BY <1>2, <1>7 DEF Forgot
  <2>3. \A m \in 1 .. (k + 1) : Forgot(w, i, v, WALL_PROCESSING_DIRS[m])
    <3> SUFFICES ASSUME NEW m \in 1 .. (k + 1) PROVE Forgot(w, i, v, WALL_PROCESSING_DIRS[m])
      OBVIOUS
    <3>1. m \in 1 .. k \/ m = k + 1
      OBVIOUS
    <3> QED BY <1>1, <1>4, <2>2, <3>1
  <2> QED BY <1>1, <1>2, <1>4, <2>1, <2>3 DEF NotifyKnows
<1>8. CASE n # None
  <2>1. n \in DOMAIN w.obj /\ w.obj[n].kind \in Wall
    BY <1>2, <1>3, <1>5, <1>8 DEF Watched
  <2>2. PICK S : S = v.own[n].walls \ {RevertDir(d)}
    OBVIOUS
  <2>3. y = WallSet(v, n, v.own[n].walls \ {RevertDir(d)})
    BY <1>2, <1>6, <1>8 DEF NotifyOp
  <2>4. y = WallSet(v, n, S) /\ S \subseteq Dir
    BY <1>4, <2>1, <2>2, <2>3 DEF WallsOnly
  <2>5. WallsOnly(w, y) /\ y.own[n].walls = S /\ \A j \in DOMAIN w.obj : j # n => y.own[j] = v.own[j]
    BY <1>4, <2>1, <2>4, WallSetIs
  <2>6. \A j \in DOMAIN w.obj : y.own[j].walls \subseteq v.own[j].walls \/ y.own[j] = v.own[j]
    BY <2>2, <2>5
  <2>7. Forgot(w, i, y, d)
    BY <1>2, <2>2, <2>5 DEF Forgot
  <2>8. ASSUME NEW m \in 1 .. k, NEW e, e = WALL_PROCESSING_DIRS[m] PROVE Forgot(w, i, y, e)
    <3>1. e \in Dir /\ Forgot(w, i, v, e)
      BY <1>3, <1>4, <2>8
    <3>2. WallAt(w, i, e) # None => WallAt(w, i, e) \in DOMAIN w.obj
      BY <1>5, <3>1 DEF Watched
    <3> QED BY <2>6, <3>1, <3>2 DEF Forgot
  <2>9. OnlyForgot(w, i, y)
    <3> SUFFICES ASSUME NEW j \in DOMAIN w.obj, w.obj[j].kind \in Wall, j # i
                 PROVE  /\ y.own[j].walls \subseteq w.own[j].walls
                        /\ \A e \in w.own[j].walls \ y.own[j].walls : WallAt(w, i, RevertDir(e)) = j
      BY DEF OnlyForgot
    <3>1. /\ v.own[j].walls \subseteq w.own[j].walls
          /\ \A e \in w.own[j].walls \ v.own[j].walls : WallAt(w, i, RevertDir(e)) = j
      BY <1>4 DEF OnlyForgot
    <3>2. ASSUME NEW e \in v.own[j].walls \ y.own[j].walls PROVE WallAt(w, i, RevertDir(e)) = j
      <4>1. j = n /\ e = RevertDir(d)
        BY <2>2, <2>5, <3>2
      <4> QED BY <1>2, <1>3, <4>1, RevertIs
    <3> QED BY <2>6, <3>1, <3>2
  <2>10. \A m \in 1 .. (k + 1) : Forgot(w, i, y, WALL_PROCESSING_DIRS[m])
    <3> SUFFICES ASSUME NEW m \in 1 .. (k + 1) PROVE Forgot(w, i, y, WALL_PROCESSING_DIRS[m])
      OBVIOUS
    <3>1. m \in 1 .. k \/ m = k + 1
      OBVIOUS
    <3> QED BY <1>1, <2>7, <2>8, <3>1
  <2> QED BY <1>1, <1>2, <2>5, <2>9, <2>10 DEF NotifyKnows
<1> QED BY <1>7, <1>8

\* After the loop no neighbour knows of the wall.
LEMMA NotifyForgets ==
  ASSUME NEW A, NEW U, NEW r, NEW w, Sane(A, U, r, w), NEW i, Watched(w, i), NEW v, v = NotifyNeighborhood(w, i)
  PROVE  /\ WallsOnly(w, v) /\ OnlyForgot(w, i, v)
         /\ \A d \in Dir : Forgot(w, i, v, d)
<1>1. PICK c : c = [w |-> w, i |-> i]
  OBVIOUS
<1>2. c.w = w /\ c.i = i
  BY <1>1
<1>3. v = NotifyFold!Folded(c, w, WALL_PROCESSING_DIRS)
  BY <1>2, NotifyIsFold
<1>4. NotifyKnows(c, 0, w)
  BY <1>2, WallsOnlySelf DEF NotifyKnows, OnlyForgot
<1>5. \A k \in 0 .. 4 - 1 : \A y : NotifyKnows(c, k, y) => NotifyKnows(c, k + 1, NotifyOp(c, y, WALL_PROCESSING_DIRS[k + 1]))
  <2>1. Watched(c.w, c.i)
    BY <1>2
  <2> QED BY <2>1, NotifyStep
<1>6. DOMAIN WALL_PROCESSING_DIRS = 1 .. 4 /\ 4 \in Nat
  BY DirsAre
<1>7. NotifyKnows(c, 4, NotifyFold!Folded(c, w, WALL_PROCESSING_DIRS))
  BY <1>4, <1>5, <1>6, NotifyFold!FoldKeeps
<1> QED BY <1>2, <1>3, <1>7, DirsAre DEF NotifyKnows

\* No wall but the one knows of a wall on the tile.
Unknown(w, i, t) ==
  \A j \in DOMAIN w.obj : w.obj[j].kind \in Wall /\ j # i =>
    \A d \in Dir : IsInside(w.obj[j].owner, d) /\ Neighbour(w.obj[j].owner, d) = t => d \notin w.own[j].walls

\* NotifyNeighborhood keeps the invariant, and no wall knows of the one that goes.
LEMMA NotifySane ==
  ASSUME NEW A, NEW U, NEW r, NEW w, Sane(A, U, r, w), NEW i \in DOMAIN w.obj, w.obj[i].kind \in Wall,
         A \subseteq {i}, NEW t, t = w.obj[i].owner, t \in Tile, i \in U, t \in U,
         NEW v, v = NotifyNeighborhood(w, i)
  PROVE  Sane(A, U, r, v) /\ Only({"own"}, w, v) /\ Unknown(v, i, t)
<1>1. Watched(w, i)
  BY WatchedSane
<1>2. WallsOnly(w, v) /\ OnlyForgot(w, i, v) /\ \A d \in Dir : Forgot(w, i, v, d)
  BY <1>1, NotifyForgets
<1>3. v.obj = w.obj /\ v.turf = w.turf
  BY <1>2, SameFields DEF WallsOnly
<1>4. ASSUME NEW j \in DOMAIN w.obj, j # i, w.obj[j].kind \in Wall, NEW d \in Dir, IsInside(w.obj[j].owner, d)
      PROVE  /\ Neighbour(w.obj[j].owner, d) # t => (d \in v.own[j].walls <=> d \in w.own[j].walls)
             /\ Neighbour(w.obj[j].owner, d) = t => d \notin v.own[j].walls
  <2>1. PICK u, n, e : u = w.obj[j].owner /\ n = Neighbour(u, d) /\ e = RevertDir(d)
    OBVIOUS
  <2>2. u \in Tile /\ w.turf[u] = j
    BY <1>4, <2>1, TurfHome DEF Wall, Turf
  <2>3. e \in Dir /\ RevertDir(e) = d
    BY <2>1, RevertIs
  <2>4. n # u /\ Neighbour(u, e) # u
    BY <1>4, <2>1 DEF IsInside
  <2>5. Neighbour(n, e) = u
    BY <2>1, <2>2, <2>4, NeighbourBack
  <2>6. j # None /\ KindOf(w, j) = w.obj[j].kind
    BY SaneForms
  <2>7. ASSUME n = t PROVE d \notin v.own[j].walls
    <3>1. WallAt(w, i, e) = j
      BY <1>4, <2>2, <2>5, <2>6, <2>7 DEF WallAt, Owner, Is
    <3> QED BY <1>2, <1>4, <2>3, <2>6, <3>1 DEF Forgot
  <2>8. ASSUME n # t PROVE d \in v.own[j].walls <=> d \in w.own[j].walls
    <3>1. WallAt(w, i, e) # j
      <4>1. SUFFICES ASSUME WallAt(w, i, e) = j PROVE FALSE
        OBVIOUS
      <4>2. u = Neighbour(t, e)
        BY <1>1, <2>1, <2>3, <2>6, <4>1 DEF Watched
      <4>3. Neighbour(t, e) # t
        BY <2>4, <4>2
      <4>4. Neighbour(u, d) = t
        BY <2>3, <4>2, <4>3, NeighbourBack
      <4> QED BY <2>1, <2>8, <4>4
    <3> QED BY <1>2, <1>4, <2>1, <3>1 DEF OnlyForgot
  <2> QED BY <2>1, <2>7, <2>8
<1>5. Unknown(v, i, t)
  BY <1>3, <1>4 DEF Unknown
<1>6. Walls(U, v)
  <2> SUFFICES ASSUME NEW j \in DOMAIN w.obj, j \notin U, w.obj[j].kind \in Wall, NEW d \in Dir,
                      IsInside(w.obj[j].owner, d), Neighbour(w.obj[j].owner, d) \notin U
               PROVE  Knows(v, j, d)
    BY <1>3 DEF Walls
  <2>1. j # i /\ Neighbour(w.obj[j].owner, d) # t
    OBVIOUS
  <2>2. Walls(U, w)
    BY DEF Sane, Sound, Nearly
  <2>3. Knows(w, j, d)
    BY <2>2 DEF Walls
  <2>4. WallAt(v, j, d) = WallAt(w, j, d)
    BY <1>2, WallAtSame
  <2> QED BY <1>4, <2>1, <2>3, <2>4 DEF Knows
<1> QED BY <1>2, <1>5, <1>6, WallsChanged DEF WallsOnly

\* When no wall is left on a tile, and none knows of one.
LEMMA WallsLeft ==
  ASSUME NEW A, NEW U, NEW V, NEW r, NEW w, NEW i, NEW t \in Tile, V = U \cup {i, t}, Sane(A, V, r, w), i \notin DOMAIN w.obj,
         ~Is(w, w.turf[t], Wall), Unknown(w, i, t), i \notin Tile
  PROVE  Sane(A, U, r, w)
<1>1. t \notin DOMAIN w.obj
  BY SaneForms
<1>2. Shapes(U, w)
  <2>1. Shapes(V, w)
    BY DEF Sane, Sound, Nearly
  <2> QED BY <1>1, <2>1 DEF Shapes
<1>3. Walls(U, w)
  <2> SUFFICES ASSUME NEW j \in DOMAIN w.obj, j \notin U, w.obj[j].kind \in Wall, NEW d \in Dir,
                      IsInside(w.obj[j].owner, d), Neighbour(w.obj[j].owner, d) \notin U
               PROVE  Knows(w, j, d)
    BY DEF Walls
  <2>1. j # i /\ j # t
    BY <1>1
  <2>2. CASE Neighbour(w.obj[j].owner, d) = t
    <3>1. d \notin w.own[j].walls
      BY <2>1, <2>2 DEF Unknown
    <3>2. WallAt(w, j, d) = None
      BY <2>2 DEF WallAt, Owner
    <3> QED BY <3>1, <3>2 DEF Knows
  <2>3. CASE Neighbour(w.obj[j].owner, d) # t
    <3>1. Neighbour(w.obj[j].owner, d) \in Tile
      BY NeighbourIsTile DEF IsInside
    <3>2. Neighbour(w.obj[j].owner, d) # i
      BY <3>1
    <3>3. Walls(V, w)
      BY DEF Sane, Sound, Nearly
    <3> QED BY <2>1, <2>3, <3>2, <3>3 DEF Walls
  <2> QED BY <2>2, <2>3
<1> QED BY <1>2, <1>3 DEF Sane, Sound, Nearly

-----------------------------------------------------------------------------
(* Delete.                                                                 *)

\* What is nowhere may be held by nobody.
LEMMA Unplaced ==
  ASSUME NEW A, NEW U, NEW r, NEW w, Sane(A, U, r, w), NEW i \in DOMAIN w.obj, w.obj[i].owner = None
  PROVE  Sane(A \cup {i}, U, r, w)
<1>1. PICK B : B = A \cup {i}
  OBVIOUS
<1>2. Formed(w) /\ Settled(A, w)
  BY DEF Sane, Sound, Nearly
<1>3. \A j, c, class : Lies(A, w, j, c, class) /\ c # None => Lies(B, w, j, c, class)
  BY <1>1 DEF Lies
<1>4. OnTiles(B, w)
  BY <1>2, <1>3, NoneIsNoTile DEF Settled, OnTiles
<1>5. None \notin DOMAIN w.obj
  BY SaneForms
<1>6. InContents(B, w)
  <2>1. None \notin DOMAIN w.content
    BY <1>2, <1>5, NoneIsNoTile DEF Formed, Contents, Is, KindOf, IsValid, Closet, Hand, None
  <2> QED BY <1>2, <1>3, <2>1 DEF Settled, InContents
<1>7. InSlots(B, w)
  BY <1>2, <1>3, <1>5 DEF Settled, InSlots
<1>8. Homed(B, w)
  BY <1>1, <1>2 DEF Settled, Homed
<1>9. Settled(B, w)
  BY <1>4, <1>6, <1>7, <1>8 DEF Settled
<1> QED BY <1>1, <1>9 DEF Sane, Sound, Nearly

Unminded(w, i) == \A p \in Player : w.mind[p] # i

Gone(w, i) == [w EXCEPT !.obj = Without(@, i), !.own = Without(@, i)]

AllBut(w, i, v) ==
  /\ Only({"obj", "own"}, w, v)
  /\ DOMAIN v.obj = (DOMAIN w.obj) \ {i} /\ DOMAIN v.own = (DOMAIN w.obj) \ {i}
  /\ v.obj = [j \in DOMAIN v.obj |-> v.obj[j]] /\ v.own = [j \in DOMAIN v.obj |-> v.own[j]]
  /\ \A j \in DOMAIN w.obj : j # i => v.obj[j] = w.obj[j] /\ v.own[j] = w.own[j]

\* What dropping an object from the table changes.
LEMMA GoneIs ==
  ASSUME NEW w, DOMAIN w = Members, DOMAIN w.own = DOMAIN w.obj, NEW i, NEW v, v = Gone(w, i)
  PROVE  AllBut(w, i, v)
<1>1. v.obj = [j \in (DOMAIN w.obj) \ {i} |-> w.obj[j]] /\ v.own = [j \in (DOMAIN w.obj) \ {i} |-> w.own[j]]
  BY KeptIs DEF Gone, Without, Members
<1>2. Only({"obj", "own"}, w, v)
  BY DEF Only, Gone, Members
<1> QED BY <1>1, <1>2 DEF AllBut

\* An object nobody has may leave the table.
LEMMA GoneSane ==
  ASSUME NEW A, NEW U, NEW r, NEW w, Sane(A, U, r, w), NEW i \in DOMAIN w.obj, i \in A,
         w.obj[i].kind \notin Closet \cup {"human"}, Unminded(w, i), NEW v, v = Gone(w, i)
  PROVE  Sane(A \ {i}, U, r, v)
<1>1. PICK B : B = A \ {i}
  OBVIOUS
<1>2. Formed(w) /\ Settled(A, w) /\ Forces(w) /\ Sums(None, w) /\ Shapes(U, w) /\ Minds(w) /\ Walls(U, w)
  BY DEF Sane, Sound, Nearly
<1>3. DOMAIN w = Members /\ DOMAIN w.own = DOMAIN w.obj
  BY SaneForms
<1>4. /\ Only({"obj", "own"}, w, v)
      /\ DOMAIN v.obj = (DOMAIN w.obj) \ {i} /\ DOMAIN v.own = (DOMAIN w.obj) \ {i}
      /\ v.obj = [j \in DOMAIN v.obj |-> v.obj[j]] /\ v.own = [j \in DOMAIN v.obj |-> v.own[j]]
      /\ \A j \in DOMAIN w.obj : j # i => v.obj[j] = w.obj[j] /\ v.own[j] = w.own[j]
  BY <1>3, GoneIs DEF AllBut
<1>5. /\ v.turf = w.turf /\ v.sum = w.sum /\ v.flags = w.flags /\ v.tick = w.tick
      /\ v.last = w.last /\ v.list = w.list /\ v.to_add = w.to_add /\ v.under_force = w.under_force
      /\ v.chance = w.chance /\ v.mind = w.mind /\ v.music = w.music /\ DOMAIN v = Members
      /\ v.content = w.content
  BY <1>4, SameFields
<1>6. i # None /\ i # Hand /\ i \notin Tile
  BY SaneForms
<1>7. \A j : j # i => KindOf(v, j) = KindOf(w, j)
  BY <1>4 DEF KindOf, IsValid
<1>8. Formed(v)
  <2>1. Counted(v) /\ Grid(v) /\ Queues(v)
    BY <1>2, <1>5 DEF Formed, Counted, Grid, Queues
  <2>2. Objects(v)
    BY <1>2, <1>4, <1>5 DEF Formed, Objects
  <2>3. Owned(v)
    <3>1. ASSUME NEW j \in DOMAIN v.obj PROVE OwnFits(v, v.obj[j].kind, v.own[j])
      <4>1. OwnFits(w, w.obj[j].kind, w.own[j]) /\ v.obj[j] = w.obj[j] /\ v.own[j] = w.own[j]
        BY <1>2, <1>4, <3>1 DEF Formed, Owned
      <4>2. \A n, class : Refers(w, n, class) => Refers(v, n, class)
        BY <1>4, <1>5 DEF Refers, IsValid
      <4> QED BY <4>1, <4>2 DEF OwnFits
    <3> QED BY <1>4, <3>1 DEF Owned
  <2>4. Contents(v)
    <3>1. ~Is(w, i, Closet)
      BY <1>6, SaneForms DEF Is
    <3> QED BY <1>2, <1>4, <1>5, <1>7, <3>1 DEF Formed, Contents, Is
  <2> QED BY <2>1, <2>2, <2>3, <2>4 DEF Formed
<1>9. \A j, c, class : Lies(A, w, j, c, class) => Lies(B, v, j, c, class)
  BY <1>1, <1>4 DEF Lies
<1>10. Settled(B, v)
  <2>1. OnTiles(B, v)
    BY <1>2, <1>5, <1>9 DEF Settled, OnTiles
  <2>2. InContents(B, v)
    BY <1>2, <1>5, <1>9 DEF Settled, InContents
  <2>3. InSlots(B, v)
    <3>1. \A h \in DOMAIN v.obj : h \in DOMAIN w.obj /\ v.obj[h] = w.obj[h] /\ v.own[h] = w.own[h]
      BY <1>4
    <3>2. InSlots(A, w)
      BY <1>2 DEF Settled
    <3> QED BY <1>9, <3>1, <3>2 DEF InSlots
  <2>4. Homed(B, v)
    <3> SUFFICES ASSUME NEW j \in DOMAIN v.obj, j \notin B
                 PROVE  /\ v.obj[j].owner # None => Has(v, v.obj[j].owner, j)
                        /\ v.obj[j].kind \in Rooted => v.obj[j].owner \in Tile
      BY DEF Homed
    <3>1. j \in DOMAIN w.obj /\ j # i /\ j \notin A /\ v.obj[j] = w.obj[j]
      BY <1>1, <1>4
    <3>2. PICK c : c = w.obj[j].owner
      OBVIOUS
    <3>3. /\ c # None => Has(w, c, j)
          /\ v.obj[j].kind \in Rooted => c \in Tile
      BY <1>2, <3>1, <3>2 DEF Settled, Homed
    <3>4. ASSUME Has(w, c, j) PROVE Has(v, c, j)
      <4>1. CASE c \in Tile
        BY <1>5, <3>4, <4>1 DEF Has
      <4>2. CASE c \notin Tile
        <5>1. Is(w, c, Closet) \/ Is(w, c, {"human"})
          BY <3>4, <4>2 DEF Has
        <5>2. c # i
          BY <1>6, <5>1, SaneForms DEF Is
        <5>3. Is(w, c, Closet) <=> Is(v, c, Closet)
          BY <1>7, <5>2 DEF Is
        <5>4. Is(w, c, {"human"}) <=> Is(v, c, {"human"})
          BY <1>7, <5>2 DEF Is
        <5>5. Is(w, c, {"human"}) => v.own[c] = w.own[c]
          BY <1>4, <5>2 DEF Is, KindOf, IsValid
        <5> QED BY <1>5, <3>4, <4>2, <5>3, <5>4, <5>5 DEF Has, SlotsOf
      <4> QED BY <4>1, <4>2
    <3> QED BY <3>1, <3>2, <3>3, <3>4
  <2> QED BY <2>1, <2>2, <2>3, <2>4 DEF Settled
<1>11. Forces(v)
  <2>1. \A j \in DOMAIN v.obj : j \in DOMAIN w.obj /\ v.obj[j] = w.obj[j]
    BY <1>4
  <2> QED BY <1>2, <1>5, <2>1 DEF Forces
<1>12. Sums(None, v)
  <2> SUFFICES ASSUME NEW u \in Tile PROVE SumAt(v, u)
    BY DEF Sums
  <2>1. SumAt(w, u)
    BY <1>2, NoneIsNoTile DEF Sums
  <2>2. \A j \in Standing(w, u) : v.obj[j] = w.obj[j]
    <3> SUFFICES ASSUME NEW j \in Standing(w, u) PROVE v.obj[j] = w.obj[j]
      OBVIOUS
    <3>1. j \in DOMAIN w.obj /\ j \notin A
      BY <1>2, StandingLies DEF Formed
    <3> QED BY <1>4, <3>1
  <2> QED BY <1>5, <2>1, <2>2, SumAtSame
<1>13. Shapes(U, v)
  BY <1>2, <1>4 DEF Shapes, Shaped
<1>14. Minds(v)
  <2>1. \A j \in DOMAIN w.obj : w.obj[j].kind \in Mob /\ (\E p \in Player : w.mind[p] = j) =>
           /\ j \in DOMAIN v.obj /\ v.obj[j].kind = w.obj[j].kind
           /\ w.obj[j].kind = "human" /\ v.own[j].dead => w.own[j].dead
    BY <1>4 DEF Unminded
  <2> QED BY <1>2, <1>5, <2>1, MindsSame
<1>15. Walls(U, v)
  <2> SUFFICES ASSUME NEW j \in DOMAIN v.obj, j \notin U, v.obj[j].kind \in Wall, NEW d \in Dir,
                      IsInside(v.obj[j].owner, d), Neighbour(v.obj[j].owner, d) \notin U
               PROVE  Knows(v, j, d)
    BY DEF Walls
  <2>1. j \in DOMAIN w.obj /\ j # i /\ v.obj[j] = w.obj[j] /\ v.own[j] = w.own[j]
    BY <1>4
  <2>2. Knows(w, j, d)
    BY <1>2, <2>1 DEF Walls
  <2>3. PICK n : n = w.turf[Neighbour(w.obj[j].owner, d)]
    OBVIOUS
  <2>4. Neighbour(w.obj[j].owner, d) \in Tile
    BY <2>1, NeighbourIsTile DEF IsInside
  <2>5. n # i
    <3>1. n # None => Lies(A, w, n, Neighbour(w.obj[j].owner, d), Turf)
      BY <1>2, <2>3, <2>4 DEF Settled, OnTiles
    <3> QED BY <1>6, <3>1 DEF Lies
  <2>6. WallAt(v, j, d) = WallAt(w, j, d)
    BY <1>5, <1>7, <2>1, <2>3, <2>5 DEF WallAt, Owner, Is
  <2> QED BY <2>1, <2>2, <2>6 DEF Knows
<1>16. Since(w, v)
  <2>1. Since(w, w)
    BY <1>2, SinceSelf DEF Formed
  <2> QED BY <1>4, <1>5, <2>1 DEF Since, Remains, Moves, Waiting
<1>17. Sound(B, U, v)
  BY <1>8, <1>10, <1>11, <1>12, <1>13, <1>14, <1>15 DEF Sound, Nearly
<1> QED BY <1>1, <1>16, <1>17, SaneStep

\* What Delete changes.
Deleted(w, i, v) ==
  /\ Only({"obj", "own", "content", "turf", "sum", "flags"}, w, v)
  /\ DOMAIN v.obj = (DOMAIN w.obj) \ {i}
  /\ \A j \in DOMAIN w.obj : j # i => v.obj[j] = w.obj[j]

\* Delete is removal from the owner, then from the table.
LEMMA DeleteIs ==
  ASSUME NEW w, NEW i
  PROVE  Delete(w, i) = Gone(IF Owner(w, i) = None THEN w ELSE RemoveObject(w, Owner(w, i), i), i)
BY DEF Delete, Gone

\* Delete keeps the invariant where no mind is in the object.
LEMMA DeleteSane ==
  ASSUME NEW A, NEW U, NEW r, NEW w, Sane(A, U, r, w), NEW i \in DOMAIN w.obj,
         w.obj[i].kind \notin Closet \cup {"human"}, Unminded(w, i), w.obj[i].kind \in Wall => w.obj[i].owner \in U,
         NEW v, v = Delete(w, i)
  PROVE  /\ Sane(A \ {i}, U, r, v) /\ Deleted(w, i, v)
         /\ w.obj[i].owner \in Tile => \A j \in DOMAIN w.obj : j # i => v.own[j] = w.own[j]
         /\ w.obj[i].owner \in Tile /\ i \in A => v.turf = w.turf
         /\ w.obj[i].owner \in Tile /\ w.turf[w.obj[i].owner] = i /\ i \notin A => v.turf[w.obj[i].owner] = None
<1>1. PICK c, x : c = w.obj[i].owner /\ x = IF c = None THEN w ELSE RemoveObject(w, c, i)
  OBVIOUS
<1>2. v = Gone(x, i)
  BY <1>1, DeleteIs DEF Owner
<1>3. Formed(w) /\ Settled(A, w) /\ Sound(A, U, w) /\ DOMAIN w = Members
  BY SaneForms DEF Sane, Sound, Nearly
<1>4. i # None /\ i \in A \cup {i}
  BY SaneForms
<1>5. /\ Sane(A \cup {i}, U, r, x)
      /\ Only({"content", "turf", "sum", "flags", "own"}, w, x)
      /\ c \in Tile => x.own = w.own
      /\ c \in Tile /\ i \in A => x.turf = w.turf
      /\ c \in Tile /\ w.turf[c] = i /\ i \notin A => x.turf[c] = None
  <2>1. CASE c = None
    <3>1. x = w
      BY <1>1, <2>1
    <3>2. Sane(A \cup {i}, U, r, w)
      BY <1>1, <2>1, Unplaced
    <3> QED BY <1>3, <2>1, <3>1, <3>2, NoneIsNoTile DEF Only
  <2>2. CASE c # None /\ i \in A
    <3>1. x = RemoveObject(w, c, i)
      BY <1>1, <2>2
    <3>2. x = w
      BY <1>3, <2>2, <3>1, RemoveNothing
    <3>3. A \cup {i} = A
      BY <2>2
    <3> QED BY <1>3, <2>2, <3>2, <3>3 DEF Only
  <2>3. CASE c # None /\ i \notin A
    <3>1. Has(w, c, i)
      BY <1>1, <1>3, <2>3 DEF Settled, Homed
    <3>2. x = RemoveObject(w, c, i)
      BY <1>1, <2>3
    <3>3. w.obj[i].kind \in Wall => c \in U
      BY <1>1
    <3>8. Sound(A, U, w)
      BY <1>3
    <3>9. Sound(A \cup {i}, U, x) /\ Since(w, x)
      BY <3>8, <3>1, <3>2, <3>3, Removed
    <3>10. Only({"content", "turf", "sum", "flags", "own"}, w, x)
      BY <3>8, <3>1, <3>2, <3>3, Removed
    <3>11. OwnKept(w, c, x)
      BY <3>8, <3>1, <3>2, <3>3, Removed
    <3>4. /\ Sound(A \cup {i}, U, x) /\ Since(w, x)
          /\ Only({"content", "turf", "sum", "flags", "own"}, w, x)
          /\ ~Is(w, c, {"human"}) => x.own = w.own
      BY <3>9, <3>10, <3>11 DEF OwnKept
    <3>5. c \in Tile => ~Is(w, c, {"human"})
      <4>1. c \in Tile => c \notin DOMAIN w.obj
        BY SaneForms
      <4> QED BY <4>1 DEF Is, KindOf, IsValid
    <3>6. c \in Tile /\ w.turf[c] = i => x.turf[c] = None
      <4>1. SUFFICES ASSUME c \in Tile, w.turf[c] = i PROVE x.turf[c] = None
        OBVIOUS
      <4>2. x = SetTurf(w, c, None)
        BY <3>1, <3>2, <4>1 DEF RemoveObject
      <4>3. w.turf \in [Tile -> Nat]
        BY <1>3 DEF Formed, Grid
      <4>4. ~IsValid(w, None)
        BY SaneForms DEF IsValid
      <4>5. PICK z : z = [w EXCEPT !.turf[c] = None]
        OBVIOUS
      <4>6. x = UpdatePassable(z, c)
        BY <4>2, <4>4, <4>5 DEF SetTurf
      <4>7. DOMAIN z = Members /\ z.turf[c] = None
        BY <1>3, <4>1, <4>3, <4>5 DEF Members
      <4>8. Only({"sum", "flags"}, z, x)
        BY <4>6, <4>7, UpdateKeeps
      <4> QED BY <4>7, <4>8, SameFields
    <3>7. Sane(A \cup {i}, U, r, x)
      BY <3>4, SaneStep
    <3> QED BY <2>3, <3>4, <3>5, <3>6, <3>7
  <2> QED BY <2>1, <2>2, <2>3
<1>6. x.obj = w.obj /\ x.mind = w.mind
  BY <1>5, SameFields
<1>7. i \in DOMAIN x.obj /\ x.obj[i].kind \notin Closet \cup {"human"} /\ Unminded(x, i)
  BY <1>6 DEF Unminded
<1>8. Sane((A \cup {i}) \ {i}, U, r, v)
  BY <1>2, <1>4, <1>5, <1>7, GoneSane
<1>9. (A \cup {i}) \ {i} = A \ {i}
  OBVIOUS
<1>10. DOMAIN x = Members /\ DOMAIN x.own = DOMAIN x.obj
  BY <1>5, SaneForms
<1>14. AllBut(x, i, v)
  BY <1>2, <1>10, GoneIs
<1>11. /\ Only({"obj", "own"}, x, v)
       /\ DOMAIN v.obj = (DOMAIN x.obj) \ {i}
       /\ \A j \in DOMAIN x.obj : j # i => v.obj[j] = x.obj[j] /\ v.own[j] = x.own[j]
  BY <1>14 DEF AllBut
<1>12. v.turf = x.turf
  BY <1>11, SameFields
<1>13. Deleted(w, i, v)
  <2>1. Only({"obj", "own", "content", "turf", "sum", "flags"}, w, v)
    BY <1>5, <1>11 DEF Only
  <2> QED BY <1>6, <1>11, <2>1 DEF Deleted
<1> QED BY <1>1, <1>5, <1>6, <1>8, <1>9, <1>11, <1>12, <1>13

\* An object of a class that nothing else speaks of.
Mortal(kind) == kind \notin Wall \cup Closet \cup {"human"}

\* DeleteObject keeps the invariant, for walls too: their neighbours are told first.
LEMMA DeleteObjectSane ==
  ASSUME NEW A, NEW U, NEW r, NEW w, Sane(A, U, r, w), NEW i \in DOMAIN w.obj,
         Mortal(w.obj[i].kind), Unminded(w, i), NEW v, v = DeleteObject(w, i)
  PROVE  Sane(A \ {i}, U, r, v) /\ Deleted(w, i, v)
<1>1. KindOf(w, i) = w.obj[i].kind
  BY SaneForms
<1>2. v = Delete(w, i)
  BY <1>1 DEF DeleteObject, Is, Mortal
<1> QED BY <1>2, DeleteSane DEF Mortal

\* No mind is in what is no mob.
LEMMA MindsMobs ==
  ASSUME NEW A, NEW U, NEW r, NEW w, Sane(A, U, r, w), NEW i, i \in DOMAIN w.obj => w.obj[i].kind \notin Mob,
         i # None
  PROVE  Unminded(w, i)
BY DEF Sane, Sound, Nearly, Minds, Unminded

\* A wall goes that is the turf of its tile, or whose place was taken.
LEMMA DeleteWallSane ==
  ASSUME NEW A, NEW U, NEW r, NEW w, NEW i \in DOMAIN w.obj, NEW t \in Tile, Sane(A, U \cup {i, t}, r, w),
         w.obj[i].kind \in Wall, w.obj[i].owner = t, A \subseteq {i}, i \in A => ~Is(w, w.turf[t], Wall),
         NEW v, v = DeleteObject(w, i)
  PROVE  Sane({}, U, r, v) /\ Deleted(w, i, v)
<1>1. PICK V, x : V = U \cup {i, t} /\ x = NotifyNeighborhood(w, i)
  OBVIOUS
<1>2. Sane(A, V, r, w) /\ i \in V /\ t \in V
  BY <1>1
<1>3. KindOf(w, i) = w.obj[i].kind /\ i # None /\ i \notin Tile
  BY <1>2, SaneForms
<1>4. v = Delete(x, i)
  BY <1>1, <1>3 DEF DeleteObject, Is
<1>5. Sane(A, V, r, x) /\ Only({"own"}, w, x) /\ Unknown(x, i, t)
  BY <1>1, <1>2, NotifySane
<1>6. x.obj = w.obj /\ x.turf = w.turf
  BY <1>5, SameFields
<1>7. w.obj[i].kind \notin Closet \cup {"human"} \cup Mob
  BY DEF Wall, Closet, Mob
<1>8. Unminded(x, i)
  BY <1>3, <1>5, <1>6, <1>7, MindsMobs
<1>9. i \notin A => x.turf[t] = i
  BY <1>2, <1>6, TurfHome DEF Wall, Turf
<1>10. i \in DOMAIN x.obj /\ x.obj[i].kind \notin Closet \cup {"human"} /\ x.obj[i].owner = t /\ x.obj[i].owner \in V
  BY <1>2, <1>6, <1>7
<1>11. /\ Sane(A \ {i}, V, r, v) /\ Deleted(x, i, v)
       /\ \A j \in DOMAIN x.obj : j # i => v.own[j] = x.own[j]
       /\ i \in A => v.turf = x.turf
       /\ x.turf[t] = i /\ i \notin A => v.turf[t] = None
  BY <1>4, <1>5, <1>8, <1>10, DeleteSane
<1>12. A \ {i} = {}
  OBVIOUS
<1>13. DOMAIN v.obj = (DOMAIN w.obj) \ {i} /\ \A j \in DOMAIN w.obj : j # i => v.obj[j] = w.obj[j]
  BY <1>6, <1>11 DEF Deleted
<1>14. Unknown(v, i, t)
  BY <1>5, <1>6, <1>11, <1>13 DEF Unknown
<1>15. ~Is(v, v.turf[t], Wall)
  <2>1. CASE i \in A
    <3>1. v.turf[t] = w.turf[t]
      BY <1>6, <1>11, <2>1
    <3>2. KindOf(v, v.turf[t]) \in {KindOf(w, w.turf[t]), "none"}
      BY <1>13, <3>1 DEF KindOf, IsValid
    <3> QED BY <2>1, <3>2 DEF Is, Wall
  <2>2. CASE i \notin A
    <3>1. v.turf[t] = None
      BY <1>9, <1>11, <2>2
    <3>2. None \notin DOMAIN v.obj
      BY <1>11, SaneForms
    <3> QED BY <3>1, <3>2 DEF Is, KindOf, IsValid, Hand, None, Wall
  <2> QED BY <2>1, <2>2
<1>16. Sane({}, U, r, v)
  BY <1>1, <1>3, <1>11, <1>12, <1>13, <1>14, <1>15, WallsLeft
<1>17. Deleted(w, i, v)
  <2>1. Only({"obj", "own", "content", "turf", "sum", "flags"}, w, v)
    BY <1>5, <1>11 DEF Deleted, Only
  <2> QED BY <1>13, <2>1 DEF Deleted
<1> QED BY <1>16, <1>17

-----------------------------------------------------------------------------
(* Creation.                                                               *)

\* What adding one id to a table gives.
LEMMA WithIs ==
  ASSUME NEW f, NEW i, NEW e
  PROVE  With(f, i, e) = [j \in (DOMAIN f) \cup {i} |-> IF j = i THEN e ELSE f[j]]
BY KeptIs DEF With

\* The common data of a new object.
LEMMA NewIs ==
  ASSUME NEW kind \in Kind
  PROVE  /\ New(kind) \in Object /\ New(kind).kind = kind /\ New(kind).owner = None /\ New(kind).last_move = 0
         /\ IsZero(New(kind).motion.force)
         /\ kind = "glassdoor" => New(kind).anchored
         /\ New(kind).pass["all"] = PassableAll(kind) /\ \A d \in Dir : New(kind).pass[d] = FULL
<1>1. PassableAll(kind) \in PassableLevel /\ FULL \in PassableLevel
  BY DEF PassableAll, PassableLevel
<1>2. PICK f : f = [v \in Way |-> IF v = "all" THEN PassableAll(kind) ELSE FULL]
  OBVIOUS
<1>3. f \in [Way -> PassableLevel] /\ f["all"] = PassableAll(kind) /\ \A d \in Dir : f[d] = FULL
  BY <1>1, <1>2 DEF Way, Dir
<1>4. New(kind).pass = f
  BY <1>2, KeptIs DEF New
<1>5. Rest \in Motion /\ IsZero(Rest.force)
  <2>1. 0 \in -(ERROR_SCALE \div 2) .. (3 * ERROR_SCALE) \div 2 /\ 0 \in 0 .. ERROR_SCALE
    BY DEF ERROR_SCALE
  <2>2. Zero \in Vector /\ "south" \in Dir
    BY VectorTypes DEF Dir
  <2> QED BY <2>1, <2>2 DEF Rest, Motion, IsZero, Zero
<1>6. "south" \in Dir /\ None \in Nat
  BY DEF Dir, None
<1>7. /\ New(kind).kind = kind /\ New(kind).owner = None /\ New(kind).dir = "south" /\ New(kind).motion = Rest
      /\ New(kind).last_move = 0 /\ New(kind).freq = 0
      /\ New(kind).anchored = (kind \in {"glassdoor", "girder", "lattice", "table"})
      /\ DOMAIN New(kind) = {"kind", "owner", "pass", "dir", "anchored", "motion", "last_move", "freq"}
  BY DEF New
<1>8. New(kind) \in Object
  <2>1. PICK p : p = New(kind).pass
    OBVIOUS
  <2>2. New(kind) = [kind |-> kind, owner |-> None, pass |-> p, dir |-> "south",
                     anchored |-> kind \in {"glassdoor", "girder", "lattice", "table"},
                     motion |-> Rest, last_move |-> 0, freq |-> 0]
    BY <2>1 DEF New
  <2> QED BY <1>3, <1>4, <1>5, <1>6, <2>1, <2>2 DEF Object
<1> QED BY <1>3, <1>4, <1>5, <1>7, <1>8

\* The own data of a new object.
LEMMA NewOwnFits ==
  ASSUME NEW w, w.last \in Nat, None \notin DOMAIN w.obj, NEW kind \in Kind
  PROVE  OwnFits(w, kind, NewOwn(kind))
<1>1. \A class : Refers(w, None, class)
  BY DEF Refers, IsValid, None
<1>2. kind = "human" =>
        /\ NewOwn(kind).slot \in [Slot -> Nat]
        /\ NewOwn(kind).active_hand \in {"right_hand", "left_hand"}
        /\ NewOwn(kind).pulled = None
  <2>1. SUFFICES ASSUME kind = "human"
                 PROVE  /\ NewOwn(kind).slot \in [Slot -> Nat]
                        /\ NewOwn(kind).active_hand \in {"right_hand", "left_hand"}
                        /\ NewOwn(kind).pulled = None
    OBVIOUS
  <2>2. NewOwn(kind) = NewHuman
    BY <2>1 DEF NewOwn, Closet, Breakable, Projectile, Gun, Wall
  <2>3. NewHuman.slot = [s \in Slot |-> None]
    BY KeptIs DEF NewHuman
  <2> QED BY <2>2, <2>3 DEF NewHuman, None
<1>3. kind \in Projectile =>
        NewOwn(kind).movement = <<>> /\ NewOwn(kind).step = 1
  BY DEF NewOwn, Closet, Breakable, Projectile, Gun, Wall
<1>4. kind = "opener" => NewOwn(kind).door = None
  BY DEF NewOwn, Closet, Breakable, Projectile, Gun, Wall
<1>5. kind \in Wall => NewOwn(kind).walls = {}
  BY DEF NewOwn, Closet, Breakable, Projectile, Gun, Wall
<1>6. <<>> \in Seq(Dir) /\ 1 \in Nat
  OBVIOUS
<1>7. PICK o : o = NewOwn(kind)
  OBVIOUS
<1> QED BY <1>1, <1>2, <1>3, <1>4, <1>5, <1>6, <1>7 DEF OwnFits

\* The new object, and nothing else is different.
OneMore(w, v, i, kind) ==
  /\ Only({"obj", "own", "content", "last"}, w, v)
  /\ i = w.last + 1 /\ v.last \in Nat /\ i <= v.last
  /\ v.obj = [j \in (DOMAIN w.obj) \cup {i} |-> IF j = i THEN New(kind) ELSE w.obj[j]]
  /\ v.own = [j \in (DOMAIN w.own) \cup {i} |-> IF j = i THEN NewOwn(kind) ELSE w.own[j]]
  /\ DOMAIN v.content = (DOMAIN w.content) \cup (IF kind \in Closet THEN {i} ELSE {})
  /\ kind \in Closet => v.content[i] = <<>>
  /\ \A c \in DOMAIN w.content : c # i => v.content[c] = w.content[c]

\* Allocate adds one new object and changes nothing else.
LEMMA AllocateIs ==
  ASSUME NEW A, NEW U, NEW r, NEW w, Sane(A, U, r, w), NEW kind, NEW v, v = Allocate(w, kind)
  PROVE  OneMore(w, v, NewId(w), kind)
<1>1. DOMAIN w = Members /\ w.last \in Nat
  BY SaneForms
<1>2. PICK i : i = NewId(w)
  OBVIOUS
<1>3. i = w.last + 1
  BY <1>2 DEF NewId
<1>4. /\ v.obj = With(w.obj, i, New(kind)) /\ v.own = With(w.own, i, NewOwn(kind))
      /\ v.content = IF kind \in Closet THEN With(w.content, i, <<>>) ELSE w.content
      /\ v.last = IF kind = "human" THEN i + 2 ELSE i
  BY <1>1, <1>2 DEF Allocate, Members
<1>5. Only({"obj", "own", "content", "last"}, w, v)
  BY <1>1, <1>2 DEF Allocate, Only, Members
<1>6. v.obj = [j \in (DOMAIN w.obj) \cup {i} |-> IF j = i THEN New(kind) ELSE w.obj[j]]
  BY <1>4, WithIs
<1>7. v.own = [j \in (DOMAIN w.own) \cup {i} |-> IF j = i THEN NewOwn(kind) ELSE w.own[j]]
  BY <1>4, WithIs
<1>8. /\ DOMAIN v.content = (DOMAIN w.content) \cup (IF kind \in Closet THEN {i} ELSE {})
      /\ kind \in Closet => v.content[i] = <<>>
      /\ \A c \in DOMAIN w.content : c # i => v.content[c] = w.content[c]
  <2>1. CASE kind \in Closet
    <3>1. v.content = [j \in (DOMAIN w.content) \cup {i} |-> IF j = i THEN <<>> ELSE w.content[j]]
      BY <1>4, <2>1, WithIs
    <3> QED BY <2>1, <3>1
  <2>2. CASE kind \notin Closet
    BY <1>4, <2>2
  <2> QED BY <2>1, <2>2
<1> QED BY <1>1, <1>2, <1>3, <1>4, <1>5, <1>6, <1>7, <1>8 DEF OneMore

\* The next id was never given: nothing refers to it.
LEMMA NewId_Fresh ==
  ASSUME NEW A, NEW U, NEW r, NEW w, Sane(A, U, r, w), NEW i, i = w.last + 1
  PROVE  /\ i \in Nat /\ i # None /\ i # Hand /\ i \notin Tile /\ i \notin DOMAIN w.obj /\ i \notin DOMAIN w.content
         /\ \A p \in Player : w.mind[p] # i
         /\ \A t \in Tile : w.turf[t] # i
<1>1. Counted(w) /\ Contents(w) /\ Minds(w) /\ OnTiles(A, w)
  BY DEF Sane, Sound, Nearly, Formed, Settled
<1>2. i \in Nat /\ i # None /\ i # Hand /\ i > w.last /\ Width * Height \in Int /\ i > Width * Height
  BY <1>1, MapAssumption DEF Counted, None, Hand
<1>3. i \notin Tile
  BY <1>2 DEF Tile
<1>4. i \notin DOMAIN w.obj
  BY <1>2, SaneForms
<1>5. i \notin DOMAIN w.content
  BY <1>1, <1>2, <1>3, <1>4 DEF Contents, Is, KindOf, IsValid, Closet
<1> QED BY <1>1, <1>2, <1>3, <1>4, <1>5 DEF Minds, OnTiles, Lies

\* A new object is all that is unsettled and unshaped.
LEMMA OneMoreSane ==
  ASSUME NEW A, NEW U, NEW r, NEW w, Sane(A, U, r, w), NEW kind \in Kind, NEW v, NEW i, OneMore(w, v, i, kind)
  PROVE  Sane(A \cup {i}, U \cup {i}, r, v)
<1>1. PICK B, V : B = A \cup {i} /\ V = U \cup {i}
  OBVIOUS
<1>2. Formed(w) /\ Settled(A, w) /\ Forces(w) /\ Sums(None, w) /\ Shapes(U, w) /\ Minds(w) /\ Walls(U, w)
  BY DEF Sane, Sound, Nearly
<1>3. DOMAIN w = Members /\ DOMAIN w.own = DOMAIN w.obj /\ w.last \in Nat /\ w.tick \in Nat
  BY SaneForms
<1>4. /\ Only({"obj", "own", "content", "last"}, w, v) /\ i = w.last + 1 /\ v.last \in Nat /\ i <= v.last
  BY DEF OneMore
<1>5. /\ v.turf = w.turf /\ v.sum = w.sum /\ v.flags = w.flags /\ v.tick = w.tick
      /\ v.list = w.list /\ v.to_add = w.to_add /\ v.under_force = w.under_force
      /\ v.chance = w.chance /\ v.mind = w.mind /\ v.music = w.music /\ DOMAIN v = Members
  BY <1>4, SameFields
<1>6. /\ DOMAIN v.obj = (DOMAIN w.obj) \cup {i} /\ v.obj = [j \in DOMAIN v.obj |-> v.obj[j]]
      /\ DOMAIN v.own = DOMAIN v.obj /\ v.own = [j \in DOMAIN v.obj |-> v.own[j]]
      /\ v.obj[i] = New(kind) /\ v.own[i] = NewOwn(kind)
  BY <1>3 DEF OneMore
<1>7. i \in Nat /\ i # None /\ i # Hand /\ i \notin Tile /\ i \notin DOMAIN w.obj /\ i \notin DOMAIN w.content
  BY <1>4, NewId_Fresh
<1>8. \A j \in DOMAIN w.obj : v.obj[j] = w.obj[j] /\ v.own[j] = w.own[j]
  BY <1>3, <1>7 DEF OneMore
<1>9. /\ DOMAIN v.content = (DOMAIN w.content) \cup (IF kind \in Closet THEN {i} ELSE {})
      /\ kind \in Closet => v.content[i] = <<>>
      /\ \A c \in DOMAIN w.content : v.content[c] = w.content[c]
  BY <1>7 DEF OneMore
<1>10. \A j : j # i => KindOf(v, j) = KindOf(w, j)
  BY <1>6, <1>8 DEF KindOf, IsValid
<1>11. KindOf(v, i) = kind
  BY <1>6, <1>7, NewIs DEF KindOf, IsValid
<1>12. w.last < v.last /\ w.last < i
  BY <1>3, <1>4
<1>13. Formed(v)
  <2>1. Counted(v)
    BY <1>2, <1>4, <1>5, <1>12, MapAssumption DEF Formed, Counted
  <2>2. Grid(v)
    BY <1>2, <1>5 DEF Formed, Grid
  <2>3. Queues(v)
    <3>1. 1 .. w.last \subseteq 1 .. v.last
      BY <1>3, <1>4, <1>12
    <3>2. ASSUME NEW s \in Seq(1 .. w.last) PROVE s \in Seq(1 .. v.last)
      <4>1. PICK S, T : S = 1 .. w.last /\ T = 1 .. v.last
        OBVIOUS
      <4>2. s \in Seq(S) /\ S \subseteq T
        BY <3>1, <4>1
      <4>3. s \in Seq(T)
        BY <4>2
      <4> QED BY <4>1, <4>3
    <3> QED BY <1>2, <1>5, <3>2 DEF Formed, Queues
  <2>4. Objects(v)
    <3>1. ASSUME NEW j \in DOMAIN w.obj
          PROVE /\ j \in Width * Height + 1 .. v.last /\ v.obj[j] \in Object /\ v.obj[j].last_move <= v.tick
                /\ v.obj[j].kind = "glassdoor" => v.obj[j].anchored
      <4>1. j \in Width * Height + 1 .. w.last
        BY <1>2, <3>1 DEF Formed, Objects
      <4> QED BY <1>2, <1>3, <1>4, <1>5, <1>8, <1>12, <3>1, <4>1, MapAssumption DEF Formed, Objects
    <3>2. /\ i \in Width * Height + 1 .. v.last /\ v.obj[i] \in Object /\ v.obj[i].last_move <= v.tick
          /\ v.obj[i].kind = "glassdoor" => v.obj[i].anchored
      <4>1. i \in Width * Height + 1 .. v.last
        BY <1>2, <1>3, <1>4, MapAssumption DEF Formed, Counted
      <4> QED BY <1>3, <1>5, <1>6, <4>1, NewIs
    <3> QED BY <1>6, <3>1, <3>2 DEF Objects
  <2>5. Owned(v)
    <3>1. None \notin DOMAIN v.obj
      BY <1>6, <1>7, SaneForms
    <3>2. OwnFits(v, v.obj[i].kind, v.own[i])
      BY <1>4, <1>6, <3>1, NewIs, NewOwnFits
    <3>3. ASSUME NEW j \in DOMAIN w.obj PROVE OwnFits(v, v.obj[j].kind, v.own[j])
      <4>1. ASSUME NEW n, NEW class, Refers(w, n, class) PROVE Refers(v, n, class)
        <5>1. n \in 0 .. w.last /\ n # i
          BY <1>3, <1>12, <4>1 DEF Refers
        <5>2. n \in 0 .. v.last
          BY <1>3, <1>4, <1>12, <5>1
        <5>3. n \in DOMAIN v.obj => n \in DOMAIN w.obj /\ v.obj[n] = w.obj[n]
          BY <1>6, <1>8, <5>1
        <5> QED BY <4>1, <5>2, <5>3 DEF Refers, IsValid
      <4>2. OwnFits(w, w.obj[j].kind, w.own[j])
        BY <1>2, <3>3 DEF Formed, Owned
      <4> QED BY <1>8, <3>3, <4>1, <4>2 DEF OwnFits
    <3> QED BY <1>6, <3>2, <3>3 DEF Owned
  <2>6. Contents(v)
    <3>1. ASSUME NEW c \in DOMAIN v.content PROVE (c \in Tile \/ Is(v, c, Closet)) /\ v.content[c] \in Seq(Nat)
      <4>1. CASE c \in DOMAIN w.content
        <5>1. (c \in Tile \/ Is(w, c, Closet)) /\ w.content[c] \in Seq(Nat) /\ c # i
          BY <1>2, <1>7, <4>1 DEF Formed, Contents
        <5>2. Is(w, c, Closet) => Is(v, c, Closet)
          BY <1>10, <5>1 DEF Is
        <5> QED BY <1>9, <4>1, <5>1, <5>2
      <4>2. CASE c \notin DOMAIN w.content
        <5>1. c = i /\ kind \in Closet
          BY <1>9, <3>1, <4>2
        <5>2. Is(v, c, Closet)
          BY <1>11, <5>1 DEF Is
        <5>3. v.content[c] = <<>>
          BY <1>9, <5>1
        <5> QED BY <5>2, <5>3
      <4> QED BY <4>1, <4>2
    <3>2. \A t \in Tile : t \in DOMAIN v.content
      BY <1>2, <1>9 DEF Formed, Contents
    <3>3. ASSUME NEW j \in DOMAIN v.obj, v.obj[j].kind \in Closet PROVE j \in DOMAIN v.content
      <4>1. CASE j = i
        BY <1>6, <1>9, <3>3, <4>1, NewIs
      <4>2. CASE j # i
        <5>1. j \in DOMAIN w.obj
          BY <1>6, <3>3, <4>2
        <5> QED BY <1>2, <1>8, <1>9, <3>3, <5>1 DEF Formed, Contents
      <4> QED BY <4>1, <4>2
    <3> QED BY <3>1, <3>2, <3>3 DEF Contents
  <2> QED BY <2>1, <2>2, <2>3, <2>4, <2>5, <2>6 DEF Formed
<1>14. \A j, c, class : Lies(A, w, j, c, class) => Lies(B, v, j, c, class)
  BY <1>1, <1>6, <1>7, <1>8 DEF Lies
<1>15. Settled(B, v)
  <2>1. OnTiles(B, v)
    BY <1>2, <1>5, <1>14 DEF Settled, OnTiles
  <2>2. InContents(B, v)
    <3> SUFFICES ASSUME NEW c \in DOMAIN v.content
                 PROVE  /\ \A n \in 1 .. Len(v.content[c]) : Lies(B, v, v.content[c][n], c, Suits(c))
                        /\ \A m, n \in 1 .. Len(v.content[c]) : v.content[c][m] = v.content[c][n] => m = n
      BY DEF InContents
    <3>1. CASE c \in DOMAIN w.content
      BY <1>2, <1>9, <1>14, <3>1 DEF Settled, InContents
    <3>2. CASE c \notin DOMAIN w.content
      <4>1. v.content[c] = <<>>
        BY <1>9, <3>2
      <4>2. Len(v.content[c]) = 0
        BY <4>1
      <4>3. 1 .. Len(v.content[c]) = {}
        BY <4>2
      <4> QED BY <4>3
    <3> QED BY <3>1, <3>2
  <2>3. InSlots(B, v)
    <3> SUFFICES ASSUME NEW h \in DOMAIN v.obj, v.obj[h].kind = "human"
                 PROVE  /\ \A s \in Slot : v.own[h].slot[s] # None => Lies(B, v, v.own[h].slot[s], h, Item)
                        /\ \A s, u \in Slot : v.own[h].slot[s] = v.own[h].slot[u] /\ v.own[h].slot[s] # None => s = u
      BY DEF InSlots
    <3>1. CASE h # i
      <4>1. h \in DOMAIN w.obj
        BY <1>6, <3>1
      <4> QED BY <1>2, <1>8, <1>14, <4>1 DEF Settled, InSlots
    <3>2. CASE h = i
      <4>1. kind = "human"
        BY <1>6, <3>2, NewIs
      <4>2. NewOwn(kind) = NewHuman
        BY <4>1 DEF NewOwn, Closet, Breakable, Projectile, Gun, Wall
      <4>3. NewHuman.slot = [s \in Slot |-> None]
        BY KeptIs DEF NewHuman
      <4> QED BY <1>6, <3>2, <4>2, <4>3
    <3> QED BY <3>1, <3>2
  <2>4. Homed(B, v)
    <3> SUFFICES ASSUME NEW j \in DOMAIN v.obj, j \notin B
                 PROVE  /\ v.obj[j].owner # None => Has(v, v.obj[j].owner, j)
                        /\ v.obj[j].kind \in Rooted => v.obj[j].owner \in Tile
      BY DEF Homed
    <3>1. j \in DOMAIN w.obj /\ j # i /\ j \notin A /\ v.obj[j] = w.obj[j]
      BY <1>1, <1>6, <1>8
    <3>2. PICK c : c = w.obj[j].owner
      OBVIOUS
    <3>3. /\ c # None => Has(w, c, j)
          /\ v.obj[j].kind \in Rooted => c \in Tile
      BY <1>2, <3>1, <3>2 DEF Settled, Homed
    <3>4. ASSUME Has(w, c, j) PROVE Has(v, c, j)
      <4>1. CASE c \in Tile
        <5>1. c \in DOMAIN w.content
          BY <1>2, <4>1 DEF Formed, Contents
        <5> QED BY <1>5, <1>9, <3>4, <4>1, <5>1 DEF Has
      <4>2. CASE c \notin Tile
        <5>1. Is(w, c, Closet) \/ Is(w, c, {"human"})
          BY <3>4, <4>2 DEF Has
        <5>2. c # i /\ c \in DOMAIN w.obj
          BY <1>7, <5>1 DEF Is, KindOf, IsValid, Closet
        <5>3. Is(w, c, Closet) <=> Is(v, c, Closet)
          BY <1>10, <5>2 DEF Is
        <5>4. Is(w, c, {"human"}) <=> Is(v, c, {"human"})
          BY <1>10, <5>2 DEF Is
        <5>5. v.own[c] = w.own[c]
          BY <1>8, <5>2
        <5>6. Is(w, c, Closet) => c \in DOMAIN w.content
          BY <1>2, <5>2 DEF Formed, Contents, Is, KindOf, IsValid, Closet, Hand
        <5> QED BY <1>9, <3>4, <4>2, <5>3, <5>4, <5>5, <5>6 DEF Has, SlotsOf
      <4> QED BY <4>1, <4>2
    <3> QED BY <3>1, <3>2, <3>3, <3>4
  <2> QED BY <2>1, <2>2, <2>3, <2>4 DEF Settled
<1>16. Forces(v)
  <2>1. IsZero(v.obj[i].motion.force)
    BY <1>6, NewIs
  <2>2. \A j \in DOMAIN v.obj : j = i \/ (j \in DOMAIN w.obj /\ v.obj[j] = w.obj[j])
    BY <1>6, <1>8
  <2> QED BY <1>2, <1>5, <2>1, <2>2 DEF Forces
<1>17. Sums(None, v)
  <2> SUFFICES ASSUME NEW u \in Tile PROVE SumAt(v, u)
    BY DEF Sums
  <2>1. SumAt(w, u)
    BY <1>2, NoneIsNoTile DEF Sums
  <2>2. \A j \in Standing(w, u) : v.obj[j] = w.obj[j]
    <3> SUFFICES ASSUME NEW j \in Standing(w, u) PROVE v.obj[j] = w.obj[j]
      OBVIOUS
    <3>1. j \in DOMAIN w.obj
      BY <1>2, StandingLies DEF Formed
    <3> QED BY <1>8, <3>1
  <2>3. v.content[u] = w.content[u]
    BY <1>2, <1>9 DEF Formed, Contents
  <2> QED BY <1>5, <2>1, <2>2, <2>3, SumAtSame
<1>18. Shapes(V, v)
  BY <1>1, <1>2, <1>6, <1>8 DEF Shapes, Shaped
<1>19. Minds(v)
  <2>1. \A j \in DOMAIN w.obj : w.obj[j].kind \in Mob /\ (\E p \in Player : w.mind[p] = j) =>
           /\ j \in DOMAIN v.obj /\ v.obj[j].kind = w.obj[j].kind
           /\ w.obj[j].kind = "human" /\ v.own[j].dead => w.own[j].dead
    BY <1>6, <1>8
  <2> QED BY <1>2, <1>5, <2>1, MindsSame
<1>20. Walls(V, v)
  <2> SUFFICES ASSUME NEW j \in DOMAIN v.obj, j \notin V, v.obj[j].kind \in Wall, NEW d \in Dir,
                      IsInside(v.obj[j].owner, d), Neighbour(v.obj[j].owner, d) \notin V
               PROVE  Knows(v, j, d)
    BY DEF Walls
  <2>1. j \in DOMAIN w.obj /\ j \notin U /\ v.obj[j] = w.obj[j] /\ v.own[j] = w.own[j]
    BY <1>1, <1>6, <1>8
  <2>2. Neighbour(v.obj[j].owner, d) \notin U
    BY <1>1
  <2>3. Knows(w, j, d)
    BY <1>2, <2>1, <2>2 DEF Walls
  <2>4. Neighbour(w.obj[j].owner, d) \in Tile
    BY <2>1, NeighbourIsTile DEF IsInside
  <2>5. w.turf[Neighbour(w.obj[j].owner, d)] # i
    BY <1>4, <2>4, NewId_Fresh
  <2>6. WallAt(v, j, d) = WallAt(w, j, d)
    BY <1>5, <1>10, <2>1, <2>5 DEF WallAt, Owner, Is
  <2> QED BY <2>1, <2>3, <2>6 DEF Knows
<1>21. Since(w, v)
  <2>1. Since(w, w)
    BY <1>2, SinceSelf DEF Formed
  <2>2. \A j \in DOMAIN v.obj : j \in DOMAIN w.obj \/ j > w.last
    BY <1>6, <1>12
  <2>3. \A j \in DOMAIN w.obj : j \in DOMAIN v.obj
    BY <1>6
  <2>4. Remains(w, v)
    <3>1. w.last <= v.last
      BY <1>3, <1>4, <1>12
    <3>2. Remains(w, w)
      BY <2>1 DEF Since
    <3> QED BY <1>5, <1>8, <2>2, <2>3, <3>1, <3>2 DEF Remains, Waiting
  <2> QED BY <1>5, <1>8, <2>1, <2>3, <2>4 DEF Since, Moves
<1>22. Sound(B, V, v)
  BY <1>13, <1>15, <1>16, <1>17, <1>18, <1>19, <1>20 DEF Sound, Nearly
<1> QED BY <1>1, <1>21, <1>22, SaneStep

\* A new object fits its shape, but for walls and glass.
LEMMA NewShaped ==
  ASSUME NEW w, NEW i, NEW kind \in Kind, kind \notin Wall \cup {"glass", "glassdoor"},
         w.obj[i] = New(kind), w.own[i] = NewOwn(kind)
  PROVE  Shaped(w, i)
<1>1. New(kind).kind = kind /\ New(kind).pass["all"] = PassableAll(kind)
  BY NewIs
<1>2. /\ kind = "door" => PassableAll(kind) = EMPTY
      /\ kind \in Closet \cup {"grille"} => PassableAll(kind) = AIR
      /\ kind = "human" => PassableAll(kind) = BIG_ITEM
  BY DEF PassableAll, Wall, Closet
<1>3. ASSUME kind = "door" PROVE NewOwn(kind).state = "closed"
  <2>1. PICK e : e = [state |-> "closed", last_tick |-> 0]
    OBVIOUS
  <2>2. NewOwn(kind) = e
    BY <1>3, <2>1 DEF NewOwn, Closet, Breakable, Projectile, Gun, Wall
  <2> QED BY <2>1, <2>2
<1>4. ASSUME kind \in Closet PROVE NewOwn(kind).open = FALSE
  <2>1. PICK e : e = [open |-> FALSE, locked |-> kind = "locker"]
    OBVIOUS
  <2>2. NewOwn(kind) = e
    BY <1>4, <2>1 DEF NewOwn, Closet, Breakable, Projectile, Gun, Wall
  <2> QED BY <2>1, <2>2
<1>5. ASSUME kind = "grille" PROVE NewOwn(kind).cutted = FALSE
  <2>1. PICK e : e = [hit_points |-> 15, cutted |-> FALSE]
    OBVIOUS
  <2>2. NewOwn(kind) = e
    BY <1>5, <2>1 DEF NewOwn, Closet, Breakable, Projectile, Gun, Wall
  <2> QED BY <2>1, <2>2
<1>9. ASSUME kind = "human" PROVE NewOwn(kind).lying = FALSE
  BY <1>9 DEF NewOwn, Wall, Closet, Breakable, Projectile, Gun, NewHuman
<1>6. PICK pass : pass = New(kind).pass
  OBVIOUS
<1>7. PICK own : own = NewOwn(kind)
  OBVIOUS
<1>8. ShapeFits(kind, pass, w.obj[i].dir, own)
  BY <1>1, <1>2, <1>3, <1>4, <1>5, <1>6, <1>7, <1>9 DEF ShapeFits, Closet
<1> QED BY <1>1, <1>6, <1>7, <1>8 DEF Shaped

\* What is owned by nothing is where it should be.
LEMMA AtLarge ==
  ASSUME NEW U, NEW r, NEW w, NEW i, Sane({i}, U, r, w), i \in DOMAIN w.obj,
         w.obj[i].owner = None, w.obj[i].kind \notin Rooted
  PROVE  Sane({}, U, r, w)
<1>1. PICK B : B = {i}
  OBVIOUS
<1>2. PICK N : N = {}
  OBVIOUS
<1>3. Settled(B, w)
  BY <1>1 DEF Sane, Sound, Nearly
<1>4. \A j, c, class : Lies(B, w, j, c, class) => Lies(N, w, j, c, class)
  BY <1>2 DEF Lies
<1>5. OnTiles(N, w) /\ InContents(N, w) /\ InSlots(N, w)
  BY <1>3, <1>4 DEF Settled, OnTiles, InContents, InSlots
<1>6. Homed(N, w)
  BY <1>1, <1>3 DEF Settled, Homed
<1>7. Settled(N, w)
  BY <1>5, <1>6 DEF Settled
<1>8. Sound(N, U, w)
  BY <1>7 DEF Sane, Sound, Nearly
<1> QED BY <1>2, <1>8 DEF Sane

\* Allocate keeps the invariant but for the new object.
LEMMA AllocateSane ==
  ASSUME NEW U, NEW r, NEW w, Sane({}, U, r, w), NEW kind \in Kind, NEW i, i = NewId(w), NEW v, v = Allocate(w, kind)
  PROVE  /\ OneMore(w, v, i, kind) /\ Sane({i}, U \cup {i}, r, v)
         /\ kind \notin Wall \cup {"glass", "glassdoor"} => Sane({i}, U, r, v)
<1>1. PICK N : N = {}
  OBVIOUS
<1>2. Sane(N, U, r, w)
  BY <1>1
<1>3. OneMore(w, v, i, kind)
  BY <1>2, AllocateIs
<1>4. N \cup {i} = {i}
  BY <1>1
<1>5. Sane({i}, U \cup {i}, r, v)
  BY <1>2, <1>3, <1>4, OneMoreSane
<1>6. i \in DOMAIN v.obj /\ v.obj[i] = New(kind)
  BY <1>3 DEF OneMore
<1>7. DOMAIN w.own = DOMAIN w.obj
  BY <1>2, SaneForms
<1>8. v.own[i] = NewOwn(kind)
  BY <1>3 DEF OneMore
<1>9. ASSUME kind \notin Wall \cup {"glass", "glassdoor"} PROVE Sane({i}, U, r, v)
  <2>1. Shaped(v, i)
    BY <1>6, <1>8, <1>9, NewShaped
  <2>2. v.obj[i].kind \notin Wall
    BY <1>6, <1>9, NewIs
  <2>3. PICK B : B = {i}
    OBVIOUS
  <2>4. Sane(B, U \cup {i}, r, v)
    BY <1>5, <2>3
  <2> QED BY <1>6, <2>1, <2>2, <2>3, <2>4, StraightSane
<1> QED BY <1>3, <1>5, <1>9

\* The new object, wherever it was put, and nothing else is different.
Gained(w, v, i, kind) ==
  /\ Only({"obj", "own", "content", "last", "sum", "flags", "failed", "list"}, w, v)
  /\ i = w.last + 1 /\ DOMAIN v.obj = (DOMAIN w.obj) \cup {i}
  /\ \A j \in DOMAIN w.obj : v.obj[j] = w.obj[j] /\ v.own[j] = w.own[j]
  /\ v.obj[i].kind = kind /\ v.own[i] = NewOwn(kind) /\ v.obj[i].dir = "south"

\* The new object belongs to nobody, and nothing else was touched.
LEMMA AllocatedGained ==
  ASSUME NEW U, NEW r, NEW w, Sane({}, U, r, w), NEW kind \in Kind, NEW i, NEW v, OneMore(w, v, i, kind)
  PROVE  Gained(w, v, i, kind) /\ v.obj[i].owner = None
<1>1. PICK N : N = {}
  OBVIOUS
<1>2. Sane(N, U, r, w)
  BY <1>1
<1>3. i \notin DOMAIN w.obj /\ DOMAIN w.own = DOMAIN w.obj
  BY <1>2, NewId_Fresh, SaneForms DEF OneMore
<1>4. New(kind).kind = kind /\ New(kind).owner = None /\ New(kind).dir = "south"
  BY NewIs DEF New
<1>5. /\ DOMAIN v.obj = (DOMAIN w.obj) \cup {i} /\ v.obj[i] = New(kind) /\ v.own[i] = NewOwn(kind)
      /\ \A j \in DOMAIN w.obj : v.obj[j] = w.obj[j] /\ v.own[j] = w.own[j]
  BY <1>3 DEF OneMore
<1>6. Only({"obj", "own", "content", "last", "sum", "flags", "failed", "list"}, w, v)
  BY DEF OneMore, Only
<1>7. i = w.last + 1
  BY DEF OneMore
<1> QED BY <1>4, <1>5, <1>6, <1>7 DEF Gained

\* What is put somewhere changes its owner only.
LEMMA GainedPut ==
  ASSUME NEW w, NEW v, NEW i, NEW kind, Gained(w, v, i, kind), i \notin DOMAIN w.obj, Objects(v), NEW y, NEW c,
         Only({"obj", "content", "sum", "flags"}, v, y), y.obj = OwnerSet(v, i, c)
  PROVE  Gained(w, y, i, kind)
<1>0. i \in DOMAIN v.obj
  BY DEF Gained
<1>1. /\ DOMAIN OwnerSet(v, i, c) = DOMAIN v.obj
      /\ \A j \in DOMAIN v.obj : j # i => OwnerSet(v, i, c)[j] = v.obj[j]
  BY <1>0, OwnerSetIs
<1>2. OwnerSet(v, i, c)[i].kind = v.obj[i].kind /\ OwnerSet(v, i, c)[i].dir = v.obj[i].dir
  BY <1>0, OwnerSetIs
<1>3. y.own = v.own
  BY SameFields
<1>4. Only({"obj", "own", "content", "last", "sum", "flags", "failed", "list"}, w, y)
  BY DEF Gained, Only
<1> QED BY <1>1, <1>2, <1>3, <1>4 DEF Gained

\* SetFreq does not change what was gained.
LEMMA GainedFreq ==
  ASSUME NEW w, NEW v, NEW i, NEW kind, Gained(w, v, i, kind), i \notin DOMAIN w.obj, DOMAIN v = Members, Objects(v), NEW freq
  PROVE  Gained(w, SetFreq(v, i, freq), i, kind)
<1>1. PICK y : y = SetFreq(v, i, freq)
  OBVIOUS
<1>2. Only({"obj", "list"}, v, y)
  BY <1>1 DEF SetFreq, Only, Members
<1>3. y.obj = [v.obj EXCEPT ![i] = [v.obj[i] EXCEPT !.freq = freq]]
  BY <1>1 DEF SetFreq, Members
<1>4. y.own = v.own
  BY <1>2, SameFields
<1>5. Only({"obj", "own", "content", "last", "sum", "flags", "failed", "list"}, w, y)
  BY <1>2 DEF Gained, Only
<1>6. /\ DOMAIN y.obj = DOMAIN v.obj /\ \A j \in DOMAIN v.obj : j # i => y.obj[j] = v.obj[j]
      /\ y.obj[i].kind = v.obj[i].kind /\ y.obj[i].dir = v.obj[i].dir
  <2>1. i \in DOMAIN v.obj /\ v.obj[i] \in Object
    BY DEF Gained, Objects
  <2>2. PICK o : o = [v.obj[i] EXCEPT !.freq = freq]
    OBVIOUS
  <2>3. o.kind = v.obj[i].kind /\ o.dir = v.obj[i].dir
    BY <2>1, <2>2 DEF Object
  <2> QED BY <1>3, <2>1, <2>2, <2>3
<1> QED BY <1>1, <1>4, <1>5, <1>6 DEF Gained

\* Put is what was put.
PutOr(w, i, v) == v = w \/ v = Fail(w, "AddItem failed") \/ \E c : Stored(w, i, c, v)

\* A new object that is added to a container is settled.
LEMMA AddedSane ==
  ASSUME NEW U, NEW r, NEW w, NEW i \in DOMAIN w.obj, Sane({i}, U, r, w),
         w.obj[i].owner = None, NEW c, c \in Tile \/ Is(w, c, Closet), w.obj[i].kind \in Suits(c),
         NEW v, v = AddTo(w, c, i)
  PROVE  Sane({}, U, r, v) /\ Stored(w, i, c, v)
<1>1. PICK B : B = {i}
  OBVIOUS
<1>2. Sound(B, U, w) /\ Sane(B, U, r, w) /\ i \in B
  BY <1>1 DEF Sane
<1>3. B \ {i} = {}
  BY <1>1
<1>4. Sound(B \ {i}, U, v) /\ Stored(w, i, c, v)
  BY <1>2, AddToSound
<1>5. Formed(w) /\ w.obj[i].owner \notin Tile
  BY <1>2, SaneForms, NoneIsNoTile
<1>6. Only({"obj", "content", "turf", "sum", "flags"}, w, v)
  BY <1>4 DEF Stored, Only
<1>7. Since(w, v)
  BY <1>4, <1>5, <1>6, OwnerSince DEF Stored
<1>8. Sane(B \ {i}, U, r, v)
  BY <1>2, <1>4, <1>7, SaneStep
<1> QED BY <1>3, <1>4, <1>8

\* The same, with nowhere as a place.
LEMMA PlacedSane ==
  ASSUME NEW U, NEW r, NEW w, NEW i \in DOMAIN w.obj, Sane({i}, U, r, w),
         w.obj[i].owner = None, w.obj[i].kind \notin Turf, NEW owner, owner \in Tile \/ w.obj[i].kind \notin Rooted,
         NEW v, v = Placed(w, i, owner)
  PROVE  Sane({}, U, r, v) /\ PutOr(w, i, v)
<1>1. PICK B : B = {i}
  OBVIOUS
<1>2. Sane(B, U, r, w)
  BY <1>1
<1>3. KindOf(w, i) = w.obj[i].kind /\ w.obj[i].kind \in Kind
  BY <1>2, SaneForms DEF Object
<1>4. ~Is(w, i, Turf)
  BY <1>3 DEF Is
<1>5. CASE owner \notin Tile /\ ~IsValid(w, owner)
  <2>1. v = w
    BY <1>5 DEF Placed
  <2>2. w.obj[i].kind \notin Rooted
    BY <1>5
  <2> QED BY <2>1, <2>2, AtLarge DEF PutOr
<1>6. CASE (owner \in Tile \/ IsValid(w, owner)) /\ Takes(w, owner, i)
  <2>1. PICK c : c = Container(w, owner)
    OBVIOUS
  <2>2. v = AddTo(w, c, i)
    BY <1>4, <1>6, <2>1 DEF Placed, AddObject
  <2>3. c \in Tile \/ (Is(w, c, Closet) /\ Is(w, i, Item \cup {"human"}))
    BY <1>6, <2>1 DEF Takes
  <2>4. w.obj[i].kind \in Suits(c)
    BY <1>3, <2>3 DEF Suits, Is
  <2>5. c \in Tile \/ Is(w, c, Closet)
    BY <2>3
  <2>6. Sane({}, U, r, v) /\ Stored(w, i, c, v)
    BY <2>2, <2>4, <2>5, AddedSane
  <2> QED BY <2>6 DEF PutOr
<1>7. CASE (owner \in Tile \/ IsValid(w, owner)) /\ ~Takes(w, owner, i)
  <2>1. v = Fail(w, "AddItem failed")
    BY <1>4, <1>7 DEF Placed
  <2>2. owner \notin Tile
    BY <1>7 DEF Takes, Container
  <2>3. w.obj[i].kind \notin Rooted
    BY <2>2
  <2>4. PICK N : N = {}
    OBVIOUS
  <2>5. Sane(N, U, r, w)
    BY <2>3, <2>4, AtLarge
  <2>6. Sane(N, U, r, v)
    BY <2>1, <2>5, FailSane
  <2> QED BY <2>1, <2>4, <2>6 DEF PutOr
<1> QED BY <1>5, <1>6, <1>7

\* It is still the one object gained.
LEMMA PutGained ==
  ASSUME NEW w, NEW v, NEW i, NEW kind, Gained(w, v, i, kind), i \notin DOMAIN w.obj, Objects(v), DOMAIN v = Members,
         NEW y, PutOr(v, i, y)
  PROVE  Gained(w, y, i, kind)
<1>1. CASE y = v
  BY <1>1
<1>2. CASE y = Fail(v, "AddItem failed")
  <2>1. Only({"failed"}, v, y)
    BY <1>2 DEF Fail, Only, Members
  <2>2. y.obj = v.obj /\ y.own = v.own
    BY <2>1, SameFields
  <2> QED BY <2>1, <2>2 DEF Gained, Only
<1>3. CASE \E c : Stored(v, i, c, y)
  BY <1>3, GainedPut DEF Stored
<1> QED BY <1>1, <1>2, <1>3 DEF PutOr

\* Classes of objects that come into the game without a word with their neighbours.
Plain(kind) == kind \in Kind /\ kind \notin Rooted \cup {"glass", "glassdoor"}
PlainAt(kind, owner) == Plain(kind) \/ (kind \in Projectile /\ owner \in Tile)

\* The start of what is no wall or glass keeps the invariant.
LEMMA BegunSane ==
  ASSUME NEW U, NEW r, NEW w, Sane({}, U, r, w), NEW i \in DOMAIN w.obj, Plain(w.obj[i].kind) \/ w.obj[i].kind \in Projectile,
         NEW v, v = AfterWorldCreation(w, i)
  PROVE  Sane({}, U, r, v) /\ (v = w \/ \E freq \in Nat : v = SetFreq(w, i, freq))
<1>1. PICK N : N = {}
  OBVIOUS
<1>2. Sane(N, U, r, w)
  BY <1>1
<1>3. KindOf(w, i) = w.obj[i].kind
  BY <1>2, SaneForms
<1>4. v = w \/ v = SetFreq(w, i, 1) \/ v = SetFreq(w, i, SLOW_FREQ)
  BY <1>3 DEF AfterWorldCreation, Plain, Rooted, Turf, Projectile, Wall, Closet
<1>5. 1 \in Nat /\ SLOW_FREQ \in Nat
  BY MovablesAssumption
<1>6. \E freq \in Nat : v = w \/ v = SetFreq(w, i, freq)
  BY <1>4, <1>5
<1>7. PICK freq \in Nat : v = w \/ v = SetFreq(w, i, freq)
  BY <1>6
<1>8. Sane(N, U, r, SetFreq(w, i, freq))
  BY <1>2, SetFreqSane
<1> QED BY <1>1, <1>2, <1>7, <1>8

\* Create keeps the invariant.
LEMMA CreateSane ==
  ASSUME NEW U, NEW r, NEW w, Sane({}, U, r, w), NEW kind, NEW owner, PlainAt(kind, owner), NEW i, i = NewId(w),
         NEW v, v = Create(w, kind, owner)
  PROVE  Sane({}, U, r, v) /\ Gained(w, v, i, kind)
<1>1. PICK x : x = Allocate(w, kind)
  OBVIOUS
<1>2. PICK y : y = Placed(x, i, owner)
  OBVIOUS
<1>3. /\ kind \in Kind /\ kind \notin Wall \cup {"glass", "glassdoor"} /\ kind \notin Turf
      /\ owner \in Tile \/ kind \notin Rooted
      /\ Plain(kind) \/ kind \in Projectile
  BY DEF PlainAt, Plain, Rooted, Turf, Projectile, Wall, Closet, Kind, Movable
<1>4. OneMore(w, x, i, kind) /\ Sane({i}, U, r, x)
  BY <1>1, <1>3, AllocateSane
<1>5. Gained(w, x, i, kind) /\ x.obj[i].owner = None
  BY <1>3, <1>4, AllocatedGained
<1>6. i \in DOMAIN x.obj /\ x.obj[i].kind = kind
  BY <1>5 DEF Gained
<1>7. Sane({}, U, r, y) /\ PutOr(x, i, y)
  BY <1>2, <1>3, <1>4, <1>5, <1>6, PlacedSane
<1>8. PICK N : N = {}
  OBVIOUS
<1>9. PICK B : B = {i}
  OBVIOUS
<1>10. Sane(N, U, r, w) /\ Sane(N, U, r, y) /\ Sane(B, U, r, x)
  BY <1>4, <1>7, <1>8, <1>9
<1>11. i \notin DOMAIN w.obj
  BY <1>10, NewId_Fresh DEF NewId
<1>12. Objects(x) /\ DOMAIN x = Members /\ Objects(y) /\ DOMAIN y = Members
  BY <1>10, SaneForms DEF Formed
<1>13. Gained(w, y, i, kind)
  BY <1>5, <1>7, <1>11, <1>12, PutGained
<1>14. i \in DOMAIN y.obj /\ y.obj[i].kind = kind
  BY <1>13 DEF Gained
<1>15. v = AfterWorldCreation(y, i)
  BY <1>1, <1>2 DEF Create
<1>16. Sane({}, U, r, v) /\ (v = y \/ \E freq \in Nat : v = SetFreq(y, i, freq))
  BY <1>3, <1>7, <1>14, <1>15, BegunSane
<1> QED BY <1>11, <1>12, <1>13, <1>16, GainedFreq

-----------------------------------------------------------------------------
(* Operations of the game, on a world that is sound.                       *)

Nil == {}
Good(r, w) == Sane(Nil, Nil, r, w)

\* The types a good world gives.
LEMMA GoodForms ==
  ASSUME NEW r, NEW w, Good(r, w)
  PROVE  /\ Formed(w) /\ DOMAIN w = Members /\ DOMAIN w.own = DOMAIN w.obj
         /\ w.tick \in Nat /\ w.last \in Nat
         /\ \A i \in DOMAIN w.obj :
              /\ w.obj[i] \in Object /\ OwnFits(w, w.obj[i].kind, w.own[i])
              /\ w.obj[i].kind = "glassdoor" => w.obj[i].anchored
              /\ i \in Nat /\ i # None /\ i # Hand /\ i \notin Tile /\ i \in 1 .. w.last
              /\ KindOf(w, i) = w.obj[i].kind
BY SaneForms DEF Good

\* Create in a good world.
LEMMA CreateGood ==
  ASSUME NEW r, NEW w, Good(r, w), NEW kind, NEW owner, PlainAt(kind, owner), NEW i, i = NewId(w),
         NEW v, v = Create(w, kind, owner)
  PROVE  Good(r, v) /\ Gained(w, v, i, kind)
<1>1. PICK N : N = {}
  OBVIOUS
<1>2. Sane({}, N, r, w)
  BY <1>1 DEF Good, Nil
<1>3. Sane({}, N, r, v) /\ Gained(w, v, i, kind)
  BY <1>2, CreateSane
<1> QED BY <1>1, <1>3 DEF Good, Nil

\* DeleteObject in a good world.
LEMMA DeleteGood ==
  ASSUME NEW r, NEW w, Good(r, w), NEW i \in DOMAIN w.obj, Mortal(w.obj[i].kind), Unminded(w, i),
         NEW v, v = DeleteObject(w, i)
  PROVE  Good(r, v) /\ Deleted(w, i, v)
<1>1. Sane(Nil \ {i}, Nil, r, v) /\ Deleted(w, i, v)
  BY DeleteObjectSane DEF Good
<1>2. Nil \ {i} = Nil
  BY DEF Nil
<1> QED BY <1>1, <1>2 DEF Good

\* No mind is in what is no mob, in a good world.
LEMMA UnmindedGood ==
  ASSUME NEW r, NEW w, Good(r, w), NEW i, i \in DOMAIN w.obj => w.obj[i].kind \notin Mob, i # None
  PROVE  Unminded(w, i)
BY MindsMobs DEF Good

-----------------------------------------------------------------------------
(* Windows and grilles.                                                    *)

\* A grille that loses its bars lets everything through.
LEMMA LoseBarsGood ==
  ASSUME NEW r, NEW w, Good(r, w), NEW i \in DOMAIN w.obj, w.obj[i].kind = "grille",
         NEW v, v = LoseBars(w, i)
  PROVE  Good(r, v) /\ Twins(w, v) /\ v.mind = w.mind
<1>1. PICK U : U = Nil \cup {i}
  OBVIOUS
<1>2. Sane(Nil, U, r, w)
  BY <1>1, LooseSane DEF Good
<1>3. /\ DOMAIN w = Members /\ DOMAIN w.own = DOMAIN w.obj /\ OwnFits(w, w.obj[i].kind, w.own[i])
  BY GoodForms
<1>4. DOMAIN w.own[i] = {"hit_points", "cutted"}
  BY <1>3, NewOwnIs DEF OwnFits, Breakable
<1>5. PICK e : e = [w.own[i] EXCEPT !.cutted = TRUE]
  OBVIOUS
<1>6. DOMAIN e = DOMAIN w.own[i] /\ e.cutted
  BY <1>4, <1>5
<1>7. PICK y : y = [w EXCEPT !.own[i].cutted = TRUE]
  OBVIOUS
<1>8. Only({"own"}, w, y) /\ y.own = OwnsSet(w, i, e)
  BY <1>3, <1>5, <1>7 DEF Only, Members, OwnsSet
<1>9. OwnFine(w, i, e)
  BY <1>3, <1>6, SimpleOwn DEF Wall, Projectile
<1>10. i \in U
  BY <1>1
<1>11. Sane(Nil, U, r, y)
  BY <1>2, <1>8, <1>9, <1>10, OwnStep
<1>12. y.obj = w.obj /\ y.own[i] = e
  BY <1>3, <1>8, SameFields DEF OwnsSet
<1>21. PICK d, p : d = "all" /\ p = FULL
  OBVIOUS
<1>13. Fitting(y, i, d, p)
  BY <1>6, <1>12, <1>21 DEF Fitting, ShapeFits, Closet
<1>14. v = SetPassable(y, i, d, p)
  BY <1>7, <1>21 DEF LoseBars
<1>15. d \in Way /\ p \in PassableLevel /\ y.obj[i].kind \notin Wall /\ i \in DOMAIN y.obj
  BY <1>12, <1>21, LevelIsInt DEF Way, Wall
<1>16. Sane(Nil, Nil, r, v) /\ Only({"obj", "sum", "flags"}, y, v) /\ v.obj = PassSet(y, i, d, p)
  BY <1>1, <1>11, <1>13, <1>14, <1>15, PassKeeps
<1>17. Sane(Nil, U, r, y) /\ i \in DOMAIN y.obj
  BY <1>11, <1>15
<1>18. Stays(y, v)
  BY <1>15, <1>16, <1>17, PassStays
<1>19. Twins(w, v)
  BY <1>12, <1>18 DEF Stays, Twins
<1>20. v.mind = w.mind
  BY <1>8, <1>16, SameFields
<1> QED BY <1>16, <1>19, <1>20 DEF Good

\* Taking apart a structure keeps the invariant.
LEMMA TakeApartGood ==
  ASSUME NEW r, NEW w, Good(r, w), NEW i \in DOMAIN w.obj, w.obj[i].kind \in Breakable,
         NEW v, v = TakeApart(w, i)
  PROVE  Good(r, v)
<1>1. PICK x : x = IF HasBars(w, i) THEN LoseBars(w, i) ELSE w
  OBVIOUS
<1>2. KindOf(w, i) = w.obj[i].kind
  BY GoodForms
<1>3. Good(r, x) /\ Twins(w, x)
  <2>1. CASE HasBars(w, i)
    <3>1. w.obj[i].kind = "grille"
      BY <1>2, <2>1 DEF HasBars, Is
    <3> QED BY <1>1, <2>1, <3>1, LoseBarsGood
  <2>2. CASE ~HasBars(w, i)
    BY <1>1, <2>2 DEF Twins
  <2> QED BY <2>1, <2>2
<1>4. PICK k : k = Piece(w, i)
  OBVIOUS
<1>5. PlainAt(k, Owner(w, i))
  BY <1>4 DEF Piece, PlainAt, Plain, Rooted, Projectile, Kind, Turf, Wall, Closet, Movable, Item
<1>6. PICK y : y = Create(x, k, Owner(w, i))
  OBVIOUS
<1>7. Good(r, y) /\ Gained(x, y, NewId(x), k)
  BY <1>3, <1>5, <1>6, CreateGood
<1>8. i \in DOMAIN x.obj /\ x.obj[i].kind \in Breakable
  BY <1>3 DEF Twins
<1>9. i \in DOMAIN y.obj /\ y.obj[i].kind \in Breakable
  BY <1>7, <1>8 DEF Gained
<1>10. v = y \/ v = DeleteObject(y, i)
  BY <1>1, <1>4, <1>6 DEF TakeApart, Fall
<1>11. Mortal(y.obj[i].kind) /\ y.obj[i].kind \notin Mob
  BY <1>9 DEF Mortal, Breakable, Wall, Closet, Mob
<1>12. i # None
  BY GoodForms
<1>13. Unminded(y, i)
  BY <1>7, <1>11, <1>12, UnmindedGood
<1> QED BY <1>7, <1>9, <1>10, <1>11, <1>13, DeleteGood

\* Hit points are in no part of the invariant.
LEMMA HitPointsGood ==
  ASSUME NEW r, NEW w, Good(r, w), NEW i \in DOMAIN w.obj, w.obj[i].kind \in Breakable, NEW n,
         NEW v, v = [w EXCEPT !.own[i].hit_points = n]
  PROVE  Good(r, v) /\ v.obj = w.obj
<1>1. Sane(Nil, Nil, r, w)
  BY DEF Good
<1>3. /\ DOMAIN w = Members /\ DOMAIN w.own = DOMAIN w.obj /\ OwnFits(w, w.obj[i].kind, w.own[i])
  BY GoodForms
<1>4. DOMAIN w.own[i] = {"hit_points", "cutted"}
  BY <1>3, NewOwnIs DEF OwnFits
<1>5. PICK e : e = [w.own[i] EXCEPT !.hit_points = n]
  OBVIOUS
<1>6. DOMAIN e = DOMAIN w.own[i] /\ e.cutted = w.own[i].cutted
  BY <1>4, <1>5
<1>8. Only({"own"}, w, v) /\ v.own = OwnsSet(w, i, e)
  BY <1>3, <1>5 DEF Only, Members, OwnsSet
<1>9. OwnFine(w, i, e)
  BY <1>3, <1>6, SimpleOwn DEF Wall, Projectile, Breakable
<1>10. Shaped(w, i)
  BY <1>1 DEF Sane, Sound, Nearly, Shapes, Nil
<1>11. ShapeFits(w.obj[i].kind, w.obj[i].pass, w.obj[i].dir, e)
  BY <1>6, <1>10 DEF Shaped, ShapeFits, Breakable, Closet
<1>12. Sane(Nil, Nil, r, v)
  BY <1>1, <1>8, <1>9, <1>11, OwnStep
<1> QED BY <1>8, <1>12, SameFields DEF Good

\* Breaking a structure keeps the invariant.
LEMMA BreakGood ==
  ASSUME NEW r, NEW w, Good(r, w), NEW i \in DOMAIN w.obj, w.obj[i].kind \in Breakable
  PROVE  Good(r, Break(w, i))
<1>1. PICK x : x = [w EXCEPT !.own[i].hit_points = 7]
  OBVIOUS
<1>2. Good(r, x) /\ x.obj = w.obj
  BY <1>1, HitPointsGood
<1>3. Good(r, TakeApart(x, i))
  BY <1>2, TakeApartGood
<1> QED BY <1>1, <1>3 DEF Break

\* Hitting a structure keeps the invariant.
LEMMA HitGood ==
  ASSUME NEW r, NEW w, Good(r, w), NEW i \in DOMAIN w.obj, w.obj[i].kind \in Breakable, NEW damage
  PROVE  Good(r, Hit(w, i, damage))
<1>1. PICK left : left = w.own[i].hit_points - damage
  OBVIOUS
<1>2. Hit(w, i, damage) = IF left <= 0 THEN Break(w, i) ELSE [w EXCEPT !.own[i].hit_points = left]
  BY <1>1 DEF Hit
<1>3. CASE left <= 0
  BY <1>2, <1>3, BreakGood
<1>4. CASE ~(left <= 0)
  BY <1>2, <1>4, HitPointsGood
<1> QED BY <1>3, <1>4

-----------------------------------------------------------------------------
(* Pushes and turns.                                                       *)

\* A force that is applied is queued.
LEMMA ApplyForceGood ==
  ASSUME NEW r, NEW w, Good(r, w), NEW i \in DOMAIN w.obj, w.obj[i].kind \in Movable, NEW f \in Vector
  PROVE  Good(r, ApplyForce(w, i, f))
<1>1. KindOf(w, i) = w.obj[i].kind
  BY GoodForms
<1>2. CASE Is(w, i, {"glass"}) /\ AtLeast(f.x, f.y) > BORDERLINE
  <2>1. w.obj[i].kind \in Breakable
    BY <1>1, <1>2 DEF Is, Breakable
  <2> QED BY <1>2, <2>1, BreakGood DEF ApplyForce
<1>3. CASE ~(Is(w, i, {"glass"}) /\ AtLeast(f.x, f.y) > BORDERLINE)
  <2>1. CASE IsZero(f)
    BY <1>3, <2>1 DEF ApplyForce
  <2>2. CASE ~IsZero(f)
    <3>1. ApplyForce(w, i, f) = [Queued(w, i, f) EXCEPT !.obj[i].motion = Pushed(@, f)]
      BY <1>3, <2>2 DEF ApplyForce
    <3>2. Good(r, [Queued(w, i, f) EXCEPT !.obj[i].motion = Pushed(@, f)])
      BY PushedSane DEF Good
    <3> QED BY <3>1, <3>2
  <2> QED BY <2>1, <2>2
<1> QED BY <1>2, <1>3

\* Rotate in a good world.
LEMMA RotateGood ==
  ASSUME NEW r, NEW w, Good(r, w), NEW i \in DOMAIN w.obj, NEW d \in Dir, w.obj[i].kind # "glassdoor"
  PROVE  Good(r, Rotate(w, i, d)) /\ Stays(w, Rotate(w, i, d)) /\ Rotate(w, i, d).obj[i].dir = d
<1>1. i \notin Nil
  BY DEF Nil
<1> QED BY <1>1, RotateSane DEF Good

\* A loose pane of glass that is bumped turns to the way of what bumped it.
LEMMA TurnGlassGood ==
  ASSUME NEW r, NEW w, Good(r, w), NEW o \in DOMAIN w.obj, w.obj[o].kind = "glass", NEW i \in DOMAIN w.obj
  PROVE  Good(r, TurnGlass(w, o, i))
<1>1. DirOf(w, i) \in Dir
  BY GoodForms DEF DirOf, Object
<1>2. PICK d : d = DirOf(w, i)
  OBVIOUS
<1>3. Good(r, Rotate(w, o, d))
  BY <1>1, <1>2, RotateGood
<1> QED BY <1>2, <1>3 DEF TurnGlass

-----------------------------------------------------------------------------
(* A closet is emptied.                                                    *)

Emptied(w, c) == [w EXCEPT !.content[c] = <<>>]
EmptiedContent(w, c) == [w.content EXCEPT ![c] = <<>>]

\* What emptying a content changes.
LEMMA EmptiedIs ==
  ASSUME NEW w, DOMAIN w = Members, NEW c, NEW v, v = Emptied(w, c)
  PROVE  /\ Only({"content"}, w, v) /\ v.content = EmptiedContent(w, c)
         /\ DOMAIN v.content = DOMAIN w.content
         /\ c \in DOMAIN w.content => v.content[c] = <<>>
         /\ \A d \in DOMAIN w.content : d # c => v.content[d] = w.content[d]
BY DEF Emptied, EmptiedContent, Only, Members

\* An emptied closet leaves what was in it unsettled.
LEMMA EmptiedSane ==
  ASSUME NEW U, NEW r, NEW w, Sane(Nil, U, r, w), NEW c \in DOMAIN w.obj, w.obj[c].kind \in Closet,
         NEW v, v = Emptied(w, c)
  PROVE  Sane(ToSet(w.content[c]), U, r, v)
<1>1. PICK A : A = ToSet(w.content[c])
  OBVIOUS
<1>2. Formed(w) /\ Settled(Nil, w) /\ Forces(w) /\ Sums(None, w) /\ Shapes(U, w) /\ Minds(w) /\ Walls(U, w)
  BY DEF Sane, Sound, Nearly
<1>3. DOMAIN w = Members /\ c \notin Tile /\ c \in DOMAIN w.content /\ KindOf(w, c) = w.obj[c].kind
  BY <1>2, SaneForms DEF Formed, Contents
<1>4. /\ Only({"content"}, w, v) /\ DOMAIN v.content = DOMAIN w.content /\ v.content[c] = <<>>
      /\ \A d \in DOMAIN w.content : d # c => v.content[d] = w.content[d]
  BY <1>3, EmptiedIs
<1>5. /\ v.obj = w.obj /\ v.own = w.own /\ v.turf = w.turf /\ v.sum = w.sum /\ v.flags = w.flags /\ v.tick = w.tick
      /\ v.last = w.last /\ v.list = w.list /\ v.to_add = w.to_add /\ v.under_force = w.under_force
      /\ v.chance = w.chance /\ v.mind = w.mind /\ v.music = w.music /\ DOMAIN v = Members
  BY <1>4, SameFields
<1>6. Twins(w, v) /\ Kin(w, v)
  BY <1>5 DEF Twins, Kin
<1>7. \A j : KindOf(v, j) = KindOf(w, j)
  BY <1>5 DEF KindOf, IsValid
<1>8. /\ w.content[c] \in Seq(Nat) /\ \A j : j \in A <=> Contains(w.content[c], j)
  <2>1. w.content[c] \in Seq(Nat)
    BY <1>2, <1>3 DEF Formed, Contents
  <2> QED BY <1>1, <2>1, ContainsIs
<1>9. ASSUME NEW j \in A PROVE j \in DOMAIN w.obj /\ w.obj[j].owner = c
  <2>1. \E n \in 1 .. Len(w.content[c]) : w.content[c][n] = j
    <3>1. DOMAIN w.content[c] = 1 .. Len(w.content[c])
      BY <1>8
    <3> QED BY <1>1, <1>9, <3>1 DEF ToSet
  <2> QED BY <1>2, <1>3, <2>1 DEF Settled, InContents, Lies
<1>10. ASSUME NEW j, NEW d, NEW class, Lies(Nil, w, j, d, class), d # c PROVE Lies(A, v, j, d, class)
  BY <1>5, <1>9, <1>10 DEF Lies
<1>11. Formed(v)
  <2>1. Contents(v)
    <3>1. <<>> \in Seq(Nat)
      OBVIOUS
    <3>2. Is(w, c, Closet)
      BY <1>3 DEF Is
    <3>3. \A d : Is(v, d, Closet) <=> Is(w, d, Closet)
      BY <1>7 DEF Is
    <3> QED BY <1>2, <1>4, <1>5, <3>1, <3>2, <3>3 DEF Formed, Contents
  <2>2. \A n, class : Refers(w, n, class) => Refers(v, n, class)
    BY <1>5 DEF Refers, IsValid
  <2>3. Owned(v)
    <3>1. ASSUME NEW kind, NEW own, OwnFits(w, kind, own) PROVE OwnFits(v, kind, own)
      BY <2>2, <3>1 DEF OwnFits
    <3>2. Owned(w) /\ v.obj = w.obj /\ v.own = w.own
      BY <1>2, <1>5 DEF Formed
    <3> QED BY <3>1, <3>2 DEF Owned
  <2> QED BY <1>2, <1>5, <2>1, <2>3 DEF Formed, Counted, Objects, Grid, Queues
<1>12. Settled(A, v)
  <2>1. OnTiles(A, v)
    BY <1>2, <1>3, <1>5, <1>10 DEF Settled, OnTiles
  <2>2. InContents(A, v)
    <3> SUFFICES ASSUME NEW d \in DOMAIN v.content
                 PROVE  /\ \A n \in 1 .. Len(v.content[d]) : Lies(A, v, v.content[d][n], d, Suits(d))
                        /\ \A m, n \in 1 .. Len(v.content[d]) : v.content[d][m] = v.content[d][n] => m = n
      BY DEF InContents
    <3>1. CASE d # c
      BY <1>2, <1>4, <1>10, <3>1 DEF Settled, InContents
    <3>2. CASE d = c
      <4>1. Len(v.content[d]) = 0
        BY <1>4, <3>2
      <4>2. 1 .. Len(v.content[d]) = {}
        BY <4>1
      <4> QED BY <4>2
    <3> QED BY <3>1, <3>2
  <2>3. InSlots(A, v)
    <3> SUFFICES ASSUME NEW h \in DOMAIN v.obj, v.obj[h].kind = "human"
                 PROVE  /\ \A s \in Slot : v.own[h].slot[s] # None => Lies(A, v, v.own[h].slot[s], h, Item)
                        /\ \A s, u \in Slot : v.own[h].slot[s] = v.own[h].slot[u] /\ v.own[h].slot[s] # None => s = u
      BY DEF InSlots
    <3>1. h # c
      BY <1>5 DEF Closet
    <3> QED BY <1>2, <1>5, <1>10, <3>1 DEF Settled, InSlots
  <2>4. Homed(A, v)
    <3> SUFFICES ASSUME NEW j \in DOMAIN v.obj, j \notin A
                 PROVE  /\ v.obj[j].owner # None => Has(v, v.obj[j].owner, j)
                        /\ v.obj[j].kind \in Rooted => v.obj[j].owner \in Tile
      BY DEF Homed
    <3>1. j \in DOMAIN w.obj /\ v.obj[j] = w.obj[j] /\ j \notin Nil
      BY <1>5 DEF Nil
    <3>2. PICK d : d = w.obj[j].owner
      OBVIOUS
    <3>3. /\ d # None => Has(w, d, j)
          /\ w.obj[j].kind \in Rooted => d \in Tile
      BY <1>2, <3>1, <3>2 DEF Settled, Homed
    <3>4. ASSUME Has(w, d, j) PROVE Has(v, d, j)
      <4>1. CASE d \in Tile
        <5>1. d \in DOMAIN w.content /\ d # c
          BY <1>2, <1>3, <4>1 DEF Formed, Contents
        <5> QED BY <1>4, <1>5, <3>4, <4>1, <5>1 DEF Has
      <4>2. CASE d \notin Tile /\ Is(w, d, Closet)
        <5>1. Contains(w.content[d], j)
          BY <3>4, <4>2 DEF Has
        <5>2. d # c
          BY <1>8, <5>1
        <5>3. d \in DOMAIN w.content
          BY <1>2, <4>2 DEF Formed, Contents, Is, KindOf, IsValid, Closet
        <5>4. Is(v, d, Closet)
          BY <1>7, <4>2 DEF Is
        <5> QED BY <1>4, <4>2, <5>1, <5>2, <5>3, <5>4 DEF Has
      <4>3. CASE d \notin Tile /\ ~Is(w, d, Closet)
        <5>1. ~Is(v, d, Closet) /\ (Is(w, d, {"human"}) <=> Is(v, d, {"human"}))
          BY <1>7, <4>3 DEF Is
        <5> QED BY <1>5, <3>4, <4>3, <5>1 DEF Has, SlotsOf
      <4> QED BY <4>1, <4>2, <4>3
    <3> QED BY <3>1, <3>2, <3>3, <3>4
  <2> QED BY <2>1, <2>2, <2>3, <2>4 DEF Settled
<1>13. Sums(None, v)
  <2> SUFFICES ASSUME NEW u \in Tile PROVE SumAt(v, u)
    BY DEF Sums
  <2>1. SumAt(w, u)
    BY <1>2, NoneIsNoTile DEF Sums
  <2>2. v.content[u] = w.content[u]
    BY <1>2, <1>3, <1>4 DEF Formed, Contents
  <2> QED BY <1>5, <2>1, <2>2, SumAtSame
<1>14. Forces(v) /\ Shapes(U, v) /\ Minds(v)
  BY <1>2, <1>5 DEF Forces, Shapes, Shaped, Minds
<1>15. Walls(U, v)
  BY <1>2, <1>5, <1>6, WallsSame
<1>16. Sound(A, U, v)
  BY <1>11, <1>12, <1>13, <1>14, <1>15 DEF Sound, Nearly
<1>17. Only({"content", "turf", "sum", "flags"}, w, v)
  BY <1>4 DEF Only
<1>18. Since(w, v)
  BY <1>2, <1>17, SameObjSince
<1> QED BY <1>1, <1>16, <1>18, SaneStep

\* Whether a closet is emptied before or after something is put on a tile does not matter.
LEMMA EmptiedPut ==
  ASSUME NEW w, DOMAIN w = Members, NEW t \in Tile, NEW c, c # t, t \in DOMAIN w.content, NEW i
  PROVE  Put(Emptied(w, c), t, i) = Emptied(Put(w, t, i), c)
<1>1. PICK f : f = [[w.content EXCEPT ![t] = Append(w.content[t], i)] EXCEPT ![c] = <<>>]
  OBVIOUS
<1>2. f = [[w.content EXCEPT ![c] = <<>>] EXCEPT ![t] = Append(w.content[t], i)]
  BY <1>1
<1>3. PICK g : g = [w.obj EXCEPT ![i] = [w.obj[i] EXCEPT !.owner = t]]
  OBVIOUS
<1>4. Emptied(Put(w, t, i), c) = [w EXCEPT !.content = f, !.obj = g]
  BY <1>1, <1>3 DEF Emptied, Put, Members
<1>5. [w.content EXCEPT ![c] = <<>>][t] = w.content[t]
  OBVIOUS
<1>6. Put(Emptied(w, c), t, i) = [w EXCEPT !.content = f, !.obj = g]
  BY <1>2, <1>3, <1>5 DEF Emptied, Put, Members
<1> QED BY <1>4, <1>6

\* Emptying a closet and writing a tile's sum commute.
LEMMA EmptiedWithSum ==
  ASSUME NEW w, DOMAIN w = Members, NEW t \in Tile, NEW c, c # t, t \in DOMAIN w.content, NEW sum
  PROVE  WithSum(Emptied(w, c), t, sum) = Emptied(WithSum(w, t, sum), c)
<1>1. PICK v : v = Emptied(w, c)
  OBVIOUS
<1>2. /\ v.obj = w.obj /\ v.turf = w.turf /\ v.content[t] = w.content[t] /\ v.sum = w.sum /\ v.flags = w.flags
  BY <1>1 DEF Emptied, Members
<1>3. AtmosFlags(v, t, sum) = AtmosFlags(w, t, sum)
  BY <1>2 DEF AtmosFlags
<1>4. PICK f : f = AtmosFlags(w, t, sum)
  OBVIOUS
<1>5. WithSum(w, t, sum) = [w EXCEPT !.sum[t] = sum, !.flags[t] = f]
  BY <1>4 DEF WithSum
<1>6. WithSum(v, t, sum) = [v EXCEPT !.sum[t] = sum, !.flags[t] = f]
  BY <1>3, <1>4 DEF WithSum
<1> QED BY <1>1, <1>5, <1>6 DEF Emptied, Members

\* Emptying a closet and adding to its tile commute.
LEMMA EmptiedTileAdd ==
  ASSUME NEW w, DOMAIN w = Members, NEW t \in Tile, NEW c, c # t, t \in DOMAIN w.content, NEW i
  PROVE  TileAdd(Emptied(w, c), t, i) = Emptied(TileAdd(w, t, i), c)
<1>1. PICK v : v = Emptied(w, c)
  OBVIOUS
<1>2. v.sum = w.sum /\ v.obj = w.obj
  BY <1>1 DEF Emptied, Members
<1>3. PICK s : s = Kept([d \in Way |-> AtMost(w.sum[t][d], w.obj[i].pass[d])])
  OBVIOUS
<1>4. PICK x : x = Put(w, t, i)
  OBVIOUS
<1>5. DOMAIN x = Members /\ t \in DOMAIN x.content
  BY <1>4 DEF Put, Members
<1>6. Put(v, t, i) = Emptied(x, c)
  BY <1>1, <1>4, EmptiedPut
<1>7. WithSum(Emptied(x, c), t, s) = Emptied(WithSum(x, t, s), c)
  BY <1>5, EmptiedWithSum
<1>8. TileAdd(w, t, i) = WithSum(x, t, s)
  BY <1>3, <1>4 DEF TileAdd
<1>9. TileAdd(v, t, i) = WithSum(Emptied(x, c), t, s)
  BY <1>2, <1>3, <1>6 DEF TileAdd
<1> QED BY <1>1, <1>7, <1>8, <1>9

\* How a closet is emptied onto the tile it stands on, one thing after another; c has the
\* closet as i, the world as w, what is in it as s and the world before as r.
OutOp(c, v, j) == IF IsValid(v, j) THEN AddObject(v, Owner(v, c.i), j) ELSE v
Left(c, k) == {c.s[m] : m \in k + 1 .. Len(c.s)}
OutKnows(c, k, v) ==
  /\ Only({"obj", "content", "sum", "flags"}, c.w, v) /\ Kin(c.w, v)
  /\ v.obj[c.i] = c.w.obj[c.i]
  /\ \A m \in k + 1 .. Len(c.s) : v.obj[c.s[m]] = c.w.obj[c.s[m]]
  /\ Sane(Left(c, k), Nil, c.r, Emptied(v, c.i))

OutFold == INSTANCE FoldInduction WITH Op <- OutOp, P <- OutKnows

Opens(c) ==
  /\ Good(c.r, c.w) /\ c.i \in DOMAIN c.w.obj /\ c.w.obj[c.i].kind \in Closet
  /\ c.s = c.w.content[c.i]

\* What the loop over an opened closet starts from.
LEMMA OpensIs ==
  ASSUME NEW c, Opens(c)
  PROVE  /\ c.w.obj[c.i].owner \in Tile /\ c.s \in Seq(Nat) /\ c.i \notin Tile
         /\ \A m \in 1 .. Len(c.s) :
              /\ c.s[m] \in DOMAIN c.w.obj /\ c.w.obj[c.s[m]].owner = c.i
              /\ c.w.obj[c.s[m]].kind \in Item \cup {"human"}
         /\ \A m, n \in 1 .. Len(c.s) : c.s[m] = c.s[n] => m = n
<1>1. PICK w, i : w = c.w /\ i = c.i
  OBVIOUS
<1>2. Formed(w) /\ Settled(Nil, w) /\ i \in DOMAIN w.obj /\ w.obj[i].kind \in Closet /\ c.s = w.content[i]
  BY <1>1 DEF Opens, Good, Sane, Sound, Nearly
<1>3. i \notin Tile /\ i \in DOMAIN w.content
  BY <1>1, <1>2, GoodForms DEF Opens, Formed, Contents
<1>4. w.obj[i].owner \in Tile
  BY <1>2 DEF Settled, Homed, Nil, Rooted
<1>5. Suits(i) = Item \cup {"human"}
  BY <1>3 DEF Suits
<1>6. c.s \in Seq(Nat)
  BY <1>2, <1>3 DEF Formed, Contents
<1>7. /\ \A m \in 1 .. Len(w.content[i]) : Lies(Nil, w, w.content[i][m], i, Suits(i))
      /\ \A m, n \in 1 .. Len(w.content[i]) : w.content[i][m] = w.content[i][n] => m = n
  BY <1>2, <1>3 DEF Settled, InContents
<1> QED BY <1>1, <1>2, <1>3, <1>4, <1>5, <1>6, <1>7 DEF Lies

\* The loop's invariant holds for one object more.
LEMMA OutStep ==
  ASSUME NEW c, Opens(c), NEW k \in Nat, k < Len(c.s), NEW v, OutKnows(c, k, v)
  PROVE  OutKnows(c, k + 1, OutOp(c, v, c.s[k + 1]))
<1>1. PICK j : j = c.s[k + 1]
  OBVIOUS
<1>2. PICK t : t = c.w.obj[c.i].owner
  OBVIOUS
<1>3. k + 1 \in 1 .. Len(c.s) /\ Len(c.s) \in Nat /\ k + 1 \in k + 1 .. Len(c.s)
  BY OpensIs
<1>4. /\ t \in Tile /\ c.i # t /\ j \in DOMAIN c.w.obj /\ c.w.obj[j].owner = c.i
      /\ c.w.obj[j].kind \in Item \cup {"human"} /\ j # c.i /\ c.i \notin Tile
  <2>1. /\ c.w.obj[c.i].owner \in Tile /\ c.i \notin Tile
        /\ c.s[k + 1] \in DOMAIN c.w.obj /\ c.w.obj[c.s[k + 1]].owner = c.i
        /\ c.w.obj[c.s[k + 1]].kind \in Item \cup {"human"}
    BY <1>3, OpensIs
  <2>2. c.i # j
    BY <1>1, <2>1 DEF Item, Closet, Gun, Cloth, Opens
  <2> QED BY <1>1, <1>2, <2>1, <2>2
<1>5. /\ Only({"obj", "content", "sum", "flags"}, c.w, v) /\ Kin(c.w, v) /\ v.obj[c.i] = c.w.obj[c.i]
      /\ v.obj[j] = c.w.obj[j] /\ DOMAIN v = Members
  BY <1>1, <1>3 DEF OutKnows, Only
<1>6. PICK x : x = Emptied(v, c.i)
  OBVIOUS
<1>7. PICK A : A = Left(c, k)
  OBVIOUS
<1>8. Sane(A, Nil, c.r, x) /\ j \in A
  BY <1>1, <1>3, <1>6, <1>7 DEF OutKnows, Left
<1>9. x.obj = v.obj /\ DOMAIN x = Members
  BY <1>5, <1>6 DEF Emptied, Members
<1>10. j \in DOMAIN x.obj /\ x.obj[j].kind \in Suits(t) /\ x.obj[j].owner \notin Tile
  <2>1. (Item \cup {"human"}) \cap Turf = {} /\ Item \cup {"human"} \subseteq Kind
    BY DEF Item, Gun, Cloth, Turf, Wall, Kind, Movable, Mob
  <2> QED BY <1>4, <1>5, <1>9, <2>1 DEF Kin, Suits
<1>11. t \in DOMAIN v.content
  <2>1. t \in DOMAIN x.content
    BY <1>4, <1>8, SaneForms DEF Formed, Contents
  <2> QED BY <1>5, <1>6, <2>1, EmptiedIs
<1>12. PICK y : y = TileAdd(v, t, j)
  OBVIOUS
<1>13. OutOp(c, v, j) = y
  <2>1. IsValid(v, j) /\ Owner(v, c.i) = t
    BY <1>2, <1>4, <1>5 DEF IsValid, Kin, Owner
  <2>2. Takes(v, t, j) /\ Container(v, t) = t
    BY <1>4 DEF Takes, Container
  <2>3. AddObject(v, t, j) = TileAdd(v, t, j)
    BY <1>4, <2>2 DEF AddObject, AddTo
  <2> QED BY <1>12, <2>1, <2>3 DEF OutOp
<1>14. PICK z : z = Emptied(y, c.i)
  OBVIOUS
<1>15. z = AddTo(x, t, j)
  BY <1>4, <1>5, <1>6, <1>11, <1>12, <1>14, EmptiedTileAdd DEF AddTo
<1>16. Sound(A, Nil, x)
  BY <1>8 DEF Sane
<1>17. Sound(A \ {j}, Nil, z) /\ Stored(x, j, t, z)
  BY <1>4, <1>8, <1>10, <1>15, <1>16, AddToSound
<1>18. Only({"obj", "content", "turf", "sum", "flags"}, x, z)
  BY <1>17 DEF Stored, Only
<1>19. Formed(x) /\ Objects(x)
  BY <1>8, SaneForms DEF Formed
<1>20. Since(x, z)
  BY <1>10, <1>17, <1>18, <1>19, OwnerSince DEF Stored
<1>21. Sane(A \ {j}, Nil, c.r, z)
  BY <1>8, <1>17, <1>20, SaneStep
<1>22. A \ {j} = Left(c, k + 1)
  <2>1. \A m \in k + 1 .. Len(c.s) : c.s[m] = j <=> m = k + 1
    BY <1>1, <1>3, OpensIs
  <2>2. (k + 1 .. Len(c.s)) \ {k + 1} = (k + 1) + 1 .. Len(c.s)
    BY <1>3
  <2> QED BY <1>3, <1>7, <2>1, <2>2 DEF Left
<1>23. DOMAIN y = Members
  BY <1>5, <1>12 DEF TileAdd, WithSum, Put
<1>24. y.obj = OwnerSet(v, j, t) /\ Only({"obj", "content", "sum", "flags"}, c.w, y)
  <2>1. y.obj = OwnerSet(v, j, t) /\ Only({"obj", "content", "sum", "flags"}, v, y)
    BY <1>5, <1>12 DEF TileAdd, WithSum, Put, OwnerSet, Only, Members
  <2> QED BY <1>5, <2>1 DEF Only
<1>25. Objects(v) /\ j \in DOMAIN v.obj
  <2>1. v.obj = x.obj /\ v.last = x.last /\ v.tick = x.tick
    BY <1>5, <1>6 DEF Emptied, Members
  <2> QED BY <1>10, <1>19, <2>1 DEF Objects
<1>26. /\ DOMAIN y.obj = DOMAIN v.obj
       /\ \A h \in DOMAIN v.obj : h # j => y.obj[h] = v.obj[h]
       /\ \A h \in DOMAIN v.obj : y.obj[h].kind = v.obj[h].kind
  <2>1. /\ DOMAIN OwnerSet(v, j, t) = DOMAIN v.obj
        /\ \A h \in DOMAIN v.obj : h # j => OwnerSet(v, j, t)[h] = v.obj[h]
    BY <1>25, OwnerSetIs
  <2>2. \A h \in DOMAIN v.obj : OwnerSet(v, j, t)[h].kind = v.obj[h].kind
    BY <1>25, OwnerSetIs
  <2> QED BY <1>24, <2>1, <2>2
<1>27. Kin(c.w, y) /\ y.obj[c.i] = c.w.obj[c.i]
  BY <1>4, <1>5, <1>26 DEF Kin, Opens
<1>28. \A m \in (k + 1) + 1 .. Len(c.s) : y.obj[c.s[m]] = c.w.obj[c.s[m]]
  <2> SUFFICES ASSUME NEW m \in (k + 1) + 1 .. Len(c.s) PROVE y.obj[c.s[m]] = c.w.obj[c.s[m]]
    OBVIOUS
  <2>1. m \in k + 1 .. Len(c.s) /\ m \in 1 .. Len(c.s) /\ m # k + 1
    BY <1>3
  <2>2. c.s[m] # j /\ c.s[m] \in DOMAIN c.w.obj
    BY <1>1, <1>3, <2>1, OpensIs
  <2> QED BY <1>5, <1>26, <2>1, <2>2 DEF OutKnows, Kin
<1>29. OutKnows(c, k + 1, y)
  BY <1>14, <1>21, <1>22, <1>24, <1>27, <1>28 DEF OutKnows
<1> QED BY <1>1, <1>13, <1>29

\* The release of a closet's content as a fold over it.
LEMMA OutIsFold ==
  ASSUME NEW c, NEW w
  PROVE  Released(w, c.i) = OutFold!Folded(c, w, w.content[c.i])
BY DEF OutFold!Folded, OutFold!MaxOf, Released, ForEach, OutOp, FoldLeft, MapThenFoldSet, Max

\* All that was in a closet is on its tile.
LEMMA OutGood ==
  ASSUME NEW r, NEW w, Good(r, w), NEW i \in DOMAIN w.obj, w.obj[i].kind \in Closet,
         NEW v, v = Released(w, i),
         NEW y, y = Emptied(v, i)
  PROVE  Good(r, y) /\ Only({"obj", "content", "sum", "flags"}, w, v) /\ i \in DOMAIN v.obj /\ v.obj[i] = w.obj[i]
<1>1. PICK c : c = [w |-> w, i |-> i, s |-> w.content[i], r |-> r]
  OBVIOUS
<1>2. c.w = w /\ c.i = i /\ c.s = w.content[i] /\ c.r = r
  BY <1>1
<1>3. Opens(c)
  BY <1>2 DEF Opens
<1>4. PICK s : s = c.s
  OBVIOUS
<1>5. s \in Seq(Nat)
  BY <1>3, <1>4, OpensIs
<1>6. DOMAIN s = 1 .. Len(s) /\ Len(s) \in Nat
  BY <1>5
<1>7. v = OutFold!Folded(c, w, s)
  BY <1>2, <1>4, OutIsFold
<1>8. OutKnows(c, 0, w)
  <2>1. Sane(Left(c, 0), Nil, r, Emptied(w, i))
    <3>1. Sane(ToSet(w.content[i]), Nil, r, Emptied(w, i))
      BY EmptiedSane DEF Good
    <3>2. ToSet(w.content[i]) = Left(c, 0)
      BY <1>2, <1>4, <1>6 DEF ToSet, Left
    <3> QED BY <3>1, <3>2
  <2>2. DOMAIN w = Members
    BY GoodForms
  <2> QED BY <1>2, <2>1, <2>2 DEF OutKnows, Only, Kin
<1>9. \A k \in 0 .. Len(s) - 1 : \A x : OutKnows(c, k, x) => OutKnows(c, k + 1, OutOp(c, x, s[k + 1]))
  <2> SUFFICES ASSUME NEW k \in 0 .. Len(s) - 1, NEW x, OutKnows(c, k, x)
               PROVE OutKnows(c, k + 1, OutOp(c, x, s[k + 1]))
    OBVIOUS
  <2>1. k \in Nat /\ k < Len(c.s)
    BY <1>4, <1>6
  <2> QED BY <1>3, <1>4, <2>1, OutStep
<1>10. OutKnows(c, Len(s), v)
  BY <1>6, <1>7, <1>8, <1>9, OutFold!FoldKeeps
<1>11. Left(c, Len(s)) = Nil
  <2>1. Len(s) + 1 .. Len(s) = {}
    BY <1>6
  <2> QED BY <1>4, <2>1 DEF Left, Nil
<1> QED BY <1>2, <1>10, <1>11 DEF OutKnows, Good, Kin

\* The fields of a closet.
LEMMA ClosetOwn ==
  ASSUME NEW r, NEW w, Good(r, w), NEW i \in DOMAIN w.obj, w.obj[i].kind \in Closet
  PROVE  DOMAIN w.own[i] = {"open", "locked"} /\ w.obj[i].kind \notin Wall \cup Projectile \cup {"human", "opener"}
<1>1. OwnFits(w, w.obj[i].kind, w.own[i])
  BY GoodForms
<1>2. DOMAIN w.own[i] = {"open", "locked"}
  BY <1>1, NewOwnIs DEF OwnFits
<1> QED BY <1>2 DEF Wall, Projectile, Closet

\* A closet is opened or shut, and lets pass what it then lets pass.
LEMMA ClosetStateGood ==
  ASSUME NEW r, NEW w, Good(r, w), NEW i \in DOMAIN w.obj, w.obj[i].kind \in Closet, NEW open \in BOOLEAN,
         NEW x, x = [w EXCEPT !.own[i].open = open],
         NEW p, p = IF open THEN FULL ELSE AIR, NEW v, v = SetPassable(x, i, "all", p)
  PROVE  Good(r, v) /\ Twins(w, v)
<1>1. PICK U : U = Nil \cup {i}
  OBVIOUS
<1>2. Sane(Nil, U, r, w) /\ i \in U
  BY <1>1, LooseSane DEF Good
<1>3. /\ DOMAIN w = Members /\ DOMAIN w.own = DOMAIN w.obj /\ OwnFits(w, w.obj[i].kind, w.own[i])
  BY GoodForms
<1>4. DOMAIN w.own[i] = {"open", "locked"} /\ w.obj[i].kind \notin Wall \cup Projectile \cup {"human", "opener"}
  BY ClosetOwn
<1>5. PICK e : e = [w.own[i] EXCEPT !.open = open]
  OBVIOUS
<1>6. DOMAIN e = DOMAIN w.own[i] /\ e.open = open
  BY <1>4, <1>5
<1>7. Only({"own"}, w, x) /\ x.own = OwnsSet(w, i, e)
  BY <1>3, <1>5 DEF Only, Members, OwnsSet
<1>8. OwnFine(w, i, e)
  BY <1>3, <1>4, <1>6, SimpleOwn
<1>9. Sane(Nil, U, r, x)
  BY <1>2, <1>7, <1>8, OwnStep
<1>10. x.obj = w.obj /\ x.own[i] = e
  BY <1>3, <1>7, SameFields DEF OwnsSet
<1>11. PICK d : d = "all"
  OBVIOUS
<1>12. d \in Way /\ p \in PassableLevel /\ x.obj[i].kind \notin Wall /\ i \in DOMAIN x.obj
  BY <1>4, <1>10, <1>11 DEF Way, PassableLevel
<1>13. Fitting(x, i, d, p)
  BY <1>6, <1>10, <1>11 DEF Fitting, ShapeFits, Closet
<1>14. v = SetPassable(x, i, d, p)
  BY <1>11
<1>15. Sane(Nil, Nil, r, v) /\ Only({"obj", "sum", "flags"}, x, v) /\ v.obj = PassSet(x, i, d, p)
  <2>1. Sane(Nil, Nil \cup {i}, r, x)
    BY <1>1, <1>9
  <2>2. i \in DOMAIN x.obj /\ d \in Way /\ p \in PassableLevel /\ x.obj[i].kind \notin Wall
    BY <1>12
  <2>3. v = SetPassable(x, i, d, p) /\ Fitting(x, i, d, p)
    BY <1>13, <1>14
  <2> QED BY ONLY <2>1, <2>2, <2>3, PassKeeps
<1>16. Stays(x, v)
  BY <1>9, <1>12, <1>15, PassStays
<1> QED BY <1>10, <1>15, <1>16 DEF Good, Stays, Twins

\* Opening a closet puts all of it on the tile.
LEMMA OpenClosetGood ==
  ASSUME NEW r, NEW w, Good(r, w), NEW i \in DOMAIN w.obj, w.obj[i].kind \in Closet
  PROVE  Good(r, OpenCloset(w, i))
<1>1. CASE w.own[i].locked
  BY <1>1 DEF OpenCloset
<1>2. CASE ~w.own[i].locked
  <2>1. PICK out : out = Released(w, i)
    OBVIOUS
  <2>2. PICK y : y = Emptied(out, i)
    OBVIOUS
  <2>3. /\ Good(r, y) /\ Only({"obj", "content", "sum", "flags"}, w, out)
        /\ i \in DOMAIN out.obj /\ out.obj[i] = w.obj[i]
    BY <2>1, <2>2, OutGood
  <2>4. DOMAIN out = Members
    BY <2>3 DEF Only
  <2>5. y.obj = out.obj
    BY <2>2, <2>4 DEF Emptied, Members
  <2>6. PICK x : x = [y EXCEPT !.own[i].open = TRUE]
    OBVIOUS
  <2>7. [out EXCEPT !.content[i] = <<>>, !.own[i].open = TRUE] = x
    BY <2>2, <2>4, <2>6 DEF Emptied, Members
  <2>8. PICK p, open : p = FULL /\ open = TRUE
    OBVIOUS
  <2>9. PICK v : v = SetPassable(x, i, "all", p)
    OBVIOUS
  <2>10. OpenCloset(w, i) = v
    BY <1>2, <2>1, <2>7, <2>8, <2>9 DEF OpenCloset
  <2>11. x = [y EXCEPT !.own[i].open = open] /\ open \in BOOLEAN /\ p = IF open THEN FULL ELSE AIR
    BY <2>6, <2>8
  <2>12. i \in DOMAIN y.obj /\ y.obj[i].kind \in Closet
    BY <2>3, <2>5
  <2> QED BY <2>3, <2>9, <2>10, <2>11, <2>12, ClosetStateGood
<1> QED BY <1>1, <1>2

-----------------------------------------------------------------------------
(* Bumps.                                                                  *)

\* What is in a tile is there, and is no turf.
LEMMA ContentIs ==
  ASSUME NEW A, NEW U, NEW r, NEW w, Sane(A, U, r, w), NEW t \in Tile, NEW n \in DOMAIN w.content[t]
  PROVE  /\ w.content[t][n] \in DOMAIN w.obj /\ w.obj[w.content[t][n]].owner = t
         /\ w.obj[w.content[t][n]].kind \in Kind \ Turf
<1>1. Formed(w) /\ Settled(A, w)
  BY DEF Sane, Sound, Nearly
<1>2. t \in DOMAIN w.content /\ w.content[t] \in Seq(Nat)
  BY <1>1 DEF Formed, Contents
<1>3. n \in 1 .. Len(w.content[t])
  BY <1>2
<1>4. Lies(A, w, w.content[t][n], t, Suits(t))
  BY <1>1, <1>2, <1>3 DEF Settled, InContents
<1> QED BY <1>4 DEF Lies, Suits

\* What is in the way is an object.
LEMMA InTheWayIs ==
  ASSUME NEW A, NEW U, NEW r, NEW w, Sane(A, U, r, w), NEW t \in Tile, NEW inside, NEW d, NEW level,
         NEW hit, hit = InTheWay(w, t, inside, d, level), hit # None
  PROVE  hit \in DOMAIN w.obj
<1>1. PICK side : side = Blocking(w, t, IF inside THEN d ELSE RevertDir(d), level)
  OBVIOUS
<1>2. PICK whole : whole = IF inside THEN {} ELSE Blocking(w, t, "all", level)
  OBVIOUS
<1>3. w.content[t] \in Seq(Nat)
  <2>1. Formed(w)
    BY SaneForms
  <2> QED BY <2>1 DEF Formed, Contents
<1>4. DOMAIN w.content[t] \subseteq Nat
  BY <1>3
<1>5. side \subseteq DOMAIN w.content[t] /\ whole \subseteq DOMAIN w.content[t]
  BY <1>1, <1>2 DEF Blocking
<1>6. side # {} => Min(side) \in DOMAIN w.content[t]
  BY <1>4, <1>5, MinIsIn
<1>7. whole # {} => Min(whole) \in DOMAIN w.content[t]
  BY <1>4, <1>5, MinIsIn
<1>8. hit = IF side # {} THEN w.content[t][Min(side)]
            ELSE IF whole # {} THEN w.content[t][Min(whole)] ELSE None
  BY <1>1, <1>2 DEF InTheWay
<1>9. \A n \in DOMAIN w.content[t] : w.content[t][n] \in DOMAIN w.obj
  BY ContentIs
<1>10. CASE side # {}
  BY <1>6, <1>8, <1>9, <1>10
<1>11. CASE side = {} /\ whole # {}
  BY <1>7, <1>8, <1>9, <1>11
<1>12. CASE side = {} /\ whole = {}
  BY <1>8, <1>12
<1> QED BY <1>10, <1>11, <1>12

\* Bumping an object keeps the invariant.
LEMMA BumpObjectGood ==
  ASSUME NEW r, NEW w, Good(r, w), NEW o \in DOMAIN w.obj, NEW i \in DOMAIN w.obj, NEW f \in Vector
  PROVE  Good(r, BumpObject(w, o, f, i))
<1>1. PICK kind : kind = w.obj[o].kind
  OBVIOUS
<1>2. KindOf(w, o) = kind /\ \A j \in DOMAIN w.obj : KindOf(w, j) = w.obj[j].kind
  BY <1>1, GoodForms
<1>3. PICK v : v = BumpObject(w, o, f, i)
  OBVIOUS
<1>4. v = IF kind \in {"door", "glassdoor"} THEN IF Is(w, i, Mob) THEN OpenDoor(w, o) ELSE w
          ELSE IF kind \in Closet /\ Contains(w.content[o], i) THEN BumpCloset(w, o)
          ELSE IF kind \in Breakable /\ Is(w, i, Projectile) THEN Hit(w, o, Damage(KindOf(w, i)))
          ELSE IF kind = "human" /\ Is(w, i, Projectile) THEN Wound(w, o, i)
          ELSE IF kind \notin Movable \/ ~Is(w, i, Mob) THEN w
          ELSE IF kind = "glass" /\ DirOf(w, i) # DirOf(w, o) THEN TurnGlass(w, o, i) ELSE ApplyForce(w, o, f)
  BY <1>2, <1>3 DEF BumpObject
<1>5. kind \in {"door", "glassdoor"} => Good(r, OpenDoor(w, o))
  BY <1>1, OpenDoorSane DEF Good, IsDoor
<1>6. kind \in Closet => Good(r, BumpCloset(w, o))
  BY <1>1, OpenClosetGood DEF BumpCloset
<1>7. ASSUME kind \in Breakable, NEW damage PROVE Good(r, Hit(w, o, damage))
  BY <1>1, <1>7, HitGood
<1>8. kind = "human" => Good(r, Wound(w, o, i))
  BY <1>1, WoundSane DEF Good, IsHuman
<1>9. kind = "glass" => Good(r, TurnGlass(w, o, i))
  BY <1>1, TurnGlassGood
<1>10. kind \in Movable => Good(r, ApplyForce(w, o, f))
  BY <1>1, ApplyForceGood
<1>11. Good(r, v)
  BY <1>4, <1>5, <1>6, <1>7, <1>8, <1>9, <1>10
<1> QED BY <1>3, <1>11

\* An object is owned by a tile, or by a closet or a human that is there.
LEMMA OwnerIs ==
  ASSUME NEW U, NEW r, NEW w, Sane(Nil, U, r, w), NEW i \in DOMAIN w.obj
  PROVE  w.obj[i].owner \in Tile \cup (DOMAIN w.obj) \cup {None}
<1>1. w.obj[i].owner # None => Has(w, w.obj[i].owner, i)
  BY DEF Sane, Sound, Nearly, Settled, Homed, Nil
<1> QED BY <1>1 DEF Has, Is, KindOf, IsValid, Closet, Hand

\* So does bumping whatever there is.
LEMMA BumpGood ==
  ASSUME NEW r, NEW w, Good(r, w), NEW o \in Tile \cup (DOMAIN w.obj) \cup {None}, NEW i \in DOMAIN w.obj,
         NEW f \in Vector
  PROVE  Good(r, Bump(w, o, f, i))
<1>1. PICK hit : hit = IF o \in Tile
                       THEN InTheWay(w, o, Owner(w, i) = o, DirOf(w, i), LevelOf(KindOf(w, i))) ELSE o
  OBVIOUS
<1>2. hit # None => hit \in DOMAIN w.obj
  <2>1. CASE o \in Tile
    BY <1>1, <2>1, InTheWayIs DEF Good
  <2>2. CASE o \notin Tile
    BY <1>1, <2>2
  <2> QED BY <2>1, <2>2
<1>3. Bump(w, o, f, i) = IF hit = None THEN w ELSE BumpObject(w, hit, f, i)
  BY <1>1 DEF Bump
<1> QED BY <1>2, <1>3, BumpObjectGood

\* Windows do not bump into anything that minds.
LEMMA BumpOfGlass ==
  ASSUME NEW U, NEW r, NEW w, Sane(Nil, U, r, w), NEW o \in Tile \cup (DOMAIN w.obj) \cup {None},
         NEW i \in DOMAIN w.obj, w.obj[i].kind = "glass", NEW f
  PROVE  Bump(w, o, f, i) = w
<1>1. KindOf(w, i) = "glass" /\ \A j \in DOMAIN w.obj : KindOf(w, j) = w.obj[j].kind
  BY SaneForms
<1>2. ~Is(w, i, Mob) /\ ~Is(w, i, Projectile)
  BY <1>1 DEF Is, Mob, Projectile
<1>3. ASSUME NEW h \in DOMAIN w.obj PROVE BumpObject(w, h, f, i) = w
  <2>1. ASSUME w.obj[h].kind \in Closet PROVE ~Contains(w.content[h], i)
    <3>1. Formed(w) /\ Settled(Nil, w)
      BY DEF Sane, Sound, Nearly
    <3>2. h \in DOMAIN w.content /\ h \notin Tile
      BY <2>1, <3>1, SaneForms DEF Formed, Contents
    <3>3. w.content[h] \in Seq(Nat)
      BY <3>1, <3>2 DEF Formed, Contents
    <3>4. SUFFICES ASSUME Contains(w.content[h], i) PROVE FALSE
      OBVIOUS
    <3>5. PICK n \in 1 .. Len(w.content[h]) : w.content[h][n] = i
      <4>1. i \in ToSet(w.content[h]) /\ DOMAIN w.content[h] = 1 .. Len(w.content[h])
        BY <3>3, <3>4, ContainsIs
      <4> QED BY <4>1 DEF ToSet
    <3>6. Lies(Nil, w, i, h, Suits(h))
      BY <3>1, <3>2, <3>5 DEF Settled, InContents
    <3> QED BY <3>2, <3>6 DEF Lies, Suits, Item, Gun, Cloth
  <2>2. KindOf(w, h) = w.obj[h].kind
    BY <1>1
  <2> QED BY <1>2, <2>1, <2>2 DEF BumpObject
<1>4. PICK hit : hit = IF o \in Tile
                       THEN InTheWay(w, o, Owner(w, i) = o, DirOf(w, i), LevelOf(KindOf(w, i))) ELSE o
  OBVIOUS
<1>5. hit # None => hit \in DOMAIN w.obj
  <2>1. CASE o \in Tile
    BY <1>4, <2>1, InTheWayIs
  <2>2. CASE o \notin Tile
    BY <1>4, <2>2
  <2> QED BY <2>1, <2>2
<1>6. Bump(w, o, f, i) = IF hit = None THEN w ELSE BumpObject(w, hit, f, i)
  BY <1>4 DEF Bump
<1> QED BY <1>3, <1>5, <1>6
=============================================================================
