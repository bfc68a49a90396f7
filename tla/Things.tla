------------------------------- MODULE Things -------------------------------
(***************************************************************************)
(* The classes of objects of the station and what their constructors set.  *)
(* A kind stands for a class, or for classes that differ in name and       *)
(* sprite only ("door" for Door, "boots" for every kind of shoes, "floor"  *)
(* for Floor and Plating).                                                 *)
(***************************************************************************)
EXTENDS Physics

CONSTANTS
  FUEL,        \* of a welding tool and of a tank full; 250 in the code
  AMMO,        \* of a revolver; 6 in the code
  RESPAWN      \* turns of a ghost until it may leave; 15 in the code

ASSUME ThingsAssumption == FUEL \in Nat /\ AMMO \in Nat /\ RESPAWN \in Nat

None == 0
Hand == -1     \* the hand of a human, the item somebody without an item uses

EMPTY == 0
AIR == 10
SMALL_ITEM == 20
BIG_ITEM == 30
SMALL_CREATURE == 40
BIG_CREATURE == 50
FULL == 100
PassableLevel == {EMPTY, AIR, SMALL_ITEM, BIG_ITEM, SMALL_CREATURE, BIG_CREATURE, FULL}

CanPass(block, object) == block >= object

-----------------------------------------------------------------------------
(* Classes.                                                                *)

Wall == {"wall", "rwall"}
Turf == Wall \cup {"floor", "space"}
Mob == {"human", "ghost", "loginmob"}
Projectile == {"bullet", "laser"}
Gun == {"revolver", "lasergun"}
Cloth == {"uniform", "boots", "helmet", "armor"}
Item == Gun \cup Cloth \cup
  {"screwdriver", "wirecutters", "crowbar", "wrench", "welder", "metal", "rod",
   "floortile", "shard", "casing", "brutepack", "opener"}
Closet == {"closet", "locker"}
Breakable == {"glass", "grille"}
Structure == Breakable \cup {"girder", "lattice"}
Movable == Mob \cup Projectile \cup Item \cup Closet \cup Structure \cup {"glassdoor", "table", "fueltank"}
Kind == Turf \cup Movable \cup {"door", "lobby"}

HUMAN_SLOTS ==
  [right_hand |-> "anything", left_hand |-> "anything", head |-> "helmet", mask |-> "mask",
   uniform |-> "uniform", feet |-> "boots", suit |-> "armor", back |-> "tank"]
Slot == DOMAIN HUMAN_SLOTS

IsTypeMatch(slot, kind) == HUMAN_SLOTS[slot] \in {"anything", kind}

Damage(kind) ==
  IF kind = "hand" THEN 1
  ELSE IF kind \in {"screwdriver", "wrench"} THEN 5
  ELSE IF kind = "wirecutters" THEN 10
  ELSE IF kind = "crowbar" THEN 15
  ELSE IF kind = "bullet" THEN 20 ELSE 0

BurnDamage(kind) == IF kind = "laser" THEN 10 ELSE 0

\* SetTickSpeed: the ticks between two steps.
TickSpeed(kind) == IF kind \in Breakable THEN 5 ELSE 1

-----------------------------------------------------------------------------
(* Constructors.                                                           *)

PassableAll(kind) ==
  IF kind \in Wall \cup {"door"} THEN EMPTY
  ELSE IF kind \in Closet \cup {"girder", "grille", "fueltank"} THEN AIR
  ELSE IF kind = "table" THEN SMALL_CREATURE
  ELSE IF kind = "human" THEN BIG_ITEM ELSE FULL

LevelOf(kind) ==
  IF kind = "human" THEN BIG_CREATURE
  ELSE IF kind = "ghost" THEN EMPTY
  ELSE IF kind \in Item \cup Projectile THEN SMALL_ITEM ELSE FULL

\* What every object has: of a turf and a door only owner and pass are used.
New(kind) ==
  [kind |-> kind, owner |-> None,
   pass |-> Kept([v \in Way |-> IF v = "all" THEN PassableAll(kind) ELSE FULL]),
   dir |-> "south", anchored |-> kind \in {"glassdoor", "girder", "lattice", "table"},
   motion |-> Rest, last_move |-> 0, freq |-> 0]

NewHuman ==
  [slot |-> Kept([s \in Slot |-> None]), active_hand |-> "right_hand", pulled |-> None,
   lying |-> FALSE, lay_timer |-> 0, attack_cooldown |-> 0, dead |-> FALSE,
   suffocation |-> 0, burn |-> 0, brute |-> 0, toxins |-> 0]

\* The members of the class itself.
NewOwn(kind) ==
  CASE kind \in {"door", "glassdoor"} -> [state |-> "closed", last_tick |-> 0]
    [] kind \in Closet -> [open |-> FALSE, locked |-> kind = "locker"]
    [] kind \in Breakable -> [hit_points |-> IF kind = "glass" THEN 20 ELSE 15, cutted |-> FALSE]
    [] kind \in Projectile -> [movement |-> <<>>, step |-> 1, harmless |-> TRUE]
    [] kind \in Gun -> [ammunition |-> IF kind = "revolver" THEN AMMO ELSE 20]
    [] kind \in Wall -> [walls |-> {}]
    [] kind = "human" -> NewHuman
    [] kind = "ghost" -> [seconds |-> RESPAWN]
    [] kind = "lobby" -> [seconds |-> 1]
    [] kind = "welder" -> [on |-> FALSE, fuel |-> FUEL]
    [] kind = "opener" -> [door |-> None]
    [] kind \in {"floor"} -> [open |-> FALSE]
    [] OTHER -> [none |-> None]
=============================================================================
