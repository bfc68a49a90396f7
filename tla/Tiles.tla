-------------------------------- MODULE Tiles --------------------------------
(***************************************************************************)
(* The map: tiles, closets and humans as containers of objects, what can   *)
(* pass where and who can reach what (Tile.cpp, MapObject.h,               *)
(* MaterialObject.h, Closet.cpp).  The world is a record, and an operation *)
(* of the code is an operator from worlds to worlds:                       *)
(*   obj      members that MapObject, MaterialObject and Movable declare,  *)
(*            of every object but the tiles, which are the ids up to       *)
(*            Width * Height                                               *)
(*   own      members that the class of the object declares                *)
(*   content  content_ of each tile and closet                             *)
(*   turf     turf_ of each tile                                           *)
(*   sum      sum_passable_*_ of each tile                                 *)
(*   flags    what the tile last told the atmosphere of itself             *)
(*   (the others: Movables)                                                *)
(* An id of an object that was deleted is not in obj any more: IdPtr is    *)
(* not valid from Delete on, whenever the memory is freed.                 *)
(***************************************************************************)
EXTENDS Things, SequencesExt

CONSTANTS Width, Height

ASSUME MapAssumption == Width \in Nat \ {0} /\ Height \in Nat \ {0}

Tile == 1 .. Width * Height
At(x, y) == 1 + x + Width * y
X(t) == (t - 1) % Width
Y(t) == (t - 1) \div Width

\* GetNeighbour and MoveToDir: at the edge of the map a tile is its own neighbour.
Neighbour(t, d) ==
  LET x == X(t) + DirToVDir(d).x
      y == Y(t) + DirToVDir(d).y
  IN  IF x \in 0 .. Width - 1 /\ y \in 0 .. Height - 1 THEN At(x, y) ELSE t

IsValid(w, i) == i \in DOMAIN w.obj
KindOf(w, i) == IF i = Hand THEN "hand" ELSE IF IsValid(w, i) THEN w.obj[i].kind ELSE "none"
Is(w, i, class) == KindOf(w, i) \in class
Owner(w, i) == w.obj[i].owner
DirOf(w, i) == w.obj[i].dir

\* GetOwner of what may be a tile, and GetRoot: an item is at most in a hand of
\* a human who is in a closet.
Above(w, i) == IF i \in Tile \/ ~IsValid(w, i) THEN i ELSE IF Owner(w, i) = None THEN i ELSE Owner(w, i)
Root(w, i) == Above(w, Above(w, Above(w, i)))
GetTurf(w, i) == IF Root(w, i) \in Tile THEN w.turf[Root(w, i)] ELSE None

GetPassable(w, i, v) == IF i \in Tile THEN w.sum[i][v] ELSE w.obj[i].pass[v]

\* A closet and a human are their own neighbours.
GetNeighbour(w, i, d) == IF i \in Tile THEN Neighbour(i, d) ELSE i

\* GetItem: what was added last to the tile.
ItemsOf(w, t, class) == {n \in DOMAIN w.content[t] : w.obj[w.content[t][n]].kind \in class}
HasItem(w, t, class) == ItemsOf(w, t, class) # {}
LastItem(w, t, class) == w.content[t][Max(ItemsOf(w, t, class))]

-----------------------------------------------------------------------------
(* Passability.                                                            *)

\* An element of the set that is below no other: the code's std::min.
Least(levels) == CHOOSE m \in levels : \A n \in levels : m <= n

\* What stands on the tile, its turf included.
Standing(w, t) == ({w.turf[t]} \ {None}) \cup ToSet(w.content[t])

Summed(w, t) ==
  Kept([v \in Way |-> Least({FULL} \cup {w.obj[i].pass[v] : i \in Standing(w, t)})])

\* The flags a tile sets in the grid of the atmosphere: the ways it blocks, whether
\* it is space, whether nothing stands on it.
AtmosFlags(w, t, sum) ==
  {v \in Way : ~CanPass(sum[v], AIR)}
    \cup (IF w.turf[t] # None /\ w.obj[w.turf[t]].kind = "space" THEN {"space"} ELSE {})
    \cup (IF w.content[t] = <<>> THEN {"no_objects"} ELSE {})

\* The tile has new sums and tells the atmosphere.
WithSum(w, t, sum) ==
  [w EXCEPT !.sum[t] = sum, !.flags[t] = AtmosFlags(w, t, sum)]

\* Of any owner: a closet and a human keep no sums.
UpdatePassable(w, t) == IF t \in Tile THEN WithSum(w, t, Summed(w, t)) ELSE w

\* Mutant: the owner is not told.
SetPassableSilently(w, i, v, p) == [w EXCEPT !.obj[i].pass[v] = p]

SetPassable(w, i, v, p) ==
  UpdatePassable([w EXCEPT !.obj[i].pass[v] = p], w.obj[i].owner)

SetTurf(w, t, i) ==
  UpdatePassable(
    IF IsValid(w, i) THEN [w EXCEPT !.turf[t] = i, !.obj[i].owner = t] ELSE [w EXCEPT !.turf[t] = None], t)

-----------------------------------------------------------------------------
(* Adding and removing.                                                    *)

Put(w, c, i) == [w EXCEPT !.content[c] = Append(@, i), !.obj[i].owner = c]

\* CubeTile::AddObject: the sums get the minimum with the new object's.
TileAdd(w, t, i) ==
  WithSum(Put(w, t, i), t, Kept([v \in Way |-> AtMost(w.sum[t][v], w.obj[i].pass[v])]))

\* AddObject: what is no container asks its own owner; a closet takes items and humans.
Container(w, c) == IF c \in Tile \/ Is(w, c, Closet) THEN c ELSE Above(w, c)

Takes(w, c, i) ==
  \/ Container(w, c) \in Tile
  \/ Is(w, Container(w, c), Closet) /\ Is(w, i, Item \cup {"human"})

AddTo(w, c, i) == IF c \in Tile THEN TileAdd(w, c, i) ELSE Put(w, c, i)
AddObject(w, c, i) == IF Takes(w, c, i) THEN AddTo(w, Container(w, c), i) ELSE w

SlotsOf(w, h, i) == {s \in Slot : w.own[h].slot[s] = i}

\* HumanInterface::RemoveItem: the slot that has the item gets free.
Unslot(w, h, i) == [w EXCEPT !.own[h].slot = Kept([s \in Slot |-> IF @[s] = i THEN None ELSE @[s]])]

\* RemoveObject of a tile, a closet and a human, and whether it finds the object.
Has(w, c, i) ==
  IF c \in Tile THEN i = w.turf[c] \/ Contains(w.content[c], i)
  ELSE IF Is(w, c, Closet) THEN Contains(w.content[c], i)
  ELSE Is(w, c, {"human"}) /\ SlotsOf(w, c, i) # {}

Taken(w, c, i) == [w EXCEPT !.content[c] = RemoveFirst(@, i)]

RemoveObject(w, c, i) ==
  IF ~Has(w, c, i) THEN w
  ELSE IF c \in Tile
  THEN IF i = w.turf[c] THEN SetTurf(w, c, None) ELSE UpdatePassable(Taken(w, c, i), c)
  ELSE IF Is(w, c, Closet) THEN Taken(w, c, i) ELSE Unslot(w, c, i)

Without(f, i) == Kept([j \in (DOMAIN f) \ {i} |-> f[j]])

\* MapObject::Delete: from its owner, then from the table.
Delete(w, i) ==
  [(IF Owner(w, i) = None THEN w ELSE RemoveObject(w, Owner(w, i), i))
     EXCEPT !.obj = Without(@, i), !.own = Without(@, i)]

-----------------------------------------------------------------------------
(* Reach: CubeTile::CanTouch, Closet::CanTouch, MapObject::CanTouch.       *)

Open(w, i, v) == CanPass(GetPassable(w, i, v), BIG_ITEM)

\* The object is within reach when its own far side shuts it off or its tile's is open.
Faces(w, o, d) == ~Open(w, o, RevertDir(d)) \/ Open(w, Owner(w, o), RevertDir(d))

Straight(w, t, o, d) == Open(w, t, d) /\ Faces(w, o, d)

Diagonal(w, t, o, d, e) ==
  LET n == Neighbour(t, d)
  IN  /\ Open(w, t, d)
      /\ Open(w, n, RevertDir(d)) /\ Open(w, n, "all")
      /\ Open(w, n, e)
      /\ Faces(w, o, e)

TileTouches(w, t, o) ==
  /\ IsValid(w, o) /\ Owner(w, o) \in Tile
  /\ LET u == Owner(w, o)
         h == IF X(t) > X(u) THEN "west" ELSE "east"
         v == IF Y(t) > Y(u) THEN "north" ELSE "south"
     IN  /\ Abs(X(t) - X(u)) <= 1 /\ Abs(Y(t) - Y(u)) <= 1
         /\ \/ t = u
            \/ X(t) = X(u) /\ t # u /\ Straight(w, t, o, v)
            \/ Y(t) = Y(u) /\ t # u /\ Straight(w, t, o, h)
            \/ /\ X(t) # X(u) /\ Y(t) # Y(u)
               /\ Diagonal(w, t, o, h, v) \/ Diagonal(w, t, o, v, h)

\* Of a human, whose owner decides.
CanTouch(w, h, o) ==
  LET c == Owner(w, h)
  IN  IF c \in Tile THEN TileTouches(w, c, o) ELSE Is(w, c, Closet) /\ Contains(w.content[c], o)
=============================================================================
