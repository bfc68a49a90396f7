------------------------------- MODULE MCAtmos -------------------------------
(***************************************************************************)
(* A map of two by two groups of four cells.  Two cabins, with a wall that  *)
(* is thin, a corridor behind a door, and space beyond it:                 *)
(*                                                                         *)
(*      0   1 2   3 4   5   6   7       # wall, blocked in its centre      *)
(*    0 #   # #   # #   #   #   #       | the east side of column 2        *)
(*  1-6 #   a a | b b   #D  c   .       D the door, at (5, 3)              *)
(*    7 #   # #   # #   #   #   #       . space                            *)
(***************************************************************************)
EXTENDS Atmos

Left == (1..2) \X (1..6)
Right == (3..4) \X (1..6)
Corridor == {6} \X (1..6)
Outside == {7} \X (1..6)
Door == {<<5, 3>>}

FlagsOf(c) ==
  (IF c \in Left \cup Right \cup Corridor \cup Outside THEN {} ELSE {"center"})
    \cup (IF c \in Outside THEN {"space"} ELSE {})
    \cup (IF c[1] = 2 THEN {"east"} ELSE {})
    \cup (IF c \in Outside \cup Corridor THEN {"no_objects"} ELSE {})

\* Plasma has leaked into the left cabin.
AirOf(c) ==
  IF c \in Left THEN AddStuff(DefaultAir(1), "plasma", 60)
  ELSE IF c \in Right \cup Corridor THEN DefaultAir(1)
  ELSE Empty

MCLayouts == {[flags |-> [c \in Cell |-> FlagsOf(c)], air |-> [c \in Cell |-> AirOf(c)]]}

MCRooms == {Left, Right, Right \cup Door, Right \cup Door \cup Corridor \cup Outside, Cell}

MCMovers == Door
MCPeople == {<<1, 3>>, <<4, 4>>}
MCWelders == {<<1, 2>>}

\* A tank on a connector, a pump and a valve through the thin wall, and a vent;
\* a manifold between a corner and a pipe at the edge; another pipe at the edge.
MCKindOf ==
  <<"connector", "pump", "valve", "vent", "tank", "manifold", "pipe", "pipe", "pipe">>
MCDirOf ==
  <<"east", "east", "east", "west", "south", "north", "west", "northeast", "west">>
MCCellOf ==
  <<<<1, 2>>, <<2, 2>>, <<3, 2>>, <<4, 2>>, <<1, 2>>, <<1, 3>>, <<0, 3>>, <<1, 4>>, <<0, 6>>>>
=============================================================================
