------------------------------ MODULE MCStation ------------------------------
(***************************************************************************)
(* Small maps for Station, four tiles wide and three high.  Somebody who   *)
(* logs in starts on tile 7; 6 is the other tile not at the edge.          *)
(***************************************************************************)
EXTENDS Station

CONSTANTS p1, p2

Players == {p1, p2}

Air == [oxygen |-> TRUE, plasma |-> FALSE, heat |-> 0]
Vacuum == [oxygen |-> FALSE, plasma |-> FALSE, heat |-> 5]

Everywhere(air) == [t \in Tile |-> air]

\* Every tile gets a turf, floor unless another is named.
Turfs(special) ==
  [t \in Tile |-> <<IF t \in DOMAIN special THEN special[t] ELSE "floor", t, "south">>]

Tick == [type |-> "tick"]
Joins(p) == [type |-> "join", player |-> p]
Does(p, key, c) == [type |-> "ordinary", player |-> p, key |-> key, chance |-> c]
As(job) == [NoChance EXCEPT !.job = job]
Uses(p, i) == [type |-> "click", player |-> p, object |-> i, action |-> "left", chance |-> NoChance]
Enters(p, job) == Does(p, "login_click", As(job))

Knock == [NoChance EXCEPT !.knocked = TRUE]

\* Doors and a closet; the second player is in the lobby.
Hall ==
  [things |-> Turfs(<<>>) \o <<<<"door", 6, "south">>, <<"closet", 8, "south">>, <<"rod", 8, "south">>, <<"glassdoor", 3, "south">>>>,
   env |-> Everywhere(Air),
   game |-> <<Joins(p2), Tick, Enters(p1, "doctor"), Tick, Does(p1, "drop", NoChance), Tick>>,
   keys |-> {"east", "west", "north", "login_click"}, targets |-> {"door", "closet", "glassdoor", "brutepack"},
   clicks |-> {"left", "left_control"}, gusts |-> {}, chances |-> {As("security")}]

\* Somebody who cannot breathe in an open closet, and somebody who may shut it.
Coffin ==
  [things |-> Turfs(<<>>) \o <<<<"closet", 8, "south">>>>,
   env |-> [Everywhere(Air) EXCEPT ![8] = Vacuum],
   game |-> <<Joins(p2), Tick, Enters(p1, "assistant"), Uses(p1, 25), Does(p1, "east", NoChance), Tick,
              Enters(p2, "assistant"), Tick>>,
   keys |-> {"lay"}, targets |-> {"closet"},
   clicks |-> {"left"}, gusts |-> {}, chances |-> {NoChance}]

\* A wall among walls, taken down and built again.
Site ==
  [things |-> Turfs((6 :> "wall") @@ (10 :> "rwall") @@ (11 :> "wall")) \o <<<<"welder", 7, "south">>>>,
   env |-> Everywhere(Air),
   game |-> <<Tick, Enters(p1, "assistant"), Tick, Uses(p1, 25), Tick, Does(p1, "right_hand", NoChance),
              Uses(p1, 18), Does(p1, "swap", NoChance), Tick>>,
   keys |-> {"east", "swap", "right_hand"}, targets |-> {"wall", "girder", "metal"},
   clicks |-> {"left"}, gusts |-> {}, chances |-> {NoChance}]

\* Windows and a grille.
Yard ==
  [things |-> Turfs(<<>>)
      \o <<<<"glass", 7, "south">>, <<"glass", 8, "west">>, <<"grille", 3, "south">>, <<"wirecutters", 7, "south">>>>,
   env |-> Everywhere(Air),
   game |-> <<Tick, Enters(p1, "assistant"), Tick, Uses(p1, 28), Tick>>,
   keys |-> {"east", "right_hand", "swap"}, targets |-> {"glass", "grille", "rod"},
   clicks |-> {"left", "left_r"},
   gusts |-> {[how |-> "flow", tile |-> 7, way |-> "west", strength |-> 1],
              [how |-> "inside", tile |-> 7, way |-> "south", strength |-> 31]},
   chances |-> {NoChance}]

\* Two people, one of them armed.
Duel ==
  [things |-> Turfs(<<>>) \o <<<<"glass", 6, "west">>>>,
   env |-> Everywhere(Air),
   game |-> <<Joins(p2), Tick, Enters(p1, "barman"), Does(p1, "east", NoChance), Enters(p2, "assistant"),
              Does(p2, "west", NoChance), Tick>>,
   keys |-> {"west", "login_click", "right_hand"}, targets |-> {"human", "revolver", "glass"},
   clicks |-> {"left"}, gusts |-> {}, chances |-> {NoChance, Knock}]

\* Space, and a rod: nothing to hold on to until it is a lattice.
Outside ==
  [things |-> Turfs([t \in {2, 3, 6, 7, 8, 10, 11} |-> "space"])
      \o <<<<"fueltank", 10, "south">>, <<"rod", 7, "south">>>>,
   env |-> Everywhere(Air),
   game |-> <<Tick, Enters(p1, "assistant"), Tick, Uses(p1, 26), Tick>>,
   keys |-> {"west", "north"}, targets |-> {"fueltank", "space"},
   clicks |-> {"left", "left_control"},
   gusts |-> {[how |-> "flow", tile |-> 10, way |-> "east", strength |-> 1]},
   chances |-> {NoChance}]

Coffins == {Coffin}

SmallMaps == {Hall, Site, Yard, Duel, Outside}
=============================================================================
