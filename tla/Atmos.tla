-------------------------------- MODULE Atmos --------------------------------
(***************************************************************************)
(* Gas in the world: the tiles' holders, which are the cells of the grid,  *)
(* the pipes and tanks of Pipes, and the part of a tick that moves gas     *)
(* (WorldImplementation::StartTick): the objects take their turns, the     *)
(* grid spreads the gas in fifteen steps and finishes, ProcessConsequences *)
(* turns flows into wind and pressure into bumps and lets fires burn, and  *)
(* then the messages of the tick open and close what players click on.     *)
(***************************************************************************)
EXTENDS Pipes, Functions

CONSTANTS
  Layouts,           \* the flags and the air a map may begin with
  Rooms,             \* sets of cells, watched for leaks
  Movers,            \* the cells whose centre a door or a closet can block
  People, Welders,   \* the cells where somebody breathes or welds
  MaxTick, MaxActs   \* bounds: ticks, and steps by people, of a behaviour

ASSUME AtmosAssumption ==
  /\ \A l \in Layouts : /\ l.flags \in [Cell -> SUBSET Flag]
                        /\ l.air \in [Cell -> AtmosData]
                        /\ \A c \in Cell : IsCurrent(l.air[c])
  /\ Rooms \subseteq SUBSET Cell
  /\ Movers \subseteq Cell /\ People \subseteq Cell /\ Welders \subseteq Cell
  /\ MaxTick \in Nat /\ MaxActs \in Nat

VARIABLES
  air,               \* data of each cell of the grid
  flows,             \* what each cell gained from each side in this tick
  flags,             \* of each cell
  held,              \* atmos_holder_ of each machine
  ends,              \* the machine at each socket of each machine
  state,             \* of each valve and tank: closed, open or broken
  pushes,            \* the forces the gas applied in this tick
  phase,             \* where the tick is
  next,              \* the machine whose turn it is, None after the last
  step,              \* of the pass; the socket looked at while pipes are joined
  tick,              \* game_tick
  acts               \* steps by people so far

vars == <<air, flows, flags, held, ends, state, pushes, phase, next, step, tick, acts>>

Phase == {"link", "objects", "grid", "consequences", "messages"}

Still == [c \in Cell |-> [d \in Side |-> 0]]

\* The first machine with a number above m: one, or None when there is none.
After(m) == {n \in Machine : n > m}
FirstAfter(m) ==
  IF After(m) = {} THEN {None} ELSE {n \in After(m) : \A o \in After(m) : n <= o}
First == FirstAfter(-1)

\* The constructor of GasTank.
FullTank == AddStuff(AddStuff(Empty, "oxygen", 10000), "energy", 5000)

\* FillTilesAtmosHolders and LoadGrid have run; every pipe is full of air.
Init ==
  /\ \E l \in Layouts : flags = l.flags /\ air = l.air
  /\ flows = Still
  /\ held = [m \in Machine |-> IF KindOf[m] = "tank" THEN FullTank ELSE DefaultAir(1)]
  /\ ends = [m \in Machine |-> [d \in Side |-> None]]
  /\ state = [m \in Machine |-> "closed"]
  /\ pushes = {}
  /\ phase = "link" /\ next \in First /\ step = 1
  /\ tick = 0 /\ acts = 0

-----------------------------------------------------------------------------
(* The creation of the world: AfterWorldCreation of one machine after      *)
(* another, each looking for a partner for one socket after another.       *)

JoinSocket ==
  /\ phase = "link" /\ next # None
  /\ step \in DOMAIN Sockets[next]
  /\ LET d == Sockets[next][step]
         ready == Ready(ends, next, d)
     IN  IF ends[next][d] # None \/ ready = {}
         THEN UNCHANGED ends
         ELSE \E n \in ready : /\ \A o \in ready : n <= o
                               /\ ends' = Connect(ends, next, d, n)
  /\ step' = step + 1
  /\ UNCHANGED <<air, flows, flags, held, state, pushes, phase, next, tick, acts>>

Joined ==
  /\ phase = "link" /\ next # None
  /\ step \notin DOMAIN Sockets[next]
  /\ next' \in FirstAfter(next)
  /\ step' = 1
  /\ UNCHANGED <<air, flows, flags, held, ends, state, pushes, phase, tick, acts>>

\* The tick that follows the creation, or the last tick.
StartTick ==
  /\ \/ phase = "link" /\ next = None
     \/ phase = "messages"
  /\ tick < MaxTick
  /\ tick' = tick + 1
  /\ phase' = "objects" /\ next' \in First /\ step' = 0
  /\ pushes' = {}
  /\ UNCHANGED <<air, flows, flags, held, ends, state, acts>>

-----------------------------------------------------------------------------
(* RunProcess.  The machines came into the list when the world was         *)
(* created; people and burning welders came later and are behind them.     *)

ProcessMachine ==
  /\ phase = "objects" /\ next # None
  /\ LET g == Processed([air |-> air, held |-> held], ends, state, next)
     IN  air' = g.air /\ held' = g.held
  /\ next' \in FirstAfter(next)
  /\ UNCHANGED <<flows, flags, ends, state, pushes, phase, step, tick, acts>>

HUMAN_PLASMA_TOXINS_THRESHOLD == 35

\* The gas side of Human::Live: plasma is breathed in unless the human is too
\* weak, and oxygen becomes CO2.
Exhaled(d) ==
  IF d.amount["oxygen"] > 0 THEN AddStuff(RemoveGase(d, "oxygen", 1), "co2", 1) ELSE d

Breathed(d) ==
  {Exhaled(d)} \cup
  (IF d.amount["plasma"] > HUMAN_PLASMA_TOXINS_THRESHOLD
   THEN {Exhaled(RemoveGase(d, "plasma", 1))} ELSE {})

Live(c) ==
  /\ phase = "objects" /\ next = None /\ acts < MaxActs
  /\ \E d \in Breathed(air[c]) : air' = [air EXCEPT ![c] = d]
  /\ acts' = acts + 1
  /\ UNCHANGED <<flows, flags, held, ends, state, pushes, phase, next, step, tick>>

\* Process of a working Weldingtool that lies, or is held, on the tile.
Weld(c) ==
  /\ phase = "objects" /\ next = None /\ acts < MaxActs
  /\ air' = [air EXCEPT ![c] = Ignite(@)]
  /\ acts' = acts + 1
  /\ UNCHANGED <<flows, flags, held, ends, state, pushes, phase, next, step, tick>>

ObjectsDone ==
  /\ phase = "objects" /\ next = None
  /\ phase' = "grid"
  /\ UNCHANGED <<air, flows, flags, held, ends, state, pushes, next, step, tick, acts>>

-----------------------------------------------------------------------------
(* Atmosphere::Process.                                                    *)

Spread ==
  /\ phase = "grid" /\ step <= LastStep
  /\ air' = SpreadAir(air, flags, Centres(flags, step, tick))
  /\ flows' = SpreadFlows(air, flows, flags, Centres(flags, step, tick))
  /\ step' = step + 1
  /\ UNCHANGED <<flags, held, ends, state, pushes, phase, next, tick, acts>>

FinalizePass ==
  /\ phase = "grid" /\ step > LastStep
  /\ air' = Finalize(air, flags)
  /\ phase' = "consequences"
  /\ UNCHANGED <<flows, flags, held, ends, state, pushes, next, step, tick, acts>>

-----------------------------------------------------------------------------
(* ProcessConsequences.  A cell's consequences read nothing that another    *)
(* cell's write, so all of them are one step.                               *)

FLOW_MOVE_BORDER == -15
PRESSURE_MOVE_BORDER == 1000
UNPASSABLE_FREQUENCY == 6
PARTS_AMOUNT == 8

\* The sides a cell's gas streamed out to.
Outflow(c) == {d \in Side : flows[c][d] <= FLOW_MOVE_BORDER}

\* The force on the topmost object of the tile that is not passable.
Wind(c) ==
  IF "no_objects" \in flags[c] THEN {}
  ELSE {[cell |-> c, kind |-> "wind",
         x |-> (IF "east" \in Outflow(c) THEN 1 ELSE 0) - (IF "west" \in Outflow(c) THEN 1 ELSE 0),
         y |-> (IF "south" \in Outflow(c) THEN 1 ELSE 0) - (IF "north" \in Outflow(c) THEN 1 ELSE 0)]}

\* The sides of a cell that its gas bumps from inside, and its neighbour's gas
\* from outside: a cell in six looks each tick, and none at the edge.
Looks(c) ==
  /\ c[1] > 0 /\ c[1] < Width - 1 /\ c[2] > 0 /\ c[2] < Height - 1
  /\ "center" \notin flags[c]
  /\ (c[1] + c[2]) % UNPASSABLE_FREQUENCY = tick % UNPASSABLE_FREQUENCY

Bumps(c) ==
  IF ~Looks(c) THEN {}
  ELSE {[cell |-> c, kind |-> "inside", x |-> DX(d), y |-> DY(d)] : d \in
          {d \in Side : /\ d \in flags[c]
                        /\ air[Near(c, d)].pressure + PRESSURE_MOVE_BORDER < air[c].pressure}}
       \cup
       {[cell |-> c, kind |-> "outside", x |-> -DX(d), y |-> -DY(d)] : d \in
          {d \in Side : /\ d \in flags[c]
                        /\ Revert(d) \notin flags[Near(c, d)]
                        /\ air[c].pressure + PRESSURE_MOVE_BORDER < air[Near(c, d)].pressure}}

\* ProcessTileFire looks at an eighth of the map each tick.
OnFire(c) ==
  /\ c[2] \div (Height \div PARTS_AMOUNT) = tick % PARTS_AMOUNT
  /\ air[c].fire

\* A tank in the fire may break apart.
Heated == {m \in Machine : KindOf[m] = "tank" /\ state[m] # "broken" /\ OnFire(CellOf[m])}

ProcessConsequences ==
  /\ phase = "consequences"
  /\ pushes' = {p \in UNION {Wind(c) \cup Bumps(c) : c \in Cell} : p.x # 0 \/ p.y # 0}
  /\ flows' = Still
  /\ \E broken \in SUBSET Heated :
       state' = [m \in Machine |-> IF m \in broken THEN "broken" ELSE state[m]]
  /\ phase' = "messages"
  /\ UNCHANGED <<air, flags, held, ends, next, step, tick, acts>>

-----------------------------------------------------------------------------
(* The messages of the tick.                                               *)

\* AttackBy of a Valve, and of a GasTank by a hand.
Click(m) ==
  /\ phase = "messages" /\ acts < MaxActs
  /\ KindOf[m] \in {"valve", "tank"} /\ state[m] # "broken"
  /\ state' = [state EXCEPT ![m] = IF @ = "open" THEN "closed" ELSE "open"]
  /\ acts' = acts + 1
  /\ UNCHANGED <<air, flows, flags, held, ends, pushes, phase, next, step, tick>>

\* A door or a closet on the tile opens or closes, UpdateAtmosPassable.
SetFlags(c) ==
  /\ phase = "messages" /\ acts < MaxActs
  /\ flags' = [flags EXCEPT ![c] = IF "center" \in @ THEN @ \ {"center"} ELSE @ \cup {"center"}]
  /\ acts' = acts + 1
  /\ UNCHANGED <<air, flows, held, ends, state, pushes, phase, next, step, tick>>

Next ==
  \/ JoinSocket \/ Joined \/ StartTick
  \/ ProcessMachine \/ ObjectsDone
  \/ \E c \in People : Live(c)
  \/ \E c \in Welders : Weld(c)
  \/ Spread \/ FinalizePass \/ ProcessConsequences
  \/ \E m \in Machine : Click(m)
  \/ \E c \in Movers : SetFlags(c)

Spec == Init /\ [][Next]_vars

-----------------------------------------------------------------------------
(* Properties.                                                             *)

GasOK == air \in [Cell -> AtmosData] /\ held \in [Machine -> AtmosData]

(* Every holder of gas stays one: no exchange, breath or fire takes more   *)
(* out of a cell, a pipe or a tank than it contains.                       *)
AtmosTypeOK ==
  /\ GasOK
  /\ flows \in [Cell -> [Side -> Int]]
  /\ flags \in [Cell -> SUBSET Flag]
  /\ ends \in [Machine -> [Side -> Machine \cup {None}]]
  /\ state \in [Machine -> {"closed", "open", "broken"}]
  /\ phase \in Phase
  /\ next \in Machine \cup {None}
  /\ step \in Nat /\ tick \in Nat /\ acts \in Nat

(* What one cell gained through a side its neighbour has lost through it,  *)
(* whichever of the two was the centre and however often: the wind of a    *)
(* tick never blows two neighbours against each other.                     *)
FlowsBalance ==
  \A c \in Cell, d \in Side :
    Near(c, d) \in Cell => flows[c][d] + flows[Near(c, d)][Revert(d)] = 0

(* The pressure and the temperature that doors, pumps, people and forces   *)
(* read are those of the gas that is there: only in the middle of a pass,  *)
(* when nobody looks, are they out of date.                                *)
CachedIsCurrent ==
  /\ phase # "grid" => \A c \in Cell : IsCurrent(air[c])
  /\ \A m \in Machine : IsCurrent(held[m])

(* Every cell, pipe and tank holds what a holder can hold, and who reads   *)
(* its pressure or temperature reads that of what it holds.                *)
CellsSound == AtmosTypeOK /\ CachedIsCurrent

\* No gas can cross the border of the room.
Sealed(room) ==
  \A c \in room, d \in Side :
    Near(c, d) \in Cell \ room =>
      \/ d \in flags[c] \/ Revert(d) \in flags[Near(c, d)]
      \/ "center" \in flags[c] \cup flags[Near(c, d)]

InRoom(room, s) == SumFunctionOnSet([c \in Cell |-> air[c].amount[s]], room)
InMachines(s) == SumFunctionOnSet([m \in Machine |-> held[m].amount[s]], Machine)
InWorld(s) == InRoom(Cell, s) + InMachines(s)

(* A pass neither makes gas or energy nor loses any, to the last unit that *)
(* cannot be divided, and a room that is closed on all sides, thin walls   *)
(* that block one side of one cell included, keeps exactly what it has.    *)
(* What flows through pipes and tanks is neither made nor lost.            *)
GasConserved ==
  [][/\ Spread => \A room \in Rooms, s \in Stuff : Sealed(room) => InRoom(room, s)' = InRoom(room, s)
     /\ ProcessMachine => \A s \in Stuff : InWorld(s)' = InWorld(s)]_vars

(* Joined pipes are joined both ways, whatever order they were created in  *)
(* and however many of them look at one socket: gas never flows into a     *)
(* pipe that would not give it back.                                       *)
PipesMutual ==
  \A m \in Machine, d \in Side :
    ends[m][d] # None => HasSocket(m, d) /\ HasSocket(ends[m][d], Revert(d)) /\ ends[ends[m][d]][Revert(d)] = m
=============================================================================
