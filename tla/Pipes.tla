------------------------------- MODULE Pipes -------------------------------
(***************************************************************************)
(* The machines of Pipes.cpp and GasTank.cpp as functions: which sides of  *)
(* a pipe have a socket, what joining two of them does, and what a machine *)
(* does with the gas in one Process.  Machines are named by their ids; the *)
(* gas in the tiles is air, the gas in the machines is held.               *)
(***************************************************************************)
EXTENDS AtmosGrid, FiniteSets

CONSTANTS
  Machine,          \* ids of pipes and tanks, in the order of their creation
  KindOf,           \* the class of a machine
  DirOf,            \* its direction
  CellOf,           \* the tile it stands on
  PumpPressure,     \* pump_pressure_ of a PipePump
  None              \* an IdPtr that is not valid

PipeKind == {"pipe", "valve", "pump", "manifold", "vent", "connector"}

ASSUME PipesAssumption ==
  /\ Machine \subseteq Nat /\ IsFiniteSet(Machine)
  /\ None \notin Machine
  /\ KindOf \in [Machine -> PipeKind \cup {"tank"}]
  /\ CellOf \in [Machine -> Cell]
  /\ PumpPressure \in Nat

\* CubeTile::GetNeighbour: a tile at the edge is its own neighbour.
Neighbour(c, d) == IF Near(c, d) \in Cell THEN Near(c, d) ELSE c

\* GetTailAndHead: the head, then the tail.
HeadAndTail ==
  [west |-> <<"west", "east">>, east |-> <<"east", "west">>,
   north |-> <<"north", "south">>, south |-> <<"south", "north">>,
   southeast |-> <<"east", "south">>, southwest |-> <<"south", "west">>,
   northeast |-> <<"north", "east">>, northwest |-> <<"west", "north">>]

\* GetConnectionsDirs: tail, left, right.
TailLeftRight ==
  [south |-> <<"north", "east", "west">>, north |-> <<"south", "west", "east">>,
   east |-> <<"west", "north", "south">>, west |-> <<"east", "south", "north">>]

\* The sides a machine has a socket on, in the order it looks at them.
SocketsOf(kind, dir) ==
  IF kind \in {"pipe", "valve", "pump"} THEN HeadAndTail[dir]
  ELSE IF kind = "manifold" THEN TailLeftRight[dir]
  ELSE IF kind = "tank" THEN <<>>
  ELSE <<dir>>

Sockets == [m \in Machine |-> SocketsOf(KindOf[m], DirOf[m])]

HasSocket(m, d) == \E i \in DOMAIN Sockets[m] : Sockets[m][i] = d

ASSUME SocketsAssumption ==
  /\ \A m \in Machine : \A i \in DOMAIN Sockets[m] : Sockets[m][i] \in Side
  /\ \A m \in Machine : KindOf[m] = "pump" => 1 \in DOMAIN Sockets[m]

\* The GetItem<GasTank> of a connector's tile: the one that came last.  A tank
\* on a connector is anchored, so it stays there.
IsTankOf(t, m) ==
  /\ KindOf[t] = "tank" /\ CellOf[t] = CellOf[m]
  /\ \A u \in Machine : KindOf[u] = "tank" /\ CellOf[u] = CellOf[m] => u <= t

-----------------------------------------------------------------------------
(* Joining.  ends[m][d] is the machine at socket d of m.                   *)

\* Connect returns true: the machine has a socket there and it is free.
Accepts(ends, m, d) == HasSocket(m, d) /\ ends[m][d] = None

\* The machines of the neighbouring tile that would accept m.
Ready(ends, m, d) ==
  {n \in Machine : CellOf[n] = Neighbour(CellOf[m], d) /\ Accepts(ends, n, Revert(d))}

\* Mutant: the machine found is not told.
ConnectOneWay(ends, m, d, n) == [ends EXCEPT ![m][d] = n]

Connect(ends, m, d, n) == [ends EXCEPT ![n][Revert(d)] = m, ![m][d] = n]

-----------------------------------------------------------------------------
(* The gas.  g is a record of air and held.                                *)

HALF == MAX_GAS_LEVEL \div 2

\* a->Connect(b) of two machines; one with itself gives what it takes.
ConnectMachines(g, a, b, lo, lg, share) ==
  IF a = b THEN g
  ELSE [g EXCEPT
    !.held = [@ EXCEPT ![a] = ConnectOwner(g.held[a], g.held[b], lo, lg, share),
                       ![b] = ConnectGuest(g.held[a], g.held[b], lo, lg, share)]]

\* The tile's holder is the owner.
ConnectTile(g, c, m, lo, lg, share) ==
  [air |-> [g.air EXCEPT ![c] = ConnectOwner(@, g.held[m], lo, lg, share)],
   held |-> [g.held EXCEPT ![m] = ConnectGuest(g.air[c], @, lo, lg, share)]]

\* The tank is the owner.
ConnectTank(g, c, m) ==
  [air |-> [g.air EXCEPT ![c] = ConnectGuest(g.held[m], @, MAX_GAS_LEVEL, MAX_GAS_LEVEL, HALF)],
   held |-> [g.held EXCEPT ![m] = ConnectOwner(@, g.air[c], MAX_GAS_LEVEL, MAX_GAS_LEVEL, HALF)]]

\* Side d of m lets gas through: of a valve when it is open, of a pump when it
\* is its back.
CanTransferGas(state, m, d) ==
  /\ KindOf[m] = "valve" => state[m] = "open"
  /\ KindOf[m] = "pump" => Revert(d) = DirOf[m]

\* ProcessHelper: a socket without a machine is open to the tile.
ProcessHelper(g, ends, state, m, d) ==
  IF ends[m][d] = None
  THEN ConnectTile(g, CellOf[m], m, MAX_GAS_LEVEL, MAX_GAS_LEVEL, HALF)
  ELSE IF CanTransferGas(state, ends[m][d], Revert(d))
  THEN ConnectMachines(g, ends[m][d], m, MAX_GAS_LEVEL, MAX_GAS_LEVEL, HALF)
  ELSE g

ProcessSocket(g, ends, state, m, i) ==
  IF i \in DOMAIN Sockets[m] THEN ProcessHelper(g, ends, state, m, Sockets[m][i]) ELSE g

ProcessSockets(g, ends, state, m) ==
  ProcessSocket(ProcessSocket(ProcessSocket(g, ends, state, m, 1), ends, state, m, 2), ends, state, m, 3)

\* The front of a PipePump: a quarter of its gas, unless the pressure there is
\* what it can pump against.
ProcessHead(g, ends, m, d) ==
  LET quarter == MAX_GAS_LEVEL \div 4
  IN  IF ends[m][d] # None
      THEN IF g.held[ends[m][d]].pressure >= PumpPressure THEN g
           ELSE ConnectMachines(g, ends[m][d], m, MAX_GAS_LEVEL, quarter, MAX_GAS_LEVEL)
      ELSE IF g.air[CellOf[m]].pressure >= PumpPressure THEN g
           ELSE ConnectTile(g, CellOf[m], m, MAX_GAS_LEVEL, quarter, MAX_GAS_LEVEL)

Pump(g, ends, state, m) ==
  ProcessHead(ProcessSocket(g, ends, state, m, 2), ends, m, Sockets[m][1])

ProcessTank(g, m) ==
  LET tanks == {t \in Machine : IsTankOf(t, m)}
  IN  IF tanks = {} THEN g
      ELSE ConnectMachines(g, CHOOSE t \in tanks : TRUE, m, MAX_GAS_LEVEL, MAX_GAS_LEVEL, HALF)

\* Process of a machine.
Processed(g, ends, state, m) ==
  IF KindOf[m] \in {"pipe", "manifold"} THEN ProcessSockets(g, ends, state, m)
  ELSE IF KindOf[m] = "valve" THEN
    IF state[m] = "closed" THEN g ELSE ProcessSockets(g, ends, state, m)
  ELSE IF KindOf[m] = "pump" THEN Pump(g, ends, state, m)
  ELSE IF KindOf[m] = "vent" THEN
    ConnectTile(ProcessSockets(g, ends, state, m), CellOf[m], m, MAX_GAS_LEVEL, MAX_GAS_LEVEL, HALF)
  ELSE IF KindOf[m] = "connector" THEN ProcessTank(ProcessSockets(g, ends, state, m), m)
  ELSE IF state[m] = "closed" THEN g ELSE ConnectTank(g, CellOf[m], m)
=============================================================================
