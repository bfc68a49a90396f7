----------------------------- MODULE AtmosGrid -----------------------------
(***************************************************************************)
(* The grid of AtmosGrid.cpp as functions: which cells are the centres of  *)
(* a stage, what an exchange between a centre and its open neighbours      *)
(* leaves in each of them, and what ends the pass.                         *)
(*                                                                         *)
(* The code walks over the centres of a stage one after another.  Their    *)
(* five-cell neighbourhoods do not meet (AtmosProofs, StageIsParallel), so *)
(* the order makes no difference and Spread does a whole stage at once.    *)
(* For the same reason the code's loop over the groups around its loop     *)
(* over the stages is the loop over the stages alone: the inner cells of   *)
(* two groups, and the borders of two pairs of groups, have no neighbours  *)
(* in common.                                                              *)
(***************************************************************************)
EXTENDS Gas

CONSTANTS
  Width, Height,     \* of the map, and of the grid
  GroupSize          \* CELL_GROUP_SIZE

\* What AtmosGrid's constructor demands, and what keeps groups apart.
ASSUME GridAssumption ==
  /\ GroupSize \in Nat /\ GroupSize >= 4
  /\ Width \in Nat /\ Width >= 2 /\ Width % GroupSize = 0
  /\ Height \in Nat /\ Height >= 8 /\ Height % GroupSize = 0

Cell == (0..(Width - 1)) \X (0..(Height - 1))

Side == {"west", "north", "south", "east"}

Revert(d) ==
  IF d = "west" THEN "east" ELSE IF d = "east" THEN "west"
  ELSE IF d = "north" THEN "south" ELSE "north"

\* DirToVDir.
DX(d) == IF d = "west" THEN -1 ELSE IF d = "east" THEN 1 ELSE 0
DY(d) == IF d = "north" THEN -1 ELSE IF d = "south" THEN 1 ELSE 0

Near(c, d) == <<c[1] + DX(d), c[2] + DY(d)>>

\* A blocked side is named as the side is; "center" is CENTER_BLOCK.
Flag == Side \cup {"center", "space", "no_objects"}

-----------------------------------------------------------------------------
(* The centres of a stage.                                                 *)

STAGES_AMOUNT == 5

BelongsToStage(x, y, stage, tick) ==
  (x + y * 2) % STAGES_AMOUNT = (tick + stage) % STAGES_AMOUNT

\* ProcessGroups: the cells inside a group, by their place in the group.
IsInner(c, stage, tick) ==
  /\ c[1] % GroupSize \in 1..(GroupSize - 2)
  /\ c[2] % GroupSize \in 1..(GroupSize - 2)
  /\ BelongsToStage(c[1] % GroupSize, c[2] % GroupSize, stage, tick)

\* The last line of a group and the first of the next one.
IsBorder(x, size) ==
  \/ x % GroupSize = GroupSize - 1 /\ x < size - 1
  \/ x % GroupSize = 0 /\ x > 0

\* ProcessGroupsBorders, its first loop and its second.
IsColumn(c, stage, tick) ==
  /\ IsBorder(c[1], Width)
  /\ c[2] \in 1..(Height - 2)
  /\ BelongsToStage(c[1], c[2], stage, tick)

IsRow(c, stage, tick) ==
  /\ IsBorder(c[2], Height)
  /\ c[1] \in 1..(Width - 2)
  /\ BelongsToStage(c[1], c[2], stage, tick)

\* Steps 0..4 are the inner stages, 5..9 the columns, 10..14 the rows.
LastStep == 14

IsCentre(c, step, tick) ==
  \/ step < 5 /\ IsInner(c, step, tick)
  \/ step \in 5..9 /\ IsColumn(c, step - 5, tick)
  \/ step >= 10 /\ IsRow(c, step - 10, tick)

-----------------------------------------------------------------------------
(* One exchange.  near_cells of a centre are its neighbours on the open    *)
(* sides; a closed side adds nothing.                                      *)

Open(flags, k, d) ==
  /\ d \notin flags[k]
  /\ Revert(d) \notin flags[Near(k, d)]
  /\ "center" \notin flags[Near(k, d)]

NearAmount(air, flags, k, s, d) == IF Open(flags, k, d) THEN air[Near(k, d)].amount[s] ELSE 0

Sum(air, flags, k, s) ==
  air[k].amount[s]
    + NearAmount(air, flags, k, s, "west") + NearAmount(air, flags, k, s, "north")
    + NearAmount(air, flags, k, s, "south") + NearAmount(air, flags, k, s, "east")

One(flags, k, d) == IF Open(flags, k, d) THEN 1 ELSE 0

NearSize(flags, k) ==
  1 + One(flags, k, "west") + One(flags, k, "north")
    + One(flags, k, "south") + One(flags, k, "east")

Average(air, flags, k, s) == Sum(air, flags, k, s) \div NearSize(flags, k)

\* Mutant: the remainder is dropped.
RestLost(air, flags, k, s) == 0

\* The centre keeps what cannot be divided.
Rest(air, flags, k, s) == Sum(air, flags, k, s) % NearSize(flags, k)

\* A fire anywhere in the five cells spreads to all of them, given fuel.
Fire(air, flags, k) ==
  /\ \/ air[k].fire
     \/ \E d \in Side : Open(flags, k, d) /\ air[Near(k, d)].fire
  /\ Sum(air, flags, k, "plasma") # 0
  /\ Sum(air, flags, k, "oxygen") # 0

\* How much gas, energy not counted, side d of centre k gains.
Gain(air, flags, k, d) ==
  IF ~Open(flags, k, d) THEN 0
  ELSE (Average(air, flags, k, "oxygen") - air[Near(k, d)].amount["oxygen"])
     + (Average(air, flags, k, "co2") - air[Near(k, d)].amount["co2"])
     + (Average(air, flags, k, "nytrogen") - air[Near(k, d)].amount["nytrogen"])
     + (Average(air, flags, k, "plasma") - air[Near(k, d)].amount["plasma"])

-----------------------------------------------------------------------------
(* A stage: the centres are those of isCentre that are passable.           *)

\* c is the neighbour on side d of a centre that exchanges with it.
IsNearOf(flags, centres, c, d) ==
  /\ Near(c, Revert(d)) \in centres
  /\ Open(flags, Near(c, Revert(d)), d)

Centres(flags, step, tick) ==
  {c \in Cell : "center" \notin flags[c] /\ IsCentre(c, step, tick)}

\* pressure, volume and temperature stay as they are until Finalize.
SpreadAir(air, flags, centres) ==
  [c \in Cell |->
    IF c \in centres
    THEN [air[c] EXCEPT
            !.amount = [s \in Stuff |-> Average(air, flags, c, s) + Rest(air, flags, c, s)],
            !.fire = Fire(air, flags, c)]
    ELSE IF \E d \in Side : IsNearOf(flags, centres, c, d)
    THEN LET k == Near(c, Revert(CHOOSE d \in Side : IsNearOf(flags, centres, c, d)))
         IN  [air[c] EXCEPT
                !.amount = [s \in Stuff |-> Average(air, flags, k, s)],
                !.fire = Fire(air, flags, k)]
    ELSE air[c]]

\* Mutant: the flow is booked on the side away from the centre.
SpreadFlowsAway(air, flows, flags, centres) ==
  [c \in Cell |-> [d \in Side |->
    flows[c][d]
      - (IF c \in centres THEN Gain(air, flags, c, d) ELSE 0)
      + (IF IsNearOf(flags, centres, c, d)
         THEN Gain(air, flags, Near(c, Revert(d)), d) ELSE 0)]]

\* flows[c][d] grows by what c gains from its side d.
SpreadFlows(air, flows, flags, centres) ==
  [c \in Cell |-> [d \in Side |->
    flows[c][d]
      - (IF c \in centres THEN Gain(air, flags, c, d) ELSE 0)
      + (IF IsNearOf(flags, centres, c, Revert(d))
         THEN Gain(air, flags, Near(c, d), Revert(d)) ELSE 0)]]

\* Mutant: the cached values of cells in space are left alone.
FinalizeInside(air, flags) ==
  [c \in Cell |->
    IF "space" \in flags[c]
    THEN ProccesBurning([air[c] EXCEPT !.amount = Vented(@)])
    ELSE UpdateMacroParams(ProccesBurning(air[c]))]

\* Space takes a fifth away, fires burn, and the cached values are renewed.
Finalize(air, flags) ==
  [c \in Cell |->
    LET vented == IF "space" \in flags[c]
                  THEN [air[c] EXCEPT !.amount = Vented(@)]
                  ELSE air[c]
    IN  UpdateMacroParams(ProccesBurning(vented))]
=============================================================================
