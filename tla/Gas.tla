-------------------------------- MODULE Gas --------------------------------
(***************************************************************************)
(* What an AtmosHolder or a cell of the grid contains (AtmosConstants.h)   *)
(* and the operations of AtmosHolder.cpp on it, as functions of values.    *)
(* Energy is exchanged exactly as a gas is, so both are "stuff".           *)
(* Amounts are natural numbers: every operation keeps them so (AtmosProofs),*)
(* and the code's division, which rounds towards zero, is then \div.       *)
(***************************************************************************)
EXTENDS Integers

GASES == {"oxygen", "co2", "nytrogen", "plasma"}
Stuff == GASES \cup {"energy"}

MAX_GAS_LEVEL == 1000
ENERGY_CONST == 100
O2_MULTIPLIER == 2

AtmosData ==
  [amount : [Stuff -> Nat], pressure : Nat, temperature : Nat,
   volume : Nat, fire : BOOLEAN]

AtLeast(x, y) == IF x >= y THEN x ELSE y
AtMost(x, y) == IF x <= y THEN x ELSE y

\* Twice the denominator of the temperature: each gas by its degrees of freedom.
Freedom(amount) ==
  5 * amount["oxygen"] + 6 * amount["co2"] + 5 * amount["nytrogen"] + 8 * amount["plasma"]

Moles(amount) ==
  amount["oxygen"] + amount["co2"] + amount["nytrogen"] + amount["plasma"]

Temperature(amount) ==
  IF Freedom(amount) \div 2 = 0
  THEN 0
  ELSE (amount["energy"] * ENERGY_CONST) \div (Freedom(amount) \div 2)

Pressure(amount, volume) ==
  IF volume = 0 THEN 0 ELSE (Moles(amount) * Temperature(amount)) \div volume

UpdateMacroParams(d) ==
  [d EXCEPT !.temperature = Temperature(d.amount),
            !.pressure = Pressure(d.amount, d.volume)]

\* What is cached is what UpdateMacroParams would compute.
IsCurrent(d) == d = UpdateMacroParams(d)

WithAmount(d, amount) == UpdateMacroParams([d EXCEPT !.amount = amount])

-----------------------------------------------------------------------------
(* Operations of AtmosHolder.                                              *)

Empty ==
  [amount |-> [s \in Stuff |-> 0], pressure |-> 0, temperature |-> 0,
   volume |-> 1, fire |-> FALSE]

\* AddGase and AddEnergy, which differ in what they add to.
AddStuff(d, s, amount) == WithAmount(d, [d.amount EXCEPT ![s] = @ + amount])

\* AddDefaultValues, each amount divided by scale.
DefaultAir(scale) ==
  AddStuff(AddStuff(AddStuff(AddStuff(Empty,
    "nytrogen", 750 \div scale), "oxygen", 230 \div scale), "co2", 1), "energy", 1000 \div scale)

\* Takes no more than there is.
RemoveGase(d, s, amount) ==
  WithAmount(d, [d.amount EXCEPT ![s] = @ - AtMost(amount, @)])

Ignite(d) == [d EXCEPT !.fire = TRUE]

Part(amount, level) == (amount * level) \div MAX_GAS_LEVEL

\* Connect: each side gives its level, and the owner gets its share of the pool
\* back.  The result is what the owner and what the guest then contain.
Pool(owner, guest, lo, lg, s) == Part(owner.amount[s], lo) + Part(guest.amount[s], lg)

OwnerAmount(owner, guest, lo, lg, share, s) ==
  owner.amount[s] - Part(owner.amount[s], lo) + Part(Pool(owner, guest, lo, lg, s), share)

GuestAmount(owner, guest, lo, lg, share, s) ==
  guest.amount[s] - Part(guest.amount[s], lg)
    + (Pool(owner, guest, lo, lg, s) - Part(Pool(owner, guest, lo, lg, s), share))

ConnectOwner(owner, guest, lo, lg, share) ==
  WithAmount(owner, [s \in Stuff |-> OwnerAmount(owner, guest, lo, lg, share, s)])

ConnectGuest(owner, guest, lo, lg, share) ==
  WithAmount(guest, [s \in Stuff |-> GuestAmount(owner, guest, lo, lg, share, s)])

-----------------------------------------------------------------------------
(* Burning of a cell at the end of a pass of the grid.                     *)

MaxBurn(amount) == AtMost(amount["oxygen"] \div O2_MULTIPLIER, amount["plasma"])

Burn(amount) == AtMost(MaxBurn(amount), AtLeast(1, MaxBurn(amount) \div 32))

Burnt(amount) ==
  [amount EXCEPT !["oxygen"] = @ - Burn(amount) * O2_MULTIPLIER,
                 !["plasma"] = @ - Burn(amount),
                 !["co2"] = @ + Burn(amount),
                 !["energy"] = @ + Burn(amount) * 4]

ProccesBurning(d) ==
  IF ~d.fire THEN d
  ELSE IF MaxBurn(d.amount) = 0 THEN [d EXCEPT !.fire = FALSE]
  ELSE [d EXCEPT !.amount = Burnt(d.amount)]

\* What is left in space.
Vented(amount) == [s \in Stuff |-> (amount[s] * 4) \div 5]
=============================================================================
