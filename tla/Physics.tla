------------------------------- MODULE Physics -------------------------------
(***************************************************************************)
(* Directions, vectors (KvGlobals.h) and the arithmetic of forces          *)
(* (PhysicsEngine.cpp).  A force is a sum of pushes; an object under one   *)
(* steps along its larger component and, as often as the smaller one is    *)
(* part of it, along that.  Forces are horizontal, so the third component  *)
(* of a vector is always zero and left out.                                *)
(***************************************************************************)
EXTENDS Integers

\* The function itself; the comparison makes TLC keep its values and not the expression.
Kept(f) == CHOOSE g \in {f} : g = f

\* The function with one more argument, or another value there.
With(f, i, e) == Kept([j \in (DOMAIN f) \cup {i} |-> IF j = i THEN e ELSE f[j]])

Dir == {"west", "east", "north", "south"}
Way == Dir \cup {"all"}

Vector == [x : Int, y : Int]
Zero == [x |-> 0, y |-> 0]

FORCE_UNIT == 100
ERROR_SCALE == 2048

Abs(n) == IF n < 0 THEN -n ELSE n
AtLeast(m, n) == IF m >= n THEN m ELSE n
AtMost(m, n) == IF m <= n THEN m ELSE n

IsZero(v) == v.x = 0 /\ v.y = 0
Plus(u, v) == [x |-> u.x + v.x, y |-> u.y + v.y]
Times(k, v) == [x |-> k * v.x, y |-> k * v.y]
Minus(u, v) == Plus(u, Times(-1, v))

DirToVDir(d) ==
  [x |-> IF d = "west" THEN -1 ELSE IF d = "east" THEN 1 ELSE 0,
   y |-> IF d = "north" THEN -1 ELSE IF d = "south" THEN 1 ELSE 0]

ProjectionToDir(v, d) ==
  IF d = "west" THEN -v.x
  ELSE IF d = "east" THEN v.x
  ELSE IF d = "north" THEN -v.y
  ELSE IF d = "south" THEN v.y ELSE 0

RevertDir(d) ==
  IF d = "west" THEN "east"
  ELSE IF d = "east" THEN "west"
  ELSE IF d = "north" THEN "south"
  ELSE IF d = "south" THEN "north" ELSE d

\* The direction of the larger component; south when there is none.
VDirToDir(v) ==
  IF Abs(v.x) > Abs(v.y)
  THEN IF v.x > 0 THEN "east" ELSE "west"
  ELSE IF v.y >= 0 THEN "south" ELSE "north"

-----------------------------------------------------------------------------
(* The members of Movable that forces use.                                 *)

Motion ==
  [force : Vector, main : Dir, second : Dir,
   error : -(ERROR_SCALE \div 2) .. (3 * ERROR_SCALE) \div 2, per_main : 0 .. ERROR_SCALE]

Rest == [force |-> Zero, main |-> "south", second |-> "south", error |-> 0, per_main |-> 0]

EastWest(f) == IF f.x > 0 THEN "east" ELSE "west"
NorthSouth(f) == IF f.y > 0 THEN "south" ELSE "north"
IsTall(f) == Abs(f.x) < Abs(f.y)
Main(f) == IF IsTall(f) THEN NorthSouth(f) ELSE EastWest(f)
Second(f) == IF IsTall(f) THEN EastWest(f) ELSE NorthSouth(f)

Share(f) ==
  (AtMost(Abs(f.x), Abs(f.y)) * ERROR_SCALE) \div AtLeast(1, AtLeast(Abs(f.x), Abs(f.y)))

\* PhysicsEngine::ApplyForce.
Pushed(m, addition) ==
  LET f == Plus(m.force, addition)
  IN  [m EXCEPT !.force = f, !.main = Main(f), !.second = Second(f),
                !.error = IF Second(f) = m.second THEN @ ELSE 0,
                !.per_main = Share(f)]

TakesSecond(m) == m.error >= ERROR_SCALE \div 2
First(m) == IF TakesSecond(m) THEN m.second ELSE m.main
Other(m) == IF TakesSecond(m) THEN m.main ELSE m.second

\* PhysicsEngine::ProcessForceTick: the way to step, "all" for none, and the error.
ForceStep(m) ==
  IF ProjectionToDir(m.force, First(m)) >= FORCE_UNIT
  THEN [way |-> First(m),
        error |-> IF TakesSecond(m) THEN m.error - ERROR_SCALE ELSE m.error + m.per_main]
  ELSE [way |-> IF ProjectionToDir(m.force, Other(m)) >= FORCE_UNIT THEN Other(m) ELSE "all",
        error |-> 0]

\* What friction takes from the force for a step.
StepForce(d) == Times(FORCE_UNIT, DirToVDir(d))
=============================================================================
