---------------------------- MODULE MCLockstep ----------------------------
(* Three connections; the third is the first player again, after a loss.  *)
EXTENDS Lockstep

CONSTANTS a, b, again, ann, bob

Connections == {a, b, again}
Players == {ann, bob}
PlayerOf == [c \in Connections |-> IF c = b THEN bob ELSE ann]
=============================================================================
