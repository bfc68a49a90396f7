---------------------------- MODULE GameSession ----------------------------
(***************************************************************************)
(* What the registry promises about one game after another, without         *)
(* queues, ticks or connections: a game starts with one member, who is its *)
(* master; others join while it lasts; when the master leaves, one of the  *)
(* remaining members takes over, and the game ends with its last member.    *)
(***************************************************************************)
EXTENDS Integers

CONSTANTS Player, NoMaster

VARIABLES present, master

Init == present = {} /\ master = NoMaster

Start(p) ==
  /\ present = {}
  /\ present' = {p}
  /\ master' = p

Join(p) ==
  /\ present # {}
  /\ p \notin present
  /\ present' = present \cup {p}
  /\ UNCHANGED master

Leave(p) ==
  /\ p \in present
  /\ present' = present \ {p}
  /\ \/ master # p /\ UNCHANGED master
     \/ master = p /\ master' \in present'
     \/ master = p /\ present' = {} /\ master' = NoMaster

Next == \E p \in Player : Start(p) \/ Join(p) \/ Leave(p)

Spec == Init /\ [][Next]_<<present, master>>
=============================================================================
