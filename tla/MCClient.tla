------------------------------ MODULE MCClient ------------------------------
(* A mob and something else, on one axis.                                  *)
EXTENDS Client

CONSTANTS mob, thing

Line == {"x"}
Visible == {mob, thing}
At(x) == [a \in Line |-> x]
Seen(id, click, level) == [id |-> id, click |-> click, level |-> level]

\* The mob over or under the other thing, both on top levels, or only one of them in view.
Both(x, es) == [entities |-> es, at |-> [id \in Visible |-> IF id = mob THEN At(x) ELSE At(1)], camera |-> At(x)]
Only(id, x) == [entities |-> <<Seen(id, TRUE, 1)>>, at |-> [i \in {id} |-> At(x)], camera |-> At(x)]
InView ==
    {Both(0, <<Seen(mob, TRUE, 1), Seen(thing, TRUE, 0)>>), Both(1, <<Seen(mob, TRUE, 3), Seen(thing, TRUE, 2)>>),
     Only(mob, 0), Only(thing, 1)}
=============================================================================
