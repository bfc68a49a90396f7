------------------------------ MODULE MCServer ------------------------------
(* Small instances of Server for TLC.                                      *)
EXTENDS Server, TLC

CONSTANTS c1, c2, c3, c4, admin, user, guest, guest2

\* Every login is used once.
OrderlyLogins == c1 :> admin @@ c2 :> guest @@ c3 :> user
\* The administrator logs in a second time on c3.
ReloginLogins == c1 :> user @@ c2 :> admin @@ c3 :> admin
\* Its two connections are alike.
AdminConnections == Permutations({c2, c3})
\* One administrator and one other client.
PairLogins == c1 :> admin @@ c2 :> user
\* Two administrators, the second after two guests came.
RestartLogins == c1 :> admin @@ c2 :> guest @@ c3 :> user @@ c4 :> guest2
=============================================================================
