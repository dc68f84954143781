--------------------------- MODULE MCAdminConsole --------------------------
(***************************************************************************)
(* The admin web interface under TLC: two tabs that share one storage, two *)
(* sessions, two requests on their way at once.                            *)
(***************************************************************************)
EXTENDS AdminConsole, TLC

CONSTANT second \* one of the tabs

\* Bound: one tab does everything, the other signs in by password and out and stays
\* with the login page and the overview.
Narrow ==
  /\ at[second] \in {"login", "overview"}
  /\ \A r \in net : r.tab = second => r.op # "me"

\* Bound: sessions issued, answers lost and switches of login together.
Few == Cardinality(issued) + fails + switches <= 2

MCSpec == Init /\ [][Next /\ Narrow' /\ Few']_vars /\ Fairness
=============================================================================
