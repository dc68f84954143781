------------------------------ MODULE MCUiApp ------------------------------
(***************************************************************************)
(* The playground, the settings and the usage page under TLC: three        *)
(* messages, two writes of the settings, two selections, and two pages     *)
(* mounted.                                                                *)
(***************************************************************************)
EXTENDS UiApp, TLC

\* Bound: a behaviour is about one of the three pages.
Apart == Cardinality({i \in 1 .. 3 : <<writes > 0, key > 1, changes > 0>>[i]}) <= 1

MCSpec == AppInit /\ [][AppNext /\ Apart']_appVars /\ Fairness
=============================================================================
