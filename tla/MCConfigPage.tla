---------------------------- MODULE MCConfigPage ---------------------------
(***************************************************************************)
(* The configuration page under TLC: three values, of which the server     *)
(* fills in the second and the form writes out the third; a row with a     *)
(* name and one without; a long and a short key; two requests on their     *)
(* way, two changes of the configuration, something typed once.            *)
(***************************************************************************)
EXTENDS ConfigPage, TLC

MCDefaults == <<1, 1, 3>>
MCExplicit == <<1, 2, 1>>
MCTrim == [row \in Rows |-> IF row = " " THEN Nameless ELSE row]

\* Configurations to import or to type, and the one that is live at first.
Start == [fields |-> 3, rows |-> {"alias", " "}, rest |-> 2, key |-> "short"]
MCFiles == {[fields |-> 2, rows |-> {"alias"}, rest |-> 1, key |-> "long"]}

MCInit == Init /\ config = Start
MCSpec == MCInit /\ [][Next]_vars
=============================================================================
