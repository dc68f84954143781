----------------------------- MODULE MCUiPages ------------------------------
(***************************************************************************)
(* The table pages under TLC: two handlers on their way at once, two pages *)
(* mounted one after the other, two changes by the server.                 *)
(***************************************************************************)
EXTENDS UiPages, TLC
=============================================================================
