------------------------------ MODULE MCRelay ------------------------------
(***************************************************************************)
(* Relay under TLC: up to three candidates of up to one retry each, every  *)
(* list length and budget as an initial state.                             *)
(***************************************************************************)
EXTENDS Relay
=============================================================================
