----------------------------- MODULE MCUiServer -----------------------------
(***************************************************************************)
(* The gateway-ui server under TLC: a limited device and a disabled one,   *)
(* two clients, one probe, two edits by the admin, a minute of two ticks.  *)
(***************************************************************************)
EXTENDS UiServer, TLC

CONSTANTS a1, a2, k0, c1, c2, m1, p1

MCSeedDevs == <<[rpm |-> 1, enabled |-> TRUE], [rpm |-> 0, enabled |-> FALSE]>>
=============================================================================
