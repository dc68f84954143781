------------------------------ MODULE MCHealth ------------------------------
(***************************************************************************)
(* Health under TLC: the ticker and one administrator, two upstreams       *)
(* probed one at a time, a threshold that changes between 1 and 2, two     *)
(* passes and one restart.                                                 *)
(***************************************************************************)
EXTENDS Health, TLC

CONSTANTS ticker, admin, u1, u2

MCProbers == {ticker, admin}
MCUps == {u1, u2}
MCConfigs == {[ups |-> {u1, u2}, threshold |-> 2, alerts |-> TRUE],
              [ups |-> {u1}, threshold |-> 1, alerts |-> FALSE]}

\* One upstream under a threshold of two, for a shorter counterexample.
MCConstant == {[ups |-> {u1}, threshold |-> 2, alerts |-> TRUE]}
=============================================================================
