------------------------------ MODULE MCLogger ------------------------------
(***************************************************************************)
(* Logger under TLC: lines of one, one and three bytes, a queue and a      *)
(* ring of two, a file of two bytes, three days, one file system fault     *)
(* and one restart.                                                        *)
(***************************************************************************)
EXTENDS Logger, TLC

CONSTANTS e1, e2, e3

MCEntries == {e1, e2, e3}
MCBytes == (e1 :> 1) @@ (e2 :> 1) @@ (e3 :> 3)
MCRetentions == {0, 1}
=============================================================================
