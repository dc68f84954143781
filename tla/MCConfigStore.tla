--------------------------- MODULE MCConfigStore ---------------------------
(***************************************************************************)
(* ConfigStore under TLC: two administrators, two upstreams, one device,   *)
(* a client token, a long key (and a short one where that matters), three  *)
(* edits, one failed save and one restart.                                 *)
(***************************************************************************)
EXTENDS ConfigStore, TLC

CONSTANTS a1, a2, u1, u2, d1, c1, long, short

MCAdmins == {a1, a2}
MCUps == {u1, u2}
MCDevs == {d1}
MCClients == {c1}
MCKeys == {long}
MCAllKeys == {long, short}
MCShort == {short}
MCNone == {}
MCLimits == {0, 1}
Symmetry == Permutations(MCAdmins) \cup Permutations(MCUps)
=============================================================================
