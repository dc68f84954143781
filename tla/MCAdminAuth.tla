---------------------------- MODULE MCAdminAuth ----------------------------
(***************************************************************************)
(* AdminAuth under TLC: two handlers of one address, two failures to a     *)
(* lock, a failure window of one tick, a lock of two, a session of two.    *)
(***************************************************************************)
EXTENDS AdminAuth, TLC

CONSTANTS ip1, r1, r2, s1, s2

MCIPs == {ip1}
MCRequests == {r1, r2}
MCSessions == {s1, s2}
Symmetry == Permutations(MCRequests) \cup Permutations(MCSessions)
=============================================================================
