---------------------------- MODULE MCAdmission ----------------------------
(***************************************************************************)
(* Admission under TLC: a device with limits of its own, and a legacy      *)
(* token under the global ones whose policy adds an rpm; two requests, two *)
(* saves that may overlap, a minute and a UTC day of two ticks each.  One  *)
(* configuration has no global limits (the default), the other has both    *)
(* and stores raw tokens.                                                  *)
(***************************************************************************)
EXTENDS Admission, TLC

CONSTANTS r1, r2, s1, s2, dev, tok

MCRequests == {r1, r2}
MCSaves == {s1, s2}
MCDevices == {dev}
MCTokens == {tok}
MCDeviceRPM == [d \in {dev} |-> 1]
MCDeviceDaily == [d \in {dev} |-> 1]
MCPolicyRPM == (dev :> 0) @@ (tok :> 1)
Open == [rpm |-> 0, daily |-> 0, warn |-> 80, raw |-> FALSE]
Limited == [rpm |-> 1, daily |-> 2, warn |-> 50, raw |-> TRUE]
MCConfigs == {Open, Limited}
MCKeys == {dev, tok, <<"tok", tok>>}
MCQKeys == {<<"dev", dev>>, <<"raw", tok>>, <<"mask", tok>>}
MCWarnPercents == {50, 80}
Symmetry == Permutations(MCRequests)

\* One save limits what is open, the other opens it again.
MCInit == Init /\ cfg = Open /\ save[s1].next = Limited /\ save[s2].next = Open
MCSpec == MCInit /\ [][Next]_vars
=============================================================================
