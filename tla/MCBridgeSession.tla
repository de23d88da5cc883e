-------------------------- MODULE MCBridgeSession --------------------------
(* Small instances of BridgeSession for TLC.                                *)
EXTENDS BridgeSession, TLC

CONSTANTS p1, p2, c1, c2, c3, k1, k2, k3, s1, s2, T1, T2, I1

\* Fingerprints: one process with and without a start time, and another one.
PrintA == [title |-> T1, image |-> I1, startTime |-> None]
PrintB == [title |-> T2, image |-> I1, startTime |-> None]

OnePrint == {PrintA}
TwoPrints == {PrintA, PrintB}

ConnSymmetry == Permutations(Conns)
=============================================================================
