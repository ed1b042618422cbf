------------------------------ MODULE MCApHash ------------------------------
(***************************************************************************)
(* ApHash for TLC: the APs m1 and m2 collide in bucket 0; m3 and m4, alike *)
(* up to their first zero byte, share bucket 1.                            *)
(***************************************************************************)
EXTENDS ApHash

CONSTANTS m1, m2, m3, m4

MCMac == {m1, m2, m3, m4}
MCKey == [m \in Mac |-> IF m \in {m1, m2} THEN 0 ELSE 1]
MCText == [m \in Mac \cup {NoMac} |-> IF m = m4 THEN m3 ELSE m]
=============================================================================
