--------------------------- MODULE MCRegistration ---------------------------
(***************************************************************************)
(* Registration for TLC: addresses and randoms are numbers, the ACs a and  *)
(* b and the APs p and q model values.                                     *)
(***************************************************************************)
EXTENDS Registration

CONSTANTS a, b, p, q

OnePool   == [x \in AC |-> Addr]
NicsBlank == [x \in AP |-> NoAddr]
\* Both APs come up with the address 1, p's from an earlier life.
NicsSame  == [x \in AP |-> 1]
NoTakeover == [x \in AC |-> NoAc]
\* b takes over the APs of a.
BTakesA   == [x \in AC |-> IF x = b THEN a ELSE NoAc]
=============================================================================
