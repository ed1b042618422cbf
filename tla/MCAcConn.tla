------------------------------ MODULE MCAcConn ------------------------------
(***************************************************************************)
(* AcConn for TLC: one connection of the AP p, c1, with two statuses, and  *)
(* one of the AP q, c3, with one. No AP connects a second time.            *)
(***************************************************************************)
EXTENDS AcConn

CONSTANTS p, q, c1, c3

MCOwner == [c \in Conn |-> IF c = c3 THEN q ELSE p]
MCMaxSends == [c \in Conn |-> IF c = c3 THEN 1 ELSE 2]
=============================================================================
