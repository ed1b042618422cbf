----------------------------- MODULE LeaseTable -----------------------------
(***************************************************************************)
(* What the address pool promises (ac/resource.c): a table of addresses,   *)
(* each free or leased to one AP. A lease, once made, stays until the AC   *)
(* starts anew. The promise ends (broken) when the pool is overdrawn or    *)
(* its range is replaced.                                                  *)
(***************************************************************************)
CONSTANTS Addr, Mac, NoMac

VARIABLES range,    \* the addresses in the table
          lease,    \* lease[x]: the AP that holds x, or NoMac
          broken

vars == <<range, lease, broken>>

NoLease == [x \in Addr |-> NoMac]

Init == range \in SUBSET Addr /\ lease = NoLease /\ broken = FALSE

\* An address enters the table, free.
Add(x) ==
    /\ ~broken /\ x \notin range
    /\ range' = range \cup {x}
    /\ UNCHANGED <<lease, broken>>

\* A free address is leased.
Alloc(x, mac) ==
    /\ ~broken /\ x \in range /\ lease[x] = NoMac
    /\ lease' = [lease EXCEPT ![x] = mac]
    /\ UNCHANGED <<range, broken>>

\* The AC starts anew.
Reset == lease' = NoLease /\ broken' = FALSE /\ UNCHANGED range

\* From here on nothing is promised.
Break == broken'

Next == \/ \E x \in Addr : Add(x) \/ \E mac \in Mac : Alloc(x, mac)
        \/ Reset \/ Break

Spec == Init /\ [][Next]_vars
=============================================================================
