------------------------ MODULE MCTimedRegistration ------------------------
(***************************************************************************)
(* TimedRegistration for TLC, one AC and one AP, a third of the seconds.   *)
(***************************************************************************)
EXTENDS TimedRegistration

OnePool    == [x \in AC |-> Addr]
NicsSame   == [x \in AP |-> 1]
NoTakeover == [x \in AC |-> NoAc]

\* No options at all; and broadcasts so frequent that the AC's msgitv becomes 0, with
\* the least slack there is.
MCOptions == {[brditv |-> 0, acmsgitv |-> 0, reportitv |-> 0, apmsgitv |-> 0],
              [brditv |-> 3, acmsgitv |-> 0, reportitv |-> 0, apmsgitv |-> 0]}
=============================================================================
