------------------------------ MODULE RandomMap ------------------------------
(***************************************************************************)
(* The AP's memory of the randoms it put in its registration requests      *)
(* (random_map and offset, ap/process.c): a ring of LocalAcMax slots, each *)
(* holding one random and the MAC of the AC it was sent to.                *)
(***************************************************************************)
EXTENDS Integers

CONSTANTS LocalAcMax,   \* LOCAL_AC_MAX, 10 in the code
          NoRandom,     \* the 0 of a slot never used, and of a failed search
          NoMac         \* the all-zero MAC of a slot never used

ASSUME LocalAcMaxAssumption == LocalAcMax \in Nat /\ LocalAcMax > 1

Slots == 0 .. LocalAcMax - 1

EmptyMap == [i \in Slots |-> [random |-> NoRandom, mac |-> NoMac]]

\* new_random: the random r drawn for mac goes to slot off ...
new_random(map, off, mac, r) == [map EXCEPT ![off] = [random |-> r, mac |-> mac]]
\* ... and the ring advances.
NextOffset_NoWrap(off) == off + 1                 \* faulty: no wrap
NextOffset(off) == (off + 1) % LocalAcMax

\* faulty: any slot in use matches; the search starts at offset
Probe_AnyMac(map, off, mac, j) ==
    off - 1 + j >= 0 /\ map[(off - 1 + j) % LocalAcMax].mac # NoMac
Probe_FromOffset(map, off, mac, j) == map[(off + j) % LocalAcMax].mac = mac

\* The j-th slot the search looks at. With off = 0 the first index is -1, and
\* -1 % 10 is -1 in C: it reads the ten bytes in front of the array, the zero
\* padding of .bss, which equal no AC's MAC.
Probe(map, off, mac, j) ==
    off - 1 + j >= 0 /\ map[(off - 1 + j) % LocalAcMax].mac = mac

\* faulty: one probe too few
Hits_Short(map, off, mac) == {j \in 0 .. LocalAcMax - 2 : Probe(map, off, mac, j)}

Hits(map, off, mac) == {j \in Slots : Probe(map, off, mac, j)}

First_Last(js) == CHOOSE j \in js : \A k \in js : j >= k   \* faulty: the last match

First(js) == CHOOSE j \in js : \A k \in js : j <= k

\* get_random: LocalAcMax probes from offset - 1 upwards, the first match wins.
get_random(map, off, mac) ==
    LET hits == Hits(map, off, mac)
    IN  IF hits = {} THEN NoRandom
        ELSE map[(off - 1 + First(hits)) % LocalAcMax].random
=============================================================================
