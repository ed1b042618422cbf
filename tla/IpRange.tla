------------------------------- MODULE IpRange -------------------------------
(***************************************************************************)
(* The addresses res_ip_reload (ac/resource.c) makes of a configured range *)
(* c: first and last address and netmask, as W-bit words of which the host *)
(* parts are counted in an int. A netmask is a prefix, so ~mask + 1 is a   *)
(* power of two, c.hosts, and x & ~mask is x % c.hosts.                    *)
(***************************************************************************)
EXTENDS Integers, Sequences

CONSTANT W      \* bits of an address, 32

\* The second and third conjunct follow from the first; the provers know no powers.
ASSUME IpRangeAssumption ==
    /\ W \in Nat \ {0}
    /\ 2 ^ (W - 1) \in Nat \ {0} /\ 2 ^ W = 2 * 2 ^ (W - 1)

Word == 0 .. 2 ^ W - 1
ToInt(n) == LET m == n % 2 ^ W IN IF m >= 2 ^ (W - 1) THEN m - 2 ^ W ELSE m

Ranges == [start : Word, end : Word, hosts : {2 ^ h : h \in 0 .. W}]

\* How many addresses from start to end, before the special ones go.
Count(c) == ToInt((c.end % c.hosts) - (c.start % c.hosts) + 1)

Refused(c) == Count(c) <= 0

\* The net address, at the start, and the broadcast address, at the end.
SkipNet(c) == IF c.start % c.hosts = 0 THEN 1 ELSE 0
SkipBroadcast(c) == IF c.end % c.hosts = c.hosts - 1 THEN 1 ELSE 0

\* The addresses given to res_ip_add, in order; none if fewer than one is left.
Load(c) == [i \in 1 .. Count(c) - SkipNet(c) - SkipBroadcast(c)
               |-> (c.start + SkipNet(c) + i - 1) % 2 ^ W]

-----------------------------------------------------------------------------
\* What a range means if start and end are in one net.
Net(c, x) == x - (x % c.hosts)
OneNet(c) == Net(c, c.start) = Net(c, c.end)
Hosts(c) == {x \in Word : Net(c, x) = Net(c, c.start) /\ x % c.hosts \notin {0, c.hosts - 1}}
Usable(c) == {x \in Hosts(c) : c.start <= x /\ x <= c.end}

\* The mask is a prefix: its nets divide the address space, and are less than that
\* (0.0.0.0, of which the count of an inverted range wraps and is positive).
IsNetmask(c) == c.hosts < 2 ^ W /\ 2 ^ W % c.hosts = 0

\* A range of half the address space is negative in an int.
CountFits(c) == IsNetmask(c) /\ c.end - c.start + 1 < 2 ^ (W - 1)
=============================================================================
