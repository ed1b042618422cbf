---------------------------- MODULE RandomMapUse ----------------------------
(***************************************************************************)
(* The ring of RandomMap under the only use ap/process.c makes of it: a    *)
(* registration request draws a random for the AC that broadcast           *)
(* (_proc_brd, _proc_brd_isreg) and a response looks it up                 *)
(* (proc_reg_resp). Randoms are numbered in the order they are drawn.      *)
(***************************************************************************)
EXTENDS RandomMap, Sequences

CONSTANTS Mac,        \* the ACs on the segment
          MaxDraws    \* bound on the randoms drawn in one behaviour

ASSUME RandomMapUseAssumption ==
    MaxDraws \in Nat /\ NoRandom = 0 /\ NoMac \notin Mac

VARIABLES random_map, offset,
          drawn       \* history: the MAC of every draw, in order

vars == <<random_map, offset, drawn>>

Init == random_map = EmptyMap /\ offset = 0 /\ drawn = << >>

Draw(mac) ==
    /\ Len(drawn) < MaxDraws
    /\ random_map' = new_random(random_map, offset, mac, Len(drawn) + 1)
    /\ offset' = NextOffset(offset)
    /\ drawn' = Append(drawn, mac)

Next == \E mac \in Mac : Draw(mac)

Spec == Init /\ [][Next]_vars

-----------------------------------------------------------------------------
DrawsFor(mac) == {i \in 1 .. Len(drawn) : drawn[i] = mac}
Answer(mac) == get_random(random_map, offset, mac)

TypeOK ==
    /\ offset \in Slots
    /\ random_map \in [Slots -> [random : 0 .. MaxDraws, mac : Mac \cup {NoMac}]]
    /\ drawn \in Seq(Mac)

\* A lookup never hands out the random of another AC, nor one that the ring
\* has already dropped: the answer is one of the last LocalAcMax draws, made
\* for that MAC, or nothing.
AnswerIsOurs ==
    \A mac \in Mac : Answer(mac) # NoRandom =>
        Answer(mac) \in DrawsFor(mac) /\ Answer(mac) > Len(drawn) - LocalAcMax

\* An AC that is alone on the segment gets its newest random back, except just
\* after the ring has wrapped (offset 0), when the newest slot is skipped and
\* the search ends on the oldest.
AloneGetsNewest ==
    \A mac \in Mac : DrawsFor(mac) = 1 .. Len(drawn) /\ drawn # << >> =>
        Answer(mac) = IF offset = 0 THEN Len(drawn) - LocalAcMax + 1 ELSE Len(drawn)

\* A random still in the ring is found, except the newest one when the ring
\* has just wrapped.
FoundUnlessWrapped ==
    \A mac \in Mac :
        (\E i \in DrawsFor(mac) : i > Len(drawn) - LocalAcMax
                                  /\ (offset = 0 => i < Len(drawn)))
        => Answer(mac) # NoRandom
=============================================================================
