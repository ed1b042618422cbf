-------------------------- MODULE RandomMapUseProofs --------------------------
(***************************************************************************)
(* Proofs about RandomMapUse, for rings of any size, any ACs and any       *)
(* number of draws: what the ring holds after any sequence of draws, and   *)
(* what get_random finds in it.                                            *)
(***************************************************************************)
EXTENDS RandomMapUse, WellFoundedInduction, TLAPS

USE LocalAcMaxAssumption, RandomMapUseAssumption

\* The draw that slot s holds, counted back from the newest, which is in front of
\* offset; not positive if the slot has not been used yet.
Held(s) ==
    IF s < offset THEN Len(drawn) - offset + s + 1
    ELSE Len(drawn) - offset - LocalAcMax + s + 1

\* The ring holds the last LocalAcMax draws, each with the MAC it was made for.
Ring ==
    /\ Len(drawn) < LocalAcMax => offset = Len(drawn)
    /\ \A s \in Slots :
          random_map[s] = IF Held(s) >= 1 THEN [random |-> Held(s), mac |-> drawn[Held(s)]]
                          ELSE [random |-> NoRandom, mac |-> NoMac]

RingInv == TypeOK /\ Ring

-----------------------------------------------------------------------------
\* Indices of the ring go round once at most.
LEMMA ModOfIndex ==
    ASSUME NEW n \in Nat, n < 2 * LocalAcMax
    PROVE  n % LocalAcMax = IF n < LocalAcMax THEN n ELSE n - LocalAcMax
  OBVIOUS

\* A non-empty set of naturals has a least element: First is defined.
LEMMA FirstIsIn ==
    ASSUME NEW js \in SUBSET Nat, js # {}
    PROVE  First(js) \in js /\ \A k \in js : First(js) <= k
<1> DEFINE Less == {ss \in Nat \X Nat : ss[1] < ss[2]}
<1>1. IsWellFoundedOn(Less, Nat)
  BY NatLessThanWellFounded DEF OpToRel
<1> HIDE DEF Less
<1>2. PICK x \in js : \A y \in js : <<y, x>> \notin Less
  BY <1>1, WFMin
<1>3. ASSUME NEW y \in js PROVE x <= y
  <2>1. <<y, x>> \in Nat \X Nat /\ <<y, x>>[1] = y /\ <<y, x>>[2] = x
    OBVIOUS
  <2>2. ~ (y < x)
    BY <1>2, <2>1, Zenon DEF Less
  <2> QED
    BY <2>2
<1> QED
  BY <1>3 DEF First

\* offset goes round the slots.
LEMMA OffsetStep ==
    ASSUME NEW off \in Slots
    PROVE  NextOffset(off) = IF off + 1 = LocalAcMax THEN 0 ELSE off + 1
<1>1. off + 1 \in Nat /\ off + 1 < 2 * LocalAcMax /\ off + 1 <= LocalAcMax
  BY DEF Slots
<1> QED
  BY <1>1, ModOfIndex DEF NextOffset

-----------------------------------------------------------------------------
\* The ring is empty at first.
LEMMA InitRing == Init => RingInv
<1> SUFFICES ASSUME Init PROVE RingInv
  OBVIOUS
<1>1. TypeOK
  BY DEF Init, TypeOK, EmptyMap, Slots
<1>2. Len(drawn) = 0 /\ offset = 0
  BY DEF Init
<1>3. \A s \in Slots : Held(s) = s + 1 - LocalAcMax /\ ~ (Held(s) >= 1)
  BY <1>2 DEF Held, Slots
<1>4. \A s \in Slots : random_map[s] = [random |-> NoRandom, mac |-> NoMac]
  BY DEF Init, EmptyMap
<1>5. Ring
  BY <1>2, <1>3, <1>4 DEF Ring
<1> QED
  BY <1>1, <1>5 DEF RingInv

\* A draw takes the place of the oldest.
LEMMA DrawRing == ASSUME RingInv, NEW mac \in Mac, Draw(mac) PROVE RingInv'
<1>1. /\ offset \in Slots /\ drawn \in Seq(Mac) /\ Len(drawn) \in Nat
      /\ offset' = IF offset + 1 = LocalAcMax THEN 0 ELSE offset + 1
      /\ Len(drawn) < MaxDraws
  BY OffsetStep DEF RingInv, TypeOK, Draw
<1>2. /\ drawn' \in Seq(Mac) /\ Len(drawn') = Len(drawn) + 1
      /\ \A i \in 1 .. Len(drawn) : drawn'[i] = drawn[i]
      /\ drawn'[Len(drawn) + 1] = mac
  BY <1>1 DEF Draw
<1>3. ASSUME NEW s \in Slots
      PROVE  Held(s)' = IF s = offset THEN Len(drawn) + 1 ELSE Held(s)
  BY <1>1, <1>2 DEF Held, Slots
<1>4. ASSUME NEW s \in Slots
      PROVE  Held(s) \in Int /\ Held(s) <= Len(drawn)
  BY <1>1 DEF Held, Slots
<1>5. /\ random_map \in [Slots -> [random : 0 .. MaxDraws, mac : Mac \cup {NoMac}]]
      /\ random_map' = [random_map EXCEPT ![offset] = [random |-> Len(drawn) + 1, mac |-> mac]]
  BY DEF RingInv, TypeOK, Draw, new_random
<1>6. TypeOK'
  <2>1. offset' \in Slots
    BY <1>1 DEF Slots
  <2>2. [random |-> Len(drawn) + 1, mac |-> mac]
        \in [random : 0 .. MaxDraws, mac : Mac \cup {NoMac}]
    BY <1>1
  <2> QED
    BY <1>1, <1>2, <1>5, <2>1, <2>2 DEF TypeOK
<1>7. Len(drawn') < LocalAcMax => offset' = Len(drawn')
  BY <1>1, <1>2 DEF RingInv, Ring, Slots
<1>8. ASSUME NEW s \in Slots
      PROVE  random_map'[s] = IF Held(s)' >= 1
                              THEN [random |-> Held(s)', mac |-> drawn'[Held(s)']]
                              ELSE [random |-> NoRandom, mac |-> NoMac]
  <2>1. CASE s = offset
    BY <1>1, <1>2, <1>3, <1>5, <2>1
  <2>2. CASE s # offset
    <3>1. random_map'[s] = random_map[s] /\ Held(s)' = Held(s)
      BY <1>1, <1>3, <1>5, <2>2
    <3>2. Held(s) >= 1 => drawn'[Held(s)] = drawn[Held(s)]
      BY <1>2, <1>4
    <3> QED
      BY <3>1, <3>2 DEF RingInv, Ring
  <2> QED
    BY <2>1, <2>2
<1> QED
  BY <1>6, <1>7, <1>8 DEF RingInv, Ring

\* The ring keeps the last draws (new_random, ap/process.c:137-145).
THEOREM Invariance == Spec => []RingInv
<1>1. RingInv /\ [Next]_vars => RingInv'
  <2> SUFFICES ASSUME RingInv, [Next]_vars PROVE RingInv'
    OBVIOUS
  <2>1. CASE Next
    BY <2>1, DrawRing DEF Next
  <2>2. CASE UNCHANGED vars
    BY <2>2 DEF vars, RingInv, TypeOK, Ring, Held
  <2> QED
    BY <2>1, <2>2
<1> QED
  BY <1>1, InitRing, PTL DEF Spec

\* The types of the ring, of offset and of the history of draws (ap/process.c:129-145).
THEOREM TypeCorrect == Spec => []TypeOK
<1>1. RingInv => TypeOK
  BY DEF RingInv
<1> QED
  BY <1>1, Invariance, PTL

-----------------------------------------------------------------------------
\* The draw the j-th probe of a search looks at: the newest, then the oldest and
\* from there on towards the newest.
DrawAt(j) == IF j = 0 THEN Len(drawn) ELSE Len(drawn) - LocalAcMax + j

\* Where the j-th probe is.
LEMMA ProbeSlot ==
    ASSUME RingInv, NEW j \in Slots, offset - 1 + j >= 0
    PROVE  /\ (offset - 1 + j) % LocalAcMax \in Slots
           /\ Held((offset - 1 + j) % LocalAcMax) = DrawAt(j)
<1>1. offset \in Slots /\ Len(drawn) \in Nat
  BY DEF RingInv, TypeOK
<1> DEFINE n == offset - 1 + j
<1>2. n \in Nat /\ n < 2 * LocalAcMax /\ offset \in 0 .. LocalAcMax - 1 /\ j \in 0 .. LocalAcMax - 1
  BY <1>1 DEF Slots
<1>3. n % LocalAcMax = IF n < LocalAcMax THEN n ELSE n - LocalAcMax
  BY <1>2, ModOfIndex
<1> DEFINE s == n % LocalAcMax
<1>4. s = IF n < LocalAcMax THEN n ELSE n - LocalAcMax
  BY <1>3
<1> HIDE DEF s
<1>5. s \in Slots
  BY <1>2, <1>4 DEF Slots
<1>6. Held(s) = DrawAt(j)
  BY <1>1, <1>2, <1>4 DEF Held, DrawAt
<1> QED
  BY <1>5, <1>6 DEF s

\* What a slot holds.
LEMMA SlotHolds ==
    ASSUME RingInv, NEW s \in Slots
    PROVE  IF Held(s) >= 1 THEN random_map[s].random = Held(s) /\ random_map[s].mac = drawn[Held(s)]
           ELSE random_map[s].mac = NoMac
<1>1. random_map[s] = IF Held(s) >= 1 THEN [random |-> Held(s), mac |-> drawn[Held(s)]]
                      ELSE [random |-> NoRandom, mac |-> NoMac]
  BY DEF RingInv, Ring
<1>2. CASE Held(s) >= 1
  BY <1>1, <1>2
<1>3. CASE ~ (Held(s) >= 1)
  BY <1>1, <1>3
<1> QED
  BY <1>2, <1>3

\* A probe hits if the draw it looks at is one and was made for mac, and what the
\* search returns is the first of these draws.
LEMMA ProbeHits ==
    ASSUME RingInv, NEW mac \in Mac, NEW j \in Slots
    PROVE  Probe(random_map, offset, mac, j) <=>
              offset - 1 + j >= 0 /\ DrawAt(j) \in DrawsFor(mac)
<1> SUFFICES ASSUME offset - 1 + j >= 0
             PROVE  random_map[(offset - 1 + j) % LocalAcMax].mac = mac
                       <=> DrawAt(j) \in DrawsFor(mac)
  BY DEF Probe
<1> DEFINE s == (offset - 1 + j) % LocalAcMax
<1>1. s \in Slots /\ Held(s) = DrawAt(j)
  BY ProbeSlot
<1> HIDE DEF s
<1>2. random_map[s].mac = IF Held(s) >= 1 THEN drawn[Held(s)] ELSE NoMac
  BY <1>1, SlotHolds
<1>3. DrawAt(j) \in Int /\ DrawAt(j) <= Len(drawn) /\ Len(drawn) \in Nat
  BY DEF DrawAt, RingInv, TypeOK, Slots
<1>4. DrawAt(j) \in DrawsFor(mac) <=> DrawAt(j) >= 1 /\ drawn[DrawAt(j)] = mac
  BY <1>3 DEF DrawsFor
<1>5. random_map[s].mac = mac <=> DrawAt(j) \in DrawsFor(mac)
  BY <1>1, <1>2, <1>4
<1> QED
  BY <1>5 DEF s

\* The search returns the draw of its first hit.
LEMMA AnswerIsFirstHit ==
    ASSUME RingInv, NEW mac \in Mac
    PROVE  LET hits == Hits(random_map, offset, mac)
           IN  IF hits = {} THEN Answer(mac) = NoRandom
               ELSE /\ First(hits) \in hits /\ \A k \in hits : First(hits) <= k
                    /\ Answer(mac) = DrawAt(First(hits))
<1> DEFINE hits == Hits(random_map, offset, mac)
           j == First(hits)
<1>1. hits \in SUBSET Nat /\ hits \subseteq Slots
  BY DEF Hits, Slots
<1>2. CASE hits = {}
  BY <1>2 DEF Answer, get_random
<1>3. CASE hits # {}
  <2>1. j \in hits /\ \A k \in hits : j <= k
    BY <1>1, <1>3, FirstIsIn
  <2>2. Answer(mac) = random_map[(offset - 1 + j) % LocalAcMax].random
    BY <1>3 DEF Answer, get_random
  <2> HIDE DEF j
  <2>3. j \in Slots /\ Probe(random_map, offset, mac, j)
    BY <2>1 DEF Hits
  <2>4. offset - 1 + j >= 0 /\ DrawAt(j) \in DrawsFor(mac)
    BY <2>3, ProbeHits
  <2>5. /\ (offset - 1 + j) % LocalAcMax \in Slots
        /\ Held((offset - 1 + j) % LocalAcMax) = DrawAt(j)
    BY <2>3, <2>4, ProbeSlot
  <2>6. DrawAt(j) >= 1
    BY <2>4 DEF DrawsFor
  <2>7. random_map[(offset - 1 + j) % LocalAcMax].random = DrawAt(j)
    BY <2>5, <2>6, SlotHolds
  <2> QED
    BY <1>3, <2>1, <2>2, <2>7 DEF j
<1> QED
  BY <1>2, <1>3

\* Members of Hits, in terms of draws.
LEMMA HitIsDraw ==
    ASSUME RingInv, NEW mac \in Mac, NEW j
    PROVE  j \in Hits(random_map, offset, mac) <=>
              j \in Slots /\ offset - 1 + j >= 0 /\ DrawAt(j) \in DrawsFor(mac)
  BY ProbeHits DEF Hits

\* An answer is one of the last LocalAcMax draws, made for the AC that is asked for
\* (get_random, ap/process.c:147-156).
THEOREM AnswerTheorem == Spec => []AnswerIsOurs
<1>1. ASSUME RingInv PROVE AnswerIsOurs
  <2> SUFFICES ASSUME NEW mac \in Mac, Answer(mac) # NoRandom
               PROVE  Answer(mac) \in DrawsFor(mac) /\ Answer(mac) > Len(drawn) - LocalAcMax
    BY DEF AnswerIsOurs
  <2> DEFINE j == First(Hits(random_map, offset, mac))
  <2>1. j \in Hits(random_map, offset, mac) /\ Answer(mac) = DrawAt(j)
    BY <1>1, AnswerIsFirstHit
  <2> HIDE DEF j
  <2>2. j \in Slots /\ offset - 1 + j >= 0 /\ DrawAt(j) \in DrawsFor(mac)
    BY <1>1, <2>1, HitIsDraw
  <2>3. DrawAt(j) > Len(drawn) - LocalAcMax
    BY <1>1, <2>2 DEF DrawAt, RingInv, TypeOK, Slots
  <2> QED
    BY <2>1, <2>2, <2>3
<1> QED
  BY <1>1, Invariance, PTL

\* A random that the ring still holds is found, unless it is the newest and the
\* ring has just wrapped (get_random, ap/process.c:147-156).
THEOREM FoundTheorem == Spec => []FoundUnlessWrapped
<1>1. ASSUME RingInv PROVE FoundUnlessWrapped
  <2> SUFFICES ASSUME NEW mac \in Mac, NEW i \in DrawsFor(mac), i > Len(drawn) - LocalAcMax,
                      offset = 0 => i < Len(drawn)
               PROVE  Answer(mac) # NoRandom
    BY DEF FoundUnlessWrapped
  <2>1. Len(drawn) \in Nat /\ offset \in Slots /\ i \in 1 .. Len(drawn)
    BY <1>1 DEF RingInv, TypeOK, DrawsFor
  <2> DEFINE k == IF i = Len(drawn) THEN 0 ELSE i - Len(drawn) + LocalAcMax
  <2>2. k \in Slots /\ DrawAt(k) = i /\ offset - 1 + k >= 0
    BY <2>1 DEF DrawAt, Slots
  <2>3. k \in Hits(random_map, offset, mac)
    BY <1>1, <2>2, HitIsDraw
  <2> DEFINE j == First(Hits(random_map, offset, mac))
  <2>4. j \in Hits(random_map, offset, mac) /\ Answer(mac) = DrawAt(j)
    BY <1>1, <2>3, AnswerIsFirstHit
  <2> HIDE DEF j
  <2>5. DrawAt(j) \in DrawsFor(mac)
    BY <1>1, <2>4, HitIsDraw
  <2> QED
    BY <2>4, <2>5 DEF DrawsFor
<1> QED
  BY <1>1, Invariance, PTL

\* An AC that is alone gets its newest random back, and the oldest one in the ring
\* just after a wrap (get_random, ap/process.c:147-156).
THEOREM NewestTheorem == Spec => []AloneGetsNewest
<1>1. ASSUME RingInv PROVE AloneGetsNewest
  <2> SUFFICES ASSUME NEW mac \in Mac, DrawsFor(mac) = 1 .. Len(drawn), drawn # << >>
               PROVE  Answer(mac) = IF offset = 0 THEN Len(drawn) - LocalAcMax + 1 ELSE Len(drawn)
    BY DEF AloneGetsNewest
  <2>1. Len(drawn) \in Nat \ {0} /\ offset \in Slots
    BY <1>1 DEF RingInv, TypeOK
  <2>2. offset = 0 => Len(drawn) >= LocalAcMax
    BY <1>1, <2>1 DEF RingInv, Ring
  <2> DEFINE k == IF offset = 0 THEN 1 ELSE 0
  <2>3. k \in Slots /\ offset - 1 + k >= 0 /\ DrawAt(k) \in 1 .. Len(drawn)
    BY <2>1, <2>2 DEF DrawAt, Slots
  <2>4. k \in Hits(random_map, offset, mac)
    BY <1>1, <2>3, HitIsDraw
  <2> DEFINE j == First(Hits(random_map, offset, mac))
  <2>5. j \in Hits(random_map, offset, mac) /\ j <= k /\ Answer(mac) = DrawAt(j)
    BY <1>1, <2>4, AnswerIsFirstHit
  <2> HIDE DEF j
  <2>6. j \in Slots /\ offset - 1 + j >= 0
    BY <1>1, <2>5, HitIsDraw
  <2>7. j = k
    BY <2>1, <2>5, <2>6 DEF Slots
  <2> QED
    BY <2>1, <2>5, <2>7 DEF DrawAt
<1> QED
  BY <1>1, Invariance, PTL
=============================================================================
