------------------------- MODULE RegistrationProofs -------------------------
(***************************************************************************)
(* Proofs about Registration, for any number of ACs, APs, addresses and    *)
(* frames: an AP belongs only to an AC it asked, and the address it uses   *)
(* is leased to it. And about TimedRegistration, for one AC and one AP     *)
(* (TimedRegistrationAssumption, which only the last part of this module   *)
(* uses) and any intervals: the clocks only take behaviours away, so the   *)
(* same holds there, and no REG comes late if there is slack between two   *)
(* broadcasts.                                                             *)
(***************************************************************************)
EXTENDS TimedRegistration, WellFoundedInduction, TLAPS

USE LocalAcMaxAssumption, RegistrationAssumption

-----------------------------------------------------------------------------
\* A non-empty set of naturals has a least element: First is defined.
LEMMA FirstIsIn ==
    ASSUME NEW js \in SUBSET Nat, js # {}
    PROVE  First(js) \in js /\ \A k \in js : First(js) <= k
<1> DEFINE Before == {ss \in Nat \X Nat : ss[1] < ss[2]}
<1>1. IsWellFoundedOn(Before, Nat)
  BY NatLessThanWellFounded DEF OpToRel
<1> HIDE DEF Before
<1>2. PICK x \in js : \A y \in js : <<y, x>> \notin Before
  BY <1>1, WFMin
<1>3. ASSUME NEW y \in js PROVE x <= y
  <2>1. <<y, x>> \in Nat \X Nat /\ <<y, x>>[1] = y /\ <<y, x>>[2] = x
    OBVIOUS
  <2>2. ~ (y < x)
    BY <1>2, <2>1, Zenon DEF Before
  <2> QED
    BY <2>2
<1> QED
  BY <1>3 DEF First

\* The ring index of every probe is a slot.
LEMMA ModIsSlot ==
    ASSUME NEW n \in Nat
    PROVE  n % LocalAcMax \in Slots
  BY DEF Slots

\* get_random answers with nothing or with the random of some slot that holds
\* the MAC it was asked for.
LEMMA GetRandomIsOurs ==
    ASSUME NEW map, NEW off \in Slots, NEW mac,
           get_random(map, off, mac) # NoRandom
    PROVE  \E i \in Slots : /\ map[i].random = get_random(map, off, mac)
                            /\ map[i].mac = mac
<1> DEFINE hits == Hits(map, off, mac)
           j    == First(hits)
<1>1. hits # {} /\ hits \in SUBSET Nat
  BY DEF get_random, Hits, Slots
<1>2. j \in hits
  BY <1>1, FirstIsIn
<1>3. j \in Slots /\ off - 1 + j >= 0 /\ map[(off - 1 + j) % LocalAcMax].mac = mac
  <2> HIDE DEF j
  <2> QED
    BY <1>2 DEF Hits, Probe
<1>4. (off - 1 + j) % LocalAcMax \in Slots
  <2> HIDE DEF j
  <2> QED
    BY <1>3, ModIsSlot DEF Slots
<1>5. get_random(map, off, mac) = map[(off - 1 + j) % LocalAcMax].random
  BY <1>1 DEF get_random
<1> QED
  BY <1>3, <1>4, <1>5

\* The random drawn is none of those any frame or ring still holds.
LEMMA FreshIsNew ==
    ASSUME Draw
    PROVE  /\ Fresh \in Random
           /\ \A a \in AC : random[a] # Fresh
           /\ \A p \in AP, i \in Slots : random_map[p][i].random # Fresh
           /\ \A m \in InFlight("AC_BRD") : m.random # Fresh
           /\ \A m \in InFlight("AP_REG") : m.random # Fresh /\ m.chap # Fresh
           /\ \A m \in InFlight("AC_REG_RESP") : m.chap # Fresh
<1>1. Fresh \in Random /\ Fresh \notin InUse
  BY DEF Draw, Fresh
<1> DEFINE held(m) == IF m.type = "AP_REG" THEN {m.random, m.chap}
                      ELSE IF m.type = "AC_BRD" THEN {m.random}
                      ELSE IF m.type = "AC_REG_RESP" THEN {m.chap} ELSE {}
<1>2. \A m \in net : Fresh \notin held(m)
  BY <1>1 DEF InUse
<1>3. /\ \A a \in AC : random[a] # Fresh
      /\ \A p \in AP, i \in Slots : random_map[p][i].random # Fresh
  BY <1>1 DEF InUse
<1> QED
  BY <1>1, <1>2, <1>3 DEF InFlight

\* Frames are told apart by their type.
LEMMA FrameTypes ==
    ASSUME net \subseteq Message
    PROVE  /\ InFlight("AC_BRD") \subseteq BrdMsg
           /\ InFlight("AP_REG") \subseteq RegMsg
           /\ InFlight("AC_REG_RESP") \subseteq RespMsg
           /\ InFlight("AP_RESP") \subseteq ApRespMsg
  BY DEF InFlight, Message, BrdMsg, RegMsg, RespMsg, ApRespMsg

-----------------------------------------------------------------------------
\* Type correctness of the initial state and of the actions.
LEMMA InitTypeOK == Init => TypeOK
<1> SUFFICES ASSUME Init PROVE TypeOK
  OBVIOUS
<1>1. EmptyMap \in [Slots -> [random : Random \cup {NoRandom}, mac : AC \cup {NoMac}]]
  BY DEF EmptyMap
<1>2. 0 \in Slots
  BY DEF Slots
<1> QED
  BY <1>1, <1>2 DEF Init, TypeOK

\* A draw keeps the types of the ring and of its offset.
LEMMA DrawForTypeOK ==
    ASSUME TypeOK, NEW p \in AP, NEW a \in AC, DrawFor(p, a)
    PROVE  /\ random_map' \in [AP -> [Slots -> [random : Random \cup {NoRandom},
                                                mac : AC \cup {NoMac}]]]
           /\ offset' \in [AP -> Slots]
           /\ lost' \in 0 .. MaxLost /\ crashes' \in 0 .. MaxCrash
           /\ draws' \in 0 .. MaxDraws
           /\ Fresh \in Random
<1>1. Fresh \in Random
  BY FreshIsNew DEF DrawFor
<1>2. NextOffset(offset[p]) \in Slots
  <2>1. offset[p] + 1 \in Nat
    BY DEF TypeOK, Slots
  <2> QED
    BY <2>1, ModIsSlot DEF NextOffset
<1>3. new_random(random_map[p], offset[p], a, Fresh)
        \in [Slots -> [random : Random \cup {NoRandom}, mac : AC \cup {NoMac}]]
  BY <1>1 DEF new_random, TypeOK
<1> QED
  BY <1>1, <1>2, <1>3 DEF DrawFor, Draw, TypeOK

\* Every action keeps TypeOK.
LEMMA NextTypeOK == TypeOK /\ [Next]_vars => TypeOK'
<1> SUFFICES ASSUME TypeOK, [Next]_vars PROVE TypeOK'
  OBVIOUS
<1>1. ASSUME NEW a \in AC, Broadcast(a) PROVE TypeOK'
  <2>1. Fresh \in Random
    BY <1>1, FreshIsNew DEF Broadcast
  <2>2. random' \in [AC -> Random \cup {NoRandom}] /\ random'[a] \in Random
    BY <1>1, <2>1 DEF Broadcast, TypeOK
  <2>3. net' \subseteq Message
    <3>1. \A p \in AP : Brd(a, p) \in BrdMsg
      BY <2>2 DEF Brd, BrdMsg
    <3> QED
      BY <1>1, <3>1 DEF Broadcast, TypeOK, Message
  <2>4. answered' \in [AC -> SUBSET AP]
    BY <1>1 DEF Broadcast, TypeOK
  <2>5. draws' \in 0 .. MaxDraws /\ UNCHANGED <<lost, crashes>>
    BY <1>1 DEF Broadcast, Draw, TypeOK
  <2> QED
    BY <1>1, <2>2, <2>3, <2>4, <2>5 DEF Broadcast, TypeOK, apVars
<1>2. ASSUME NEW a \in AC, AcDown(a), crashes' \in 0 .. MaxCrash PROVE TypeOK'
  <2>1. net' \subseteq Message
    <3>1. \A m \in RespMsg : [m EXCEPT !.live = FALSE] \in RespMsg
      BY DEF RespMsg
    <3>2. \A m \in net : m.type = "AC_REG_RESP" => m \in RespMsg
      BY FrameTypes DEF InFlight, TypeOK
    <3> QED
      BY <1>2, <3>1, <3>2 DEF AcDown, TypeOK, Left, Message
  <2>2. lease' \in [AC -> [Addr -> AP \cup {NoAp}]]
    BY <1>2 DEF AcDown, TypeOK
  <2> QED
    BY <1>2, <2>1, <2>2 DEF AcDown, TypeOK, apVars
<1>3. ASSUME NEW a \in AC, AcRecvReg(a) PROVE TypeOK'
  <2> PICK m \in net : /\ up[a] /\ m.type = "AP_REG" /\ m.to = a
                       /\ \/ RegRejected(a, m) \/ RegGranted(a, m)
                          \/ RegOverdrawn(a, m) \/ RegFaults(a, m)
    BY <1>3 DEF AcRecvReg
  <2>0. m \in RegMsg
    BY FrameTypes DEF InFlight, TypeOK
  <2>1. CASE RegRejected(a, m)
    BY <2>1 DEF RegRejected, TypeOK, acVars, apVars, history, counts
  <2>2. CASE RegGranted(a, m)
    <3> PICK x \in Grants(a, m) :
            /\ lease' = [lease EXCEPT ![a][x] = m.from]
            /\ net' = (net \ {m}) \cup {Resp(a, m.from, m.random, x)}
      BY <2>2 DEF RegGranted
    <3>1. x \in Addr
      BY DEF Grants, Free
    <3>2. lease' \in [AC -> [Addr -> AP \cup {NoAp}]]
      BY <2>0, <3>1 DEF TypeOK, RegMsg
    <3>3. net' \subseteq Message
      <4>1. Resp(a, m.from, m.random, x) \in RespMsg
        BY <2>0, <3>1 DEF RegMsg, Resp, RespMsg
      <4> QED
        BY <4>1 DEF TypeOK, Message
    <3> QED
      BY <2>0, <2>2, <3>2, <3>3 DEF RegGranted, TypeOK, RegMsg, apVars, counts
  <2>3. CASE RegOverdrawn(a, m)
    <3> PICK x \in Pool[a] \cup {NoAddr} :
            net' = (net \ {m}) \cup {Resp(a, m.from, m.random, x)}
      BY <2>3 DEF RegOverdrawn
    <3>1. x \in Addr \cup {NoAddr}
      OBVIOUS
    <3>2. net' \subseteq Message
      <4>1. Resp(a, m.from, m.random, x) \in RespMsg
        BY <2>0, <3>1 DEF RegMsg, Resp, RespMsg
      <4> QED
        BY <4>1 DEF TypeOK, Message
    <3> QED
      BY <2>0, <2>3, <3>2 DEF RegOverdrawn, TypeOK, RegMsg, apVars, counts
  <2>4. CASE RegFaults(a, m)
    BY <1>2, <2>4 DEF RegFaults, TypeOK
  <2> QED
    BY <2>1, <2>2, <2>3, <2>4
<1>4. ASSUME NEW a \in AC, AcRecvApResp(a) PROVE TypeOK'
  <2> PICK m \in net : /\ m.type = "AP_RESP"
                       /\ net' = net \ {m}
                       /\ foreign' = [foreign EXCEPT ![a] =
                              IF m.acuuid # a THEN @ \cup {m.from} ELSE @]
    BY <1>4 DEF AcRecvApResp
  <2>1. m.from \in AP
    BY FrameTypes DEF InFlight, TypeOK, ApRespMsg
  <2> QED
    BY <1>4, <2>1 DEF AcRecvApResp, TypeOK, apVars, history, counts
<1>5. ASSUME NEW a \in AC, AcCrash(a) PROVE TypeOK'
  BY <1>2, <1>5 DEF AcCrash, TypeOK
<1>6. ASSUME NEW a \in AC, AcStart(a) PROVE TypeOK'
  BY <1>6 DEF AcStart, TypeOK, apVars, history, counts
<1>7. ASSUME NEW p \in AP, ApRecvBrd(p) PROVE TypeOK'
  <2> PICK m \in net :
        /\ m.type = "AC_BRD" /\ m.to = p
        /\ SendReg(p, m) \/ SendApResp(p, m) \/ IgnoreBrd(p, m)
        /\ UNCHANGED <<acVars, answered>>
    BY <1>7 DEF ApRecvBrd
  <2>0. m \in BrdMsg
    BY FrameTypes DEF InFlight, TypeOK
  <2>1. CASE SendReg(p, m)
    <3>1. net' \subseteq Message
      BY <2>0, <2>1, DrawForTypeOK DEF SendReg, TypeOK, Message, BrdMsg, Reg, RegMsg
    <3>2. asked' \in [AP -> SUBSET AC]
      BY <2>0, <2>1 DEF SendReg, TypeOK, BrdMsg
    <3> QED
      BY <2>0, <2>1, <3>1, <3>2, DrawForTypeOK DEF SendReg, TypeOK, BrdMsg, acVars
  <2>2. CASE SendApResp(p, m)
    <3>1. net' \subseteq Message
      BY <2>0, <2>2 DEF SendApResp, TypeOK, Message, BrdMsg, ApResp, ApRespMsg
    <3> QED
      BY <2>0, <2>2, <3>1, DrawForTypeOK DEF SendApResp, TypeOK, BrdMsg, acVars
  <2>3. CASE IgnoreBrd(p, m)
    BY <2>3 DEF IgnoreBrd, TypeOK, acVars, apVars, counts
  <2> QED
    BY <2>1, <2>2, <2>3
<1>8. ASSUME NEW p \in AP, ApRecvResp(p) PROVE TypeOK'
  <2> PICK m \in net :
        /\ m.type = "AC_REG_RESP" /\ net' = net \ {m}
        /\ \/ UNCHANGED <<isreg, acuuid, nic, leased>>
           \/ /\ acuuid' = [acuuid EXCEPT ![p] = m.from]
              /\ \E ok \in BOOLEAN :
                  /\ nic' = [nic EXCEPT ![p] =
                                IF ok /\ m.apaddr # NoAddr THEN m.apaddr ELSE @]
                  /\ leased' = [leased EXCEPT ![p] = ok /\ m.apaddr # NoAddr /\ m.live]
              /\ isreg' = [isreg EXCEPT ![p] = TRUE]
        /\ UNCHANGED <<acVars, argaddr, random_map, offset, asked, answered, counts>>
    BY <1>8 DEF ApRecvResp
  <2>1. m \in RespMsg
    BY FrameTypes DEF InFlight, TypeOK
  <2>2. CASE UNCHANGED <<isreg, acuuid, nic, leased>>
    BY <2>2 DEF TypeOK, acVars, counts
  <2>3. CASE ~UNCHANGED <<isreg, acuuid, nic, leased>>
    <3> PICK ok \in BOOLEAN :
          /\ nic' = [nic EXCEPT ![p] =
                        IF ok /\ m.apaddr # NoAddr THEN m.apaddr ELSE @]
          /\ leased' = [leased EXCEPT ![p] = ok /\ m.apaddr # NoAddr /\ m.live]
      BY <2>3
    <3>1. leased' \in [AP -> BOOLEAN]
      BY DEF TypeOK
    <3>2. nic' \in [AP -> Addr \cup {NoAddr}]
      BY <2>1 DEF TypeOK, RespMsg
    <3>3. acuuid' \in [AP -> AC \cup {NoAc}] /\ isreg' \in [AP -> BOOLEAN]
      BY <2>1, <2>3 DEF TypeOK, RespMsg
    <3> QED
      BY <3>1, <3>2, <3>3 DEF TypeOK, acVars, counts
  <2> QED
    BY <2>2, <2>3
<1>9. ASSUME NEW p \in AP, ApRestart(p) PROVE TypeOK'
  <2>1. EmptyMap \in [Slots -> [random : Random \cup {NoRandom}, mac : AC \cup {NoMac}]]
    BY DEF EmptyMap
  <2>2. 0 \in Slots
    BY DEF Slots
  <2> QED
    BY <1>9, <2>1, <2>2 DEF ApRestart, TypeOK, Left, acVars
<1>10. ASSUME NEW m \in net, Lose(m) PROVE TypeOK'
  BY <1>10 DEF Lose, TypeOK, acVars, apVars, history
<1>11. CASE UNCHANGED vars
  BY <1>11 DEF vars, TypeOK, acVars, apVars, history, counts
<1> QED
  BY <1>1, <1>3, <1>4, <1>5, <1>6, <1>7, <1>8, <1>9, <1>10, <1>11 DEF Next

\* Every variable keeps its type, whatever the constants.
THEOREM TypeCorrect == Spec => []TypeOK
  BY InitTypeOK, NextTypeOK, PTL DEF Spec

-----------------------------------------------------------------------------
\* RESPs in flight after a step that sends none: what they say was in flight
\* before, and live can only have been cleared.
NoNewResp ==
    \A n \in InFlight("AC_REG_RESP")' : \E m \in InFlight("AC_REG_RESP") :
        /\ m.from = n.from /\ m.to = n.to /\ m.chap = n.chap /\ m.apaddr = n.apaddr
        /\ n.live => m.live
NoNewReg == InFlight("AP_REG")' \subseteq InFlight("AP_REG")
NoNewBrd == InFlight("AC_BRD")' \subseteq InFlight("AC_BRD")

\* A step that only takes frames off the segment sends nothing.
LEMMA NothingNew ==
    ASSUME net' \subseteq net
    PROVE  NoNewResp /\ NoNewReg /\ NoNewBrd
  BY DEF NoNewResp, NoNewReg, NoNewBrd, InFlight

\* An AC that dies sends nothing, and its RESPs in flight are no longer live.
LEMMA AcDownSendsNothing ==
    ASSUME TypeOK, NEW a \in AC, AcDown(a)
    PROVE  /\ NoNewReg /\ NoNewBrd
           /\ \A n \in InFlight("AC_REG_RESP")' : n.from = a => ~n.live
           /\ NoNewResp
<1> DEFINE after(m) == IF m.type = "AC_REG_RESP" /\ m.from = a
                       THEN [m EXCEPT !.live = FALSE] ELSE m
<1>1. PICK left \in SUBSET net : net' = {after(m) : m \in left}
  BY DEF AcDown, Left
<1>2. \A m \in net : m.type = "AC_REG_RESP" => m \in RespMsg
  BY FrameTypes DEF InFlight, TypeOK
<1>3. \A m \in net : /\ after(m).type = m.type
                     /\ m.type # "AC_REG_RESP" => after(m) = m
  BY <1>2 DEF RespMsg
<1>4. \A m \in InFlight("AC_REG_RESP") :
        LET n == after(m)
        IN  /\ m.from = n.from /\ m.to = n.to /\ m.chap = n.chap /\ m.apaddr = n.apaddr
            /\ n.live => m.live
            /\ n.from = a => ~n.live
  BY <1>2 DEF RespMsg, InFlight
<1> HIDE DEF after
<1>5. NoNewReg /\ NoNewBrd
  BY <1>1, <1>3 DEF NoNewReg, NoNewBrd, InFlight
<1>6. ASSUME NEW n \in InFlight("AC_REG_RESP")'
      PROVE  \E m \in InFlight("AC_REG_RESP") : n = after(m)
  BY <1>1, <1>3 DEF InFlight
<1> QED
  BY <1>4, <1>5, <1>6 DEF NoNewResp

\* Leaving the rings, the requests and the registrations alone, a step that
\* sends neither REG nor RESP keeps RandomsAsked and OnlyIfAsked.
LEMMA AskedFrame ==
    ASSUME RandomsAsked, OnlyIfAsked, NoNewReg, NoNewResp,
           UNCHANGED <<random_map, asked, isreg, acuuid>>
    PROVE  RandomsAsked' /\ OnlyIfAsked'
  BY DEF RandomsAsked, OnlyIfAsked, NoNewReg, NoNewResp

\* A draw puts into the ring a random that is in no frame.
LEMMA DrawForKeeps ==
    ASSUME TypeOK, NEW p \in AP, NEW a \in AC, DrawFor(p, a),
           NEW q \in AP, NEW i \in Slots, NEW r \in Random,
           random_map'[q][i].random = r, r # Fresh
    PROVE  random_map[q][i].random = r
<1>1. random_map[p] \in [Slots -> [random : Random \cup {NoRandom}, mac : AC \cup {NoMac}]]
  BY DEF TypeOK
<1> QED
  BY <1>1 DEF DrawFor, new_random, TypeOK

\* Every action keeps RandomsAsked and OnlyIfAsked.
LEMMA NextAsked == TypeOK /\ RandomsAsked /\ OnlyIfAsked /\ [Next]_vars
                   => RandomsAsked' /\ OnlyIfAsked'
<1> SUFFICES ASSUME TypeOK, RandomsAsked, OnlyIfAsked, [Next]_vars
             PROVE  RandomsAsked' /\ OnlyIfAsked'
  OBVIOUS
<1>1. ASSUME NEW a \in AC, Broadcast(a) PROVE RandomsAsked' /\ OnlyIfAsked'
  <2>1. NoNewReg /\ NoNewResp
    BY <1>1 DEF Broadcast, Brd, NoNewReg, NoNewResp, InFlight
  <2> QED
    BY <1>1, <2>1, AskedFrame DEF Broadcast, apVars
<1>2. ASSUME NEW a \in AC, AcDown(a) PROVE RandomsAsked' /\ OnlyIfAsked'
  BY <1>2, AcDownSendsNothing, AskedFrame DEF AcDown, apVars
<1>3. ASSUME NEW a \in AC, AcRecvReg(a) PROVE RandomsAsked' /\ OnlyIfAsked'
  <2> PICK m \in net : /\ up[a] /\ m.type = "AP_REG" /\ m.to = a
                       /\ \/ RegRejected(a, m) \/ RegGranted(a, m)
                          \/ RegOverdrawn(a, m) \/ RegFaults(a, m)
    BY <1>3 DEF AcRecvReg
  <2>0. m \in RegMsg /\ m \in InFlight("AP_REG")
    BY FrameTypes DEF InFlight, TypeOK
  <2>1. CASE RegRejected(a, m)
    BY <2>1, NothingNew, AskedFrame DEF RegRejected, apVars, history
  <2>2. ASSUME NEW x, net' = (net \ {m}) \cup {Resp(a, m.from, m.random, x)},
               UNCHANGED <<apVars, asked>>
        PROVE  RandomsAsked' /\ OnlyIfAsked'
    <3>1. NoNewReg
      BY <2>2 DEF NoNewReg, InFlight, Resp
    <3>2. \A n \in InFlight("AC_REG_RESP")' :
            \/ n \in InFlight("AC_REG_RESP")
            \/ n.from = a /\ n.to = m.from /\ n.chap = m.random
      BY <2>2 DEF InFlight, Resp
    <3>3. m.to = a
      OBVIOUS
    <3> QED
      BY <2>0, <2>2, <3>1, <3>2, <3>3 DEF RandomsAsked, OnlyIfAsked, NoNewReg, apVars
  <2>3. CASE RegGranted(a, m)
    BY <2>2, <2>3 DEF RegGranted
  <2>4. CASE RegOverdrawn(a, m)
    BY <2>2, <2>4 DEF RegOverdrawn
  <2>5. CASE RegFaults(a, m)
    BY <1>2, <2>5 DEF RegFaults
  <2> QED
    BY <2>1, <2>3, <2>4, <2>5
<1>4. ASSUME NEW a \in AC, AcRecvApResp(a) PROVE RandomsAsked' /\ OnlyIfAsked'
  BY <1>4, NothingNew, AskedFrame DEF AcRecvApResp, apVars, history
<1>5. ASSUME NEW a \in AC, AcCrash(a) PROVE RandomsAsked' /\ OnlyIfAsked'
  BY <1>2, <1>5 DEF AcCrash
<1>6. ASSUME NEW a \in AC, AcStart(a) PROVE RandomsAsked' /\ OnlyIfAsked'
  BY <1>6, NothingNew, AskedFrame DEF AcStart, apVars, history
<1>7. ASSUME NEW p \in AP, ApRecvBrd(p) PROVE RandomsAsked' /\ OnlyIfAsked'
  <2> PICK m \in net :
        /\ m.type = "AC_BRD" /\ m.to = p
        /\ SendReg(p, m) \/ SendApResp(p, m) \/ IgnoreBrd(p, m)
    BY <1>7 DEF ApRecvBrd
  <2>0. m \in BrdMsg
    BY FrameTypes DEF InFlight, TypeOK
  <2>a. m.from \in AC
    BY <2>0 DEF BrdMsg
  <2>1. ASSUME DrawFor(p, m.from), UNCHANGED <<isreg, acuuid>>,
               \A q \in AP : asked[q] \subseteq asked'[q],
               NoNewResp,
               \A n \in InFlight("AP_REG")' :
                  \/ n \in InFlight("AP_REG")
                  \/ n.random = Fresh /\ n.from = p /\ n.to \in asked'[p]
        PROVE  RandomsAsked' /\ OnlyIfAsked'
    <3>0. /\ \A n \in InFlight("AP_REG") :
                n.random \in Random /\ n.random # Fresh /\ n.from \in AP
          /\ \A n \in InFlight("AC_REG_RESP") :
                n.chap \in Random /\ n.chap # Fresh /\ n.to \in AP
      BY <2>1, FreshIsNew, FrameTypes DEF DrawFor, TypeOK, RegMsg, RespMsg
    <3>1. ASSUME NEW n \in InFlight("AP_REG")', NEW i \in Slots,
                 random_map'[n.from][i].random = n.random
          PROVE  n.to \in asked'[n.from]
      <4>1. CASE n \in InFlight("AP_REG")
        <5>1. random_map[n.from][i].random = n.random
          BY <2>a, <2>1, <3>0, <3>1, <4>1, DrawForKeeps
        <5> QED
          BY <2>1, <3>0, <4>1, <5>1 DEF RandomsAsked
      <4> QED
        BY <2>1, <4>1
    <3>2. ASSUME NEW n \in InFlight("AC_REG_RESP")', NEW i \in Slots,
                 random_map'[n.to][i].random = n.chap
          PROVE  n.from \in asked'[n.to]
      <4> PICK k \in InFlight("AC_REG_RESP") :
                k.from = n.from /\ k.to = n.to /\ k.chap = n.chap
        BY <2>1 DEF NoNewResp
      <4>1. random_map[k.to][i].random = k.chap
        BY <2>a, <2>1, <3>0, <3>2, DrawForKeeps
      <4> QED
        BY <2>1, <3>0, <4>1 DEF RandomsAsked
    <3>3. OnlyIfAsked'
      BY <2>1 DEF OnlyIfAsked
    <3> QED
      BY <3>1, <3>2, <3>3 DEF RandomsAsked
  <2>2. CASE SendReg(p, m)
    <3>1. NoNewResp
      BY <2>2 DEF SendReg, NoNewResp, InFlight, Reg
    <3>2. (\A q \in AP : asked[q] \subseteq asked'[q]) /\ m.from \in asked'[p]
      BY <2>2 DEF SendReg, TypeOK
    <3> QED
      BY <2>1, <2>2, <3>1, <3>2 DEF SendReg, InFlight, Reg
  <2>3. CASE SendApResp(p, m)
    <3>1. NoNewResp
      BY <2>3 DEF SendApResp, NoNewResp, InFlight, ApResp
    <3> QED
      BY <2>1, <2>3, <3>1 DEF SendApResp, InFlight, ApResp
  <2>4. CASE IgnoreBrd(p, m)
    BY <2>4, NothingNew, AskedFrame DEF IgnoreBrd, apVars
  <2> QED
    BY <2>2, <2>3, <2>4
<1>8. ASSUME NEW p \in AP, ApRecvResp(p) PROVE RandomsAsked' /\ OnlyIfAsked'
  <2> PICK m \in net :
        /\ m.type = "AC_REG_RESP" /\ m.to = p /\ net' = net \ {m}
        /\ \/ UNCHANGED <<isreg, acuuid>>
           \/ /\ Answers(p, m)
              /\ acuuid' = [acuuid EXCEPT ![p] = m.from]
              /\ isreg' = [isreg EXCEPT ![p] = TRUE]
        /\ UNCHANGED <<random_map, asked>>
    BY <1>8 DEF ApRecvResp
  <2>0. m \in RespMsg /\ m \in InFlight("AC_REG_RESP")
    BY FrameTypes DEF InFlight, TypeOK
  <2>1. RandomsAsked'
    BY NothingNew DEF RandomsAsked, NoNewReg, NoNewResp
  <2>2. CASE UNCHANGED <<isreg, acuuid>>
    BY <2>1, <2>2 DEF OnlyIfAsked
  <2>3. CASE /\ Answers(p, m)
             /\ acuuid' = [acuuid EXCEPT ![p] = m.from]
             /\ isreg' = [isreg EXCEPT ![p] = TRUE]
    <3>1. offset[p] \in Slots /\ m.chap \in Random
      BY <2>0 DEF TypeOK, RespMsg
    <3>2. PICK i \in Slots : random_map[p][i].random = m.chap
      BY <2>3, <3>1, GetRandomIsOurs DEF Answers
    <3>3. m.from \in asked[p]
      BY <2>0, <3>2 DEF RandomsAsked
    <3> QED
      BY <2>1, <2>3, <3>3 DEF OnlyIfAsked, TypeOK
  <2> QED
    BY <2>1, <2>2, <2>3
<1>9. ASSUME NEW p \in AP, ApRestart(p) PROVE RandomsAsked' /\ OnlyIfAsked'
  <2>1. net' \subseteq net
    BY <1>9 DEF ApRestart, Left
  <2>2. \A n \in InFlight("AP_REG")' : n \in InFlight("AP_REG") /\ n.random \in Random
    BY <2>1, FrameTypes DEF InFlight, TypeOK, RegMsg
  <2>3. \A n \in InFlight("AC_REG_RESP")' :
            n \in InFlight("AC_REG_RESP") /\ n.chap \in Random
    BY <2>1, FrameTypes DEF InFlight, TypeOK, RespMsg
  <2>4. /\ \A i \in Slots : random_map'[p][i].random = NoRandom
        /\ \A q \in AP : q # p => random_map'[q] = random_map[q]
                                   /\ asked'[q] = asked[q]
                                   /\ isreg'[q] = isreg[q] /\ acuuid'[q] = acuuid[q]
        /\ ~isreg'[p]
    BY <1>9 DEF ApRestart, TypeOK, EmptyMap
  <2>5. /\ \A n \in InFlight("AP_REG") : n.from \in AP
        /\ \A n \in InFlight("AC_REG_RESP") : n.to \in AP
    BY FrameTypes DEF TypeOK, RegMsg, RespMsg
  <2>6. RandomsAsked'
    BY <2>2, <2>3, <2>4, <2>5 DEF RandomsAsked
  <2> QED
    BY <2>4, <2>6 DEF OnlyIfAsked
<1>10. ASSUME NEW m \in net, Lose(m) PROVE RandomsAsked' /\ OnlyIfAsked'
  BY <1>10, NothingNew, AskedFrame DEF Lose, apVars, history
<1>11. CASE UNCHANGED vars
  BY <1>11, NothingNew, AskedFrame DEF vars, apVars, history
<1> QED
  BY <1>1, <1>3, <1>4, <1>5, <1>6, <1>7, <1>8, <1>9, <1>10, <1>11 DEF Next

-----------------------------------------------------------------------------
Leases == RespLeased /\ LeaseHeld

\* A step that sends no RESP and leaves leases and registrations alone.
LEMMA LeaseFrame ==
    ASSUME Leases, NoNewResp, UNCHANGED <<lease, corrupt, leased, isreg, acuuid, nic>>
    PROVE  Leases'
  BY DEF Leases, RespLeased, LeaseHeld, NoNewResp

\* An AC that dies takes the claims on its own leases with it, no others.
LEMMA AcDownLeases ==
    ASSUME TypeOK, Leases, NEW a \in AC, AcDown(a)
    PROVE  Leases'
<1>1. /\ \A b \in AC : b # a => lease'[b] = lease[b] /\ corrupt'[b] = corrupt[b]
      /\ \A p \in AP : leased'[p] => leased[p] /\ acuuid[p] # a
      /\ UNCHANGED <<isreg, acuuid, nic>>
  BY DEF AcDown, TypeOK, apVars
<1>2. RespLeased'
  <2> SUFFICES ASSUME NEW n \in InFlight("AC_REG_RESP")',
                      n.live, n.apaddr # NoAddr, ~corrupt'[n.from]
               PROVE  lease'[n.from][n.apaddr] = n.to
    BY DEF RespLeased
  <2>1. PICK m \in InFlight("AC_REG_RESP") :
            /\ m.from = n.from /\ m.to = n.to /\ m.apaddr = n.apaddr
            /\ n.live => m.live
    BY AcDownSendsNothing DEF NoNewResp
  <2>2. n.from # a
    BY AcDownSendsNothing
  <2>3. m.from \in AC
    BY FrameTypes DEF TypeOK, RespMsg
  <2> QED
    BY <1>1, <2>1, <2>2, <2>3 DEF Leases, RespLeased
<1>3. LeaseHeld'
  BY <1>1 DEF Leases, LeaseHeld
<1> QED
  BY <1>2, <1>3 DEF Leases

\* Every action keeps RespLeased and LeaseHeld.
LEMMA NextLeases == TypeOK /\ Leases /\ [Next]_vars => Leases'
<1> SUFFICES ASSUME TypeOK, Leases, [Next]_vars PROVE Leases'
  OBVIOUS
<1>1. ASSUME NEW a \in AC, Broadcast(a) PROVE Leases'
  <2>1. NoNewResp
    BY <1>1 DEF Broadcast, Brd, NoNewResp, InFlight
  <2> QED
    BY <1>1, <2>1, LeaseFrame DEF Broadcast, apVars
<1>2. ASSUME NEW a \in AC, AcRecvReg(a) PROVE Leases'
  <2> PICK m \in net : /\ m.type = "AP_REG" /\ m.to = a
                       /\ \/ RegRejected(a, m) \/ RegGranted(a, m)
                          \/ RegOverdrawn(a, m) \/ RegFaults(a, m)
    BY <1>2 DEF AcRecvReg
  <2>0. m \in RegMsg
    BY FrameTypes DEF InFlight, TypeOK
  <2>a. \A n \in InFlight("AC_REG_RESP") : n.from \in AC
    BY FrameTypes DEF TypeOK, RespMsg
  <2>1. CASE RegRejected(a, m)
    BY <2>1, NothingNew, LeaseFrame DEF RegRejected, acVars, apVars, history
  <2>2. CASE RegGranted(a, m)
    <3> PICK x \in Grants(a, m) :
            /\ lease' = [lease EXCEPT ![a][x] = m.from]
            /\ net' = (net \ {m}) \cup {Resp(a, m.from, m.random, x)}
      BY <2>2 DEF RegGranted
    <3>1. x \in Addr /\ lease[a][x] = NoAp
      BY DEF Grants, Free
    <3>2. /\ lease'[a][x] = m.from
          /\ \A b \in AC, y \in Addr :
                lease[b][y] # NoAp => lease'[b][y] = lease[b][y]
      BY <3>1 DEF TypeOK
    <3>3. m.from \in AP /\ UNCHANGED <<corrupt, leased, isreg, acuuid, nic>>
      BY <2>0, <2>2 DEF RegMsg, RegGranted, apVars
    <3>4. ASSUME NEW n \in InFlight("AC_REG_RESP")',
                 n.live, n.apaddr # NoAddr, ~corrupt'[n.from]
          PROVE  lease'[n.from][n.apaddr] = n.to
      <4>1. CASE n = Resp(a, m.from, m.random, x)
        BY <3>2, <4>1 DEF Resp
      <4>2. CASE n \in InFlight("AC_REG_RESP")
        <5>1. lease[n.from][n.apaddr] = n.to
          BY <3>3, <3>4, <4>2 DEF Leases, RespLeased
        <5>2. n.from \in AC /\ n.apaddr \in Addr /\ n.to \in AP
          BY <3>4, <4>2, FrameTypes DEF TypeOK, RespMsg
        <5> QED
          BY <3>2, <5>1, <5>2
      <4> QED
        BY <4>1, <4>2 DEF InFlight
    <3>5. LeaseHeld'
      BY <3>2, <3>3 DEF Leases, LeaseHeld
    <3> QED
      BY <3>4, <3>5 DEF Leases, RespLeased
  <2>3. CASE RegOverdrawn(a, m)
    <3> PICK x : net' = (net \ {m}) \cup {Resp(a, m.from, m.random, x)}
      BY <2>3 DEF RegOverdrawn
    <3>1. /\ corrupt'[a]
          /\ \A b \in AC : b # a => corrupt'[b] = corrupt[b]
          /\ UNCHANGED <<lease, leased, isreg, acuuid, nic>>
      BY <2>3 DEF RegOverdrawn, TypeOK, apVars
    <3>2. \A n \in InFlight("AC_REG_RESP")' : n \in InFlight("AC_REG_RESP") \/ n.from = a
      BY DEF InFlight, Resp
    <3> QED
      BY <2>a, <3>1, <3>2 DEF Leases, RespLeased, LeaseHeld
  <2>4. CASE RegFaults(a, m)
    BY <2>4, AcDownLeases DEF RegFaults
  <2> QED
    BY <2>1, <2>2, <2>3, <2>4
<1>3. ASSUME NEW a \in AC, AcRecvApResp(a) PROVE Leases'
  BY <1>3, NothingNew, LeaseFrame DEF AcRecvApResp, apVars, history
<1>4. ASSUME NEW a \in AC, AcCrash(a) PROVE Leases'
  BY <1>4, AcDownLeases DEF AcCrash
<1>5. ASSUME NEW a \in AC, AcStart(a) PROVE Leases'
  BY <1>5, NothingNew, LeaseFrame DEF AcStart, apVars, history
<1>6. ASSUME NEW p \in AP, ApRecvBrd(p) PROVE Leases'
  <2> PICK m \in net :
        /\ SendReg(p, m) \/ SendApResp(p, m) \/ IgnoreBrd(p, m)
        /\ UNCHANGED acVars
    BY <1>6 DEF ApRecvBrd
  <2>1. /\ NoNewResp
        /\ UNCHANGED <<leased, isreg, acuuid, nic>>
    BY DEF SendReg, SendApResp, IgnoreBrd, NoNewResp, InFlight, Reg, ApResp, apVars
  <2> QED
    BY <2>1, LeaseFrame DEF acVars
<1>7. ASSUME NEW p \in AP, ApRecvResp(p) PROVE Leases'
  <2> PICK m \in net :
        /\ m.type = "AC_REG_RESP" /\ m.to = p /\ net' = net \ {m}
        /\ \/ UNCHANGED <<isreg, acuuid, nic, leased>>
           \/ /\ acuuid' = [acuuid EXCEPT ![p] = m.from]
              /\ \E ok \in BOOLEAN :
                  /\ nic' = [nic EXCEPT ![p] =
                                IF ok /\ m.apaddr # NoAddr THEN m.apaddr ELSE @]
                  /\ leased' = [leased EXCEPT ![p] = ok /\ m.apaddr # NoAddr /\ m.live]
              /\ isreg' = [isreg EXCEPT ![p] = TRUE]
        /\ UNCHANGED acVars
    BY <1>7 DEF ApRecvResp
  <2>0. m \in RespMsg /\ m \in InFlight("AC_REG_RESP")
    BY FrameTypes DEF InFlight, TypeOK
  <2>1. NoNewResp
    BY NothingNew
  <2>2. CASE UNCHANGED <<isreg, acuuid, nic, leased>>
    BY <2>1, <2>2, LeaseFrame DEF acVars
  <2>3. CASE /\ acuuid' = [acuuid EXCEPT ![p] = m.from]
             /\ \E ok \in BOOLEAN :
                 /\ nic' = [nic EXCEPT ![p] =
                                IF ok /\ m.apaddr # NoAddr THEN m.apaddr ELSE @]
                 /\ leased' = [leased EXCEPT ![p] = ok /\ m.apaddr # NoAddr /\ m.live]
             /\ isreg' = [isreg EXCEPT ![p] = TRUE]
    <3>1. isreg'[p] /\ acuuid'[p] = m.from /\ m.from \in AC
      BY <2>0, <2>3 DEF TypeOK, RespMsg
    <3>2. leased'[p] => m.apaddr \in Addr /\ m.live /\ nic'[p] = m.apaddr
      BY <2>0, <2>3 DEF TypeOK, RespMsg
    <3>3. \A q \in AP : q # p => /\ leased'[q] = leased[q] /\ isreg'[q] = isreg[q]
                                 /\ acuuid'[q] = acuuid[q] /\ nic'[q] = nic[q]
      BY <2>3 DEF TypeOK
    <3>4. UNCHANGED <<lease, corrupt>>
      BY DEF acVars
    <3>5. leased'[p] /\ ~corrupt[m.from] => lease[m.from][nic'[p]] = p
      BY <2>0, <3>2 DEF Leases, RespLeased
    <3>6. LeaseHeld'
      BY <3>1, <3>2, <3>3, <3>4, <3>5 DEF Leases, LeaseHeld
    <3> QED
      BY <2>1, <3>4, <3>6 DEF Leases, RespLeased, NoNewResp
  <2> QED
    BY <2>2, <2>3
<1>8. ASSUME NEW p \in AP, ApRestart(p) PROVE Leases'
  <2>1. NoNewResp /\ UNCHANGED <<lease, corrupt, nic>>
    BY <1>8, NothingNew DEF ApRestart, Left, acVars
  <2>2. ~leased'[p] /\ \A q \in AP : q # p =>
            /\ leased'[q] = leased[q] /\ isreg'[q] = isreg[q] /\ acuuid'[q] = acuuid[q]
    BY <1>8 DEF ApRestart, TypeOK
  <2> QED
    BY <2>1, <2>2 DEF Leases, RespLeased, LeaseHeld, NoNewResp
<1>9. ASSUME NEW m \in net, Lose(m) PROVE Leases'
  BY <1>9, NothingNew, LeaseFrame DEF Lose, acVars, apVars, history
<1>10. CASE UNCHANGED vars
  BY <1>10, NothingNew, LeaseFrame DEF vars, acVars, apVars, history
<1> QED
  BY <1>1, <1>2, <1>3, <1>4, <1>5, <1>6, <1>7, <1>8, <1>9, <1>10 DEF Next

-----------------------------------------------------------------------------
\* A step that sends no BRD and no REG, and answers no more APs under the same
\* random.
LEMMA OpenFrame ==
    ASSUME TypeOK, BroadcastOpen, NoNewReg, NoNewBrd,
           \A a \in AC : \/ random'[a] = random[a] /\ answered'[a] = answered[a]
                         \/ random'[a] = NoRandom
    PROVE  BroadcastOpen'
<1>1. /\ \A m \in InFlight("AC_BRD") : m.from \in AC /\ m.random # NoRandom
      /\ \A m \in InFlight("AP_REG") : m.to \in AC /\ m.chap # NoRandom
  BY FrameTypes DEF TypeOK, BrdMsg, RegMsg
<1>2. ASSUME NEW m \in InFlight("AC_BRD")', m.random = random'[m.from]
      PROVE  /\ m.to \notin answered'[m.from]
             /\ \A n \in InFlight("AP_REG")' :
                   n.from = m.to /\ n.to = m.from => n.chap # m.random
  BY <1>1, <1>2 DEF BroadcastOpen, NoNewBrd, NoNewReg
<1>3. ASSUME NEW m \in InFlight("AP_REG")', m.chap = random'[m.to]
      PROVE  /\ m.from \notin answered'[m.to]
             /\ \A n \in InFlight("AP_REG")' :
                   n.from = m.from /\ n.to = m.to /\ n.chap = m.chap => n = m
  BY <1>1, <1>3 DEF BroadcastOpen, NoNewReg
<1> QED
  BY <1>2, <1>3 DEF BroadcastOpen

\* Every action keeps BroadcastOpen.
LEMMA NextOpen == TypeOK /\ BroadcastOpen /\ [Next]_vars => BroadcastOpen'
<1> SUFFICES ASSUME TypeOK, BroadcastOpen, [Next]_vars PROVE BroadcastOpen'
  OBVIOUS
<1>0. /\ \A m \in InFlight("AC_BRD") : m.from \in AC /\ m.to \in AP
      /\ \A m \in InFlight("AP_REG") : m.from \in AP /\ m.to \in AC
  BY FrameTypes DEF TypeOK, BrdMsg, RegMsg
<1>1. ASSUME NEW a \in AC, Broadcast(a) PROVE BroadcastOpen'
  <2>1. /\ random'[a] = Fresh /\ answered'[a] = {}
        /\ \A b \in AC : b # a => random'[b] = random[b] /\ answered'[b] = answered[b]
    BY <1>1 DEF Broadcast, TypeOK
  <2>2. /\ \A m \in InFlight("AC_BRD") : m.random # Fresh
        /\ \A m \in InFlight("AP_REG") : m.chap # Fresh
    BY <1>1, FreshIsNew DEF Broadcast
  <2>3. NoNewReg
    BY <1>1 DEF Broadcast, Brd, NoNewReg, InFlight
  <2>4. \A m \in InFlight("AC_BRD")' :
            \/ m \in InFlight("AC_BRD")
            \/ m.from = a /\ m.random = Fresh
    BY <1>1, <2>1 DEF Broadcast, Brd, InFlight
  <2>5. ASSUME NEW m \in InFlight("AC_BRD")', m.random = random'[m.from]
        PROVE  /\ m.to \notin answered'[m.from]
               /\ \A n \in InFlight("AP_REG")' :
                     n.from = m.to /\ n.to = m.from => n.chap # m.random
    BY <1>0, <2>1, <2>2, <2>3, <2>4, <2>5 DEF BroadcastOpen, NoNewReg
  <2>6. ASSUME NEW m \in InFlight("AP_REG")', m.chap = random'[m.to]
        PROVE  /\ m.from \notin answered'[m.to]
               /\ \A n \in InFlight("AP_REG")' :
                     n.from = m.from /\ n.to = m.to /\ n.chap = m.chap => n = m
    BY <1>0, <2>1, <2>2, <2>3, <2>6 DEF BroadcastOpen, NoNewReg
  <2> QED
    BY <2>5, <2>6 DEF BroadcastOpen
<1>2. ASSUME NEW a \in AC, AcDown(a) PROVE BroadcastOpen'
  <2>1. \A b \in AC : \/ random'[b] = random[b] /\ answered'[b] = answered[b]
                      \/ random'[b] = NoRandom
    BY <1>2 DEF AcDown, TypeOK
  <2> QED
    BY <1>2, <2>1, AcDownSendsNothing, OpenFrame
<1>3. ASSUME NEW a \in AC, AcRecvReg(a) PROVE BroadcastOpen'
  <2> PICK m \in net : /\ m.type = "AP_REG" /\ m.to = a
                       /\ \/ RegRejected(a, m) \/ RegGranted(a, m)
                          \/ RegOverdrawn(a, m) \/ RegFaults(a, m)
    BY <1>3 DEF AcRecvReg
  <2>0. m \in InFlight("AP_REG")
    BY DEF InFlight
  <2>1. CASE RegRejected(a, m)
    BY <2>1, NothingNew, OpenFrame DEF RegRejected, acVars, history
  <2>2. ASSUME NEW x, net' = (net \ {m}) \cup {Resp(a, m.from, m.random, x)},
               InTime(a, m), UNCHANGED random,
               answered' = [answered EXCEPT ![a] = @ \cup {m.from}]
        PROVE  BroadcastOpen'
    <3>1. /\ InFlight("AP_REG")' \subseteq InFlight("AP_REG") \ {m}
          /\ NoNewBrd
      BY <2>2 DEF NoNewBrd, InFlight, Resp
    <3>2. m.chap = random[a]
      BY <2>2 DEF InTime
    <3>3. \A b \in AC, p \in AP :
             p \in answered'[b] => p \in answered[b] \/ (b = a /\ p = m.from)
      BY <2>2 DEF TypeOK
    <3>4. ASSUME NEW k \in InFlight("AC_BRD")', k.random = random'[k.from]
          PROVE  /\ k.to \notin answered'[k.from]
                 /\ \A n \in InFlight("AP_REG")' :
                       n.from = k.to /\ n.to = k.from => n.chap # k.random
      <4>1. k \in InFlight("AC_BRD") /\ k.random = random[k.from]
        BY <2>2, <3>1, <3>4 DEF NoNewBrd
      <4>2. ~(k.from = a /\ k.to = m.from)
        BY <2>0, <3>2, <4>1 DEF BroadcastOpen
      <4> QED
        BY <1>0, <3>1, <3>3, <4>1, <4>2 DEF BroadcastOpen
    <3>5. ASSUME NEW k \in InFlight("AP_REG")', k.chap = random'[k.to]
          PROVE  /\ k.from \notin answered'[k.to]
                 /\ \A n \in InFlight("AP_REG")' :
                       n.from = k.from /\ n.to = k.to /\ n.chap = k.chap => n = k
      <4>1. k \in InFlight("AP_REG") /\ k # m /\ k.chap = random[k.to]
        BY <2>2, <3>1, <3>5
      <4>2. ~(k.from = m.from /\ k.to = a)
        BY <2>0, <3>2, <4>1 DEF BroadcastOpen
      <4> QED
        BY <1>0, <3>1, <3>3, <4>1, <4>2 DEF BroadcastOpen
    <3> QED
      BY <3>4, <3>5 DEF BroadcastOpen
  <2>3. CASE RegGranted(a, m)
    BY <2>2, <2>3 DEF RegGranted
  <2>4. CASE RegOverdrawn(a, m)
    BY <2>2, <2>4 DEF RegOverdrawn
  <2>5. CASE RegFaults(a, m)
    BY <1>2, <2>5 DEF RegFaults
  <2> QED
    BY <2>1, <2>3, <2>4, <2>5
<1>4. ASSUME NEW a \in AC, AcRecvApResp(a) PROVE BroadcastOpen'
  BY <1>4, NothingNew, OpenFrame DEF AcRecvApResp, history
<1>5. ASSUME NEW a \in AC, AcCrash(a) PROVE BroadcastOpen'
  BY <1>2, <1>5 DEF AcCrash
<1>6. ASSUME NEW a \in AC, AcStart(a) PROVE BroadcastOpen'
  BY <1>6, NothingNew, OpenFrame DEF AcStart, history
<1>7. ASSUME NEW p \in AP, ApRecvBrd(p) PROVE BroadcastOpen'
  <2> PICK m \in net :
        /\ m.type = "AC_BRD" /\ m.to = p
        /\ SendReg(p, m) \/ SendApResp(p, m) \/ IgnoreBrd(p, m)
        /\ UNCHANGED <<random, answered>>
    BY <1>7 DEF ApRecvBrd, acVars
  <2>0. m \in InFlight("AC_BRD") /\ m \in BrdMsg
    BY FrameTypes DEF InFlight, TypeOK
  <2>1. CASE SendReg(p, m)
    <3> DEFINE new == Reg(p, m.from, Fresh, m.random)
    <3>0. new.from = p /\ new.to = m.from /\ new.chap = m.random /\ new.type = "AP_REG"
      BY DEF Reg
    <3> HIDE DEF new
    <3>1. /\ InFlight("AP_REG")' = InFlight("AP_REG") \cup {new}
          /\ InFlight("AC_BRD")' = InFlight("AC_BRD") \ {m}
      BY <2>1, <3>0 DEF SendReg, InFlight, new
    <3>2. \A k \in InFlight("AC_BRD") :
             k.from = m.from /\ k.to = p /\ k.random = m.random => k = m
      <4>1. \A k \in BrdMsg : k = [type |-> "AC_BRD", from |-> k.from,
                                   to |-> k.to, random |-> k.random]
        BY DEF BrdMsg
      <4>2. m.to = p /\ InFlight("AC_BRD") \subseteq BrdMsg
        BY FrameTypes DEF TypeOK
      <4> QED
        BY <2>0, <4>1, <4>2
    <3>3. ASSUME NEW k \in InFlight("AC_BRD")', k.random = random'[k.from]
          PROVE  /\ k.to \notin answered'[k.from]
                 /\ \A n \in InFlight("AP_REG")' :
                       n.from = k.to /\ n.to = k.from => n.chap # k.random
      <4>1. k \in InFlight("AC_BRD") /\ k # m /\ k.random = random[k.from]
        BY <3>1, <3>3
      <4> QED
        BY <3>0, <3>1, <3>2, <4>1 DEF BroadcastOpen
    <3>4. ASSUME NEW k \in InFlight("AP_REG")', k.chap = random'[k.to]
          PROVE  /\ k.from \notin answered'[k.to]
                 /\ \A n \in InFlight("AP_REG")' :
                       n.from = k.from /\ n.to = k.to /\ n.chap = k.chap => n = k
      <4>1. CASE k = new
        <5>1. m.random = random[m.from]
          BY <3>0, <3>4, <4>1
        <5> QED
          BY <2>0, <3>0, <3>1, <4>1, <5>1 DEF BroadcastOpen
      <4>2. CASE k \in InFlight("AP_REG")
        <5>1. ~(k.from = p /\ k.to = m.from /\ k.chap = m.random)
          BY <2>0, <3>4, <4>2 DEF BroadcastOpen
        <5> QED
          BY <3>0, <3>1, <3>4, <4>2, <5>1 DEF BroadcastOpen
      <4> QED
        BY <3>1, <4>1, <4>2
    <3> QED
      BY <3>3, <3>4 DEF BroadcastOpen
  <2>2. CASE SendApResp(p, m)
    <3>1. NoNewReg /\ NoNewBrd
      BY <2>2 DEF SendApResp, NoNewReg, NoNewBrd, InFlight, ApResp
    <3> QED
      BY <3>1, OpenFrame
  <2>3. CASE IgnoreBrd(p, m)
    BY <2>3, NothingNew, OpenFrame DEF IgnoreBrd
  <2> QED
    BY <2>1, <2>2, <2>3
<1>8. ASSUME NEW p \in AP, ApRecvResp(p) PROVE BroadcastOpen'
  <2>1. net' \subseteq net /\ UNCHANGED <<random, answered>>
    BY <1>8 DEF ApRecvResp, acVars
  <2> QED
    BY <2>1, NothingNew, OpenFrame
<1>9. ASSUME NEW p \in AP, ApRestart(p) PROVE BroadcastOpen'
  BY <1>9, NothingNew, OpenFrame DEF ApRestart, Left, acVars
<1>10. ASSUME NEW m \in net, Lose(m) PROVE BroadcastOpen'
  BY <1>10, NothingNew, OpenFrame DEF Lose, acVars, history
<1>11. CASE UNCHANGED vars
  BY <1>11, NothingNew, OpenFrame DEF vars, acVars, history
<1> QED
  BY <1>1, <1>3, <1>4, <1>5, <1>6, <1>7, <1>8, <1>9, <1>10, <1>11 DEF Next

-----------------------------------------------------------------------------
\* The initial states satisfy the inductive invariant.
LEMMA InitIInv == Init => IInv
  BY InitTypeOK DEF Init, IInv, RandomsAsked, OnlyIfAsked, RespLeased, LeaseHeld,
                    BroadcastOpen, InFlight

\* The inductive invariant is inductive.
LEMMA NextIInv == IInv /\ [Next]_vars => IInv'
  BY NextTypeOK, NextAsked, NextLeases, NextOpen DEF IInv, Leases

\* The conjuncts of IInv hold together in every reachable state.
THEOREM Invariance == Spec => []IInv
  BY InitIInv, NextIInv, PTL DEF Spec

\* An AP's AC is one the AP asked since it started (proc_reg_resp's CHAP check).
THEOREM AskedTheorem == Spec => []OnlyIfAsked
<1>1. IInv => OnlyIfAsked
  BY DEF IInv
<1> QED
  BY <1>1, Invariance, PTL

\* The address an AP has set for a lease is its own in the AC's table, while that AC runs
\* and its pool is not overdrawn (__ap_reg, proc_reg_resp).
THEOREM LeaseTheorem == Spec => []LeaseHeld
<1>1. IInv => LeaseHeld
  BY DEF IInv
<1> QED
  BY <1>1, Invariance, PTL

\* A broadcast earns an AP at most one lease (__ap_reg's CHAP check).
THEOREM OneLeaseTheorem == Spec => OneLeasePerBroadcast
<1> DEFINE NoSecond == \A a \in AC, p \in AP :
              p \in answered[a] =>
                  \A x \in Addr : lease'[a][x] = p => lease[a][x] = p
<1>1. ASSUME IInv, [Next]_vars PROVE [NoSecond]_vars
  <2> SUFFICES ASSUME NEW a \in AC, NEW p \in AP, p \in answered[a],
                      NEW x \in Addr, lease'[a][x] = p
               PROVE  lease[a][x] = p
    OBVIOUS
  <2>0. TypeOK /\ BroadcastOpen
    BY <1>1 DEF IInv
  <2>1. CASE UNCHANGED lease
    BY <2>1
  <2>2. ASSUME NEW b \in AC, AcDown(b) PROVE lease[a][x] = p
    BY <2>0, <2>2 DEF AcDown, TypeOK
  <2>3. ASSUME NEW b \in AC, NEW m \in net, m.type = "AP_REG", m.to = b,
               RegGranted(b, m)
        PROVE  lease[a][x] = p
    <3>1. m.chap = random[b] /\ m \in InFlight("AP_REG")
      BY <2>3 DEF RegGranted, InTime, InFlight
    <3>2. m.from \notin answered[b]
      BY <2>0, <2>3, <3>1 DEF BroadcastOpen
    <3> PICK y \in Grants(b, m) : lease' = [lease EXCEPT ![b][y] = m.from]
      BY <2>3 DEF RegGranted
    <3> QED
      BY <2>0, <3>2 DEF TypeOK
  <2>4. \/ UNCHANGED lease
        \/ \E b \in AC : AcDown(b)
        \/ \E b \in AC, m \in net : m.type = "AP_REG" /\ m.to = b /\ RegGranted(b, m)
    BY <1>1 DEF Next, vars, acVars, Broadcast, AcRecvReg, RegRejected, RegOverdrawn,
                RegFaults, AcRecvApResp, AcCrash, AcStart, ApRecvBrd, ApRecvResp,
                ApRestart, Lose
  <2> QED
    BY <2>1, <2>2, <2>3, <2>4
<1> QED
  BY <1>1, Invariance, PTL DEF Spec, OneLeasePerBroadcast

-----------------------------------------------------------------------------
\* A step that changes a lease table is a step of that table's specification: a
\* lease on a free address, the fresh start of the AC, or the end of the promise.
LEMMA TableStep ==
    ASSUME TypeOK, [Next]_vars, NEW a \in AC
    PROVE  [LT(a)!Next]_(LT(a)!vars)
<1>1. CASE UNCHANGED <<lease, corrupt>>
  BY <1>1 DEF LT!vars
<1>2. ASSUME NEW b \in AC, AcDown(b) PROVE [LT(a)!Next]_(LT(a)!vars)
  <2>1. CASE b = a
    <3>1. LT(a)!Reset
      BY <1>2, <2>1 DEF AcDown, TypeOK, LT!Reset, LT!NoLease
    <3> QED
      BY <3>1 DEF LT!Next
  <2>2. CASE b # a
    <3>1. lease'[a] = lease[a] /\ corrupt'[a] = corrupt[a]
      BY <1>2, <2>2 DEF AcDown, TypeOK
    <3> QED
      BY <3>1 DEF LT!vars
  <2> QED
    BY <2>1, <2>2
<1>3. ASSUME NEW b \in AC, NEW m \in net, m.type = "AP_REG", RegGranted(b, m)
      PROVE  [LT(a)!Next]_(LT(a)!vars)
  <2>0. m.from \in AP
    BY <1>3, FrameTypes DEF InFlight, TypeOK, RegMsg
  <2> PICK x \in Grants(b, m) : lease' = [lease EXCEPT ![b][x] = m.from]
    BY <1>3 DEF RegGranted
  <2>1. x \in Pool[b] /\ x \in Addr /\ lease[b][x] = NoAp
    BY DEF Grants, Free
  <2>2. ~corrupt[b] /\ corrupt' = corrupt
    BY <1>3 DEF RegGranted
  <2>3. CASE b = a
    <3>1. lease'[a] = [lease[a] EXCEPT ![x] = m.from]
      BY <2>3 DEF TypeOK
    <3>2. LT(a)!Alloc(x, m.from)
      BY <2>1, <2>2, <2>3, <3>1 DEF LT!Alloc
    <3> QED
      BY <2>0, <2>1, <3>2 DEF LT!Next
  <2>4. CASE b # a
    <3>1. lease'[a] = lease[a]
      BY <2>4 DEF TypeOK
    <3> QED
      BY <2>2, <3>1 DEF LT!vars
  <2> QED
    BY <2>3, <2>4
<1>4. ASSUME NEW b \in AC, NEW m \in net, RegOverdrawn(b, m)
      PROVE  [LT(a)!Next]_(LT(a)!vars)
  <2>1. CASE b = a
    <3>1. LT(a)!Break
      BY <1>4, <2>1 DEF RegOverdrawn, TypeOK, LT!Break
    <3> QED
      BY <3>1 DEF LT!Next
  <2>2. CASE b # a
    <3>1. lease'[a] = lease[a] /\ corrupt'[a] = corrupt[a]
      BY <1>4, <2>2 DEF RegOverdrawn, TypeOK
    <3> QED
      BY <3>1 DEF LT!vars
  <2> QED
    BY <2>1, <2>2
<1>5. \/ UNCHANGED <<lease, corrupt>>
      \/ \E b \in AC : AcDown(b)
      \/ \E b \in AC, m \in net : m.type = "AP_REG" /\ RegGranted(b, m)
      \/ \E b \in AC, m \in net : RegOverdrawn(b, m)
  BY DEF Next, vars, acVars, Broadcast, AcRecvReg, RegRejected, RegFaults,
         AcRecvApResp, AcCrash, AcStart, ApRecvBrd, ApRecvResp, ApRestart, Lose
<1> QED
  BY <1>1, <1>2, <1>3, <1>4, <1>5

\* The protocol implements, for every AC, the lease table IpPool implements
\* pointer by pointer (res_ip_alloc under __ap_reg).
THEOREM TablesTheorem == Spec => LeasesAreTables
<1>1. Init => \A a \in AC : LT(a)!Init
  BY DEF Init, LT!Init, LT!NoLease
<1>2. TypeOK /\ [Next]_vars => [\A a \in AC : [LT(a)!Next]_(LT(a)!vars)]_vars
  BY TableStep
<1> QED
  BY <1>1, <1>2, TypeCorrect, PTL DEF Spec, LeasesAreTables

-----------------------------------------------------------------------------
(* The clocks of TimedRegistration, one AC and one AP.                     *)

USE TimedRegistrationAssumption

-----------------------------------------------------------------------------
\* Every step is one of Registration, or one of the clocks alone.
LEMMA TimedStep == [TimedNext]_timedVars => [Next]_vars
<1> SUFFICES ASSUME [TimedNext]_timedVars PROVE [Next]_vars
  OBVIOUS
<1>1. CASE UNCHANGED timedVars \/ Tick
  BY <1>1 DEF timedVars, Tick
<1>2. CASE TimedLose
  BY <1>2 DEF TimedLose, Next, Lose
<1>3. ASSUME NEW a \in AC,
             TimedBroadcast(a) \/ AcTravels(a) \/ TimedAcCrash(a) \/ TimedAcStart(a)
      PROVE  Next
  BY <1>3 DEF TimedBroadcast, AcTravels, TimedAcCrash, TimedAcStart, Next
<1>4. ASSUME NEW p \in AP, ApTravels(p) \/ TimedApRestart(p) PROVE Next
  BY <1>4 DEF ApTravels, TimedApRestart, Next
<1> QED
  BY <1>1, <1>2, <1>3, <1>4 DEF TimedNext

\* The clocks of the threads (sleep in net_dllbrd and message_travel) only take
\* behaviours away: what is proved of Registration holds of its timed form.
THEOREM Implementation == TimedSpec => Spec
<1>1. TimedInit => Init
  BY DEF TimedInit
<1> QED
  BY <1>1, TimedStep, PTL DEF TimedSpec, Spec

\* One AC with one AP: a leased address in use is in the AC's table under the AP for
\* every setting of the intervals (__check_arg), whatever comes late under them.
THEOREM TimedLeaseTheorem == TimedSpec => []LeaseHeld
  BY Implementation, LeaseTheorem, PTL

-----------------------------------------------------------------------------
\* The intervals in force (__check_arg) are whole seconds, and brditv is not 0.
LEMMA Intervals ==
    ASSUME argument \in Options
    PROVE  /\ brditv \in Nat \ {0} /\ acmsgitv \in Nat /\ apmsgitv \in Nat
           /\ Round(acmsgitv) \in Nat \ {0} /\ acmsgitv <= Round(acmsgitv)
           /\ Round(apmsgitv) \in Nat \ {0} /\ apmsgitv <= Round(apmsgitv)
<1>1. argument \in [brditv : Nat, acmsgitv : Nat, reportitv : Nat, apmsgitv : Nat]
  OBVIOUS
<1>2. brditv \in Nat \ {0} /\ reportitv \in Nat \ {0}
  BY <1>1 DEF brditv, reportitv, Default
<1>3. \A n \in Nat : n \div 10 \in Nat
  OBVIOUS
<1>4. acmsgitv \in Nat /\ apmsgitv \in Nat
  BY <1>1, <1>2, <1>3 DEF acmsgitv, apmsgitv
<1> HIDE DEF brditv
<1> QED
  BY <1>2, <1>4 DEF Round

\* They stay what they are.
LEMMA IntervalsStay ==
    ASSUME UNCHANGED argument
    PROVE  /\ brditv' = brditv /\ acmsgitv' = acmsgitv /\ apmsgitv' = apmsgitv
           /\ Round(acmsgitv)' = Round(acmsgitv) /\ Round(apmsgitv)' = Round(apmsgitv)
           /\ Slack' = Slack
  BY DEF brditv, acmsgitv, apmsgitv, reportitv, Default, Round, Slack

\* One second less of a sleep is a sleep.
LEMMA LessOfSleep ==
    ASSUME NEW itv \in Nat, NEW in \in 0 .. itv
    PROVE  /\ Less(in, itv) \in 0 .. itv
           /\ Less(in, itv) + 1 <= Round(itv)
           /\ in > 0 => Less(in, itv) = in - 1
  BY DEF Less, Round

-----------------------------------------------------------------------------
\* The clocks stay within their intervals.
LEMMA InitTimersOK == TimedInit => TimersOK
<1> SUFFICES ASSUME TimedInit PROVE TimersOK
  OBVIOUS
<1>1. argument \in Options /\ net = {} /\ young = {}
  BY DEF TimedInit, Init
<1>2. brditv \in Nat /\ acmsgitv \in Nat /\ apmsgitv \in Nat
  BY <1>1, Intervals
<1> QED
  BY <1>1, <1>2 DEF TimedInit, TimersOK

\* No step of the threads moves a clock out of its interval.
LEMMA NextTimersOK == TimersOK /\ [TimedNext]_timedVars => TimersOK'
<1> SUFFICES ASSUME TimersOK, [TimedNext]_timedVars PROVE TimersOK'
  OBVIOUS
<1>1. argument' = argument
  BY DEF TimedNext, timedVars, Tick, TimedLose, TimedBroadcast, AcTravels, TimedAcCrash,
         TimedAcStart, ApTravels, TimedApRestart, Untimed
<1>2. /\ brditv' = brditv /\ acmsgitv' = acmsgitv /\ apmsgitv' = apmsgitv
      /\ brditv \in Nat /\ acmsgitv \in Nat /\ apmsgitv \in Nat
  BY <1>1, IntervalsStay, Intervals DEF TimersOK
<1>3. CASE Tick
  <2>1. \A a \in AC : Less(brdIn[a], 0) \in 0 .. brditv
    BY <1>2 DEF TimersOK, Less
  <2>2. \A a \in AC : Less(acIn[a], acmsgitv) \in 0 .. acmsgitv
    BY <1>2, LessOfSleep DEF TimersOK
  <2>3. \A p \in AP : Less(apIn[p], apmsgitv) \in 0 .. apmsgitv
    BY <1>2, LessOfSleep DEF TimersOK
  <2> QED
    BY <1>1, <1>2, <1>3, <2>1, <2>2, <2>3 DEF TimersOK, Tick
<1>4. CASE Sends
  <2>1. young' \subseteq net'
    BY <1>4 DEF Sends
  <2>2. /\ brdIn' \in [AC -> 0 .. brditv]
        /\ acIn' \in [AC -> 0 .. acmsgitv] /\ apIn' \in [AP -> 0 .. apmsgitv]
    <3>1. CASE UNCHANGED timers
      BY <3>1 DEF timers, TimersOK
    <3>2. ASSUME NEW a \in AC, TimedBroadcast(a) \/ TimedAcStart(a) PROVE <2>2
      BY <1>2, <3>2 DEF TimedBroadcast, TimedAcStart, TimersOK
    <3>3. ASSUME NEW p \in AP, TimedApRestart(p) PROVE <2>2
      BY <1>2, <3>3 DEF TimedApRestart, TimersOK
    <3>4. CASE Tick
      BY <1>3, <3>4, <1>2 DEF TimersOK
    <3> QED
      BY <3>1, <3>2, <3>3, <3>4 DEF TimedNext, timedVars, TimedLose, AcTravels,
         TimedAcCrash, ApTravels, Untimed
  <2> QED
    BY <1>1, <1>2, <2>1, <2>2 DEF TimersOK
<1>5. CASE UNCHANGED timedVars
  BY <1>2, <1>5 DEF timedVars, timers, vars, TimersOK
<1> QED
  BY <1>3, <1>4, <1>5 DEF TimedNext, TimedLose, TimedBroadcast, AcTravels, TimedAcCrash,
     TimedAcStart, ApTravels, TimedApRestart

-----------------------------------------------------------------------------
\* The hypothesis that nothing was restarted and that there is slack, a step back.
LEMMA StillQuiet ==
    ASSUME TypeOK, TimersOK, ClockInv, [TimedNext]_timedVars, Slack', crashes' = 0
    PROVE  /\ Slack /\ crashes = 0 /\ argument' = argument
           /\ \A a \in AC : up[a]
<1>1. argument' = argument
  BY DEF TimedNext, timedVars, Tick, TimedLose, TimedBroadcast, AcTravels, TimedAcCrash,
         TimedAcStart, ApTravels, TimedApRestart, Untimed
<1>2. crashes' = crashes \/ crashes' = crashes + 1
  BY TimedStep DEF Next, vars, counts, Broadcast, Draw, AcRecvReg, RegRejected, RegGranted,
     RegOverdrawn, RegFaults, AcDown, AcRecvApResp, AcCrash, AcStart, ApRecvBrd, SendReg,
     SendApResp, DrawFor, IgnoreBrd, ApRecvResp, ApRestart, Lose
<1>3. crashes = 0
  BY <1>2 DEF TypeOK
<1> QED
  BY <1>1, <1>3, IntervalsStay DEF ClockInv

\* A step of the protocol that sends no BRD and no REG.
LEMMA ClockFrame ==
    ASSUME ClockInv, Slack, crashes = 0, Sends, UNCHANGED <<argument, timers, up, random>>,
           \A m \in net' : m.type \in {"AC_BRD", "AP_REG"} => m \in net
    PROVE  ClockInv'
<1>1. /\ brditv' = brditv /\ Round(acmsgitv)' = Round(acmsgitv)
      /\ Round(apmsgitv)' = Round(apmsgitv)
  BY IntervalsStay
<1>2. \A m \in net \cap net' : m \in young' <=> m \in young
  BY DEF Sends
<1>3. \A a \in AC : up'[a]
  BY DEF ClockInv
<1>4. ASSUME NEW m \in InFlight("AC_BRD")'
      PROVE  /\ m.random = random'[m.from]
             /\ IF m \in young' THEN Since(m.from)' = 0
                ELSE apIn'[m.to] + Since(m.from)' <= Round(apmsgitv)'
  BY <1>1, <1>2, <1>4 DEF InFlight, ClockInv, Since, timers
<1>5. ASSUME NEW m \in InFlight("AP_REG")'
      PROVE  /\ m.chap = random'[m.to]
             /\ IF m \in young' THEN Since(m.to)' <= Round(apmsgitv)'
                ELSE acIn'[m.to] + Since(m.to)' <= Round(apmsgitv)' + Round(acmsgitv)'
  BY <1>1, <1>2, <1>5 DEF InFlight, ClockInv, Since, timers
<1> QED
  BY <1>3, <1>4, <1>5 DEF ClockInv

\* When an AC broadcasts, nothing of its last broadcast is in flight any more.
LEMMA BroadcastIsFirst ==
    ASSUME TimersOK, ClockInv, Slack, crashes = 0, net \subseteq Message,
           NEW a \in AC, brdIn[a] = 0
    PROVE  /\ \A m \in InFlight("AC_BRD") : m.from # a
           /\ \A m \in InFlight("AP_REG") : m.to # a
<1>1. /\ brditv \in Nat \ {0} /\ Round(acmsgitv) \in Nat /\ Round(apmsgitv) \in Nat
      /\ Since(a) = brditv
  BY Intervals DEF TimersOK, Since
<1>2. Round(apmsgitv) + Round(acmsgitv) < brditv
  BY DEF Slack
<1>3. ASSUME NEW m \in InFlight("AC_BRD"), m.from = a PROVE FALSE
  <2>1. apIn[m.to] \in Nat
    BY FrameTypes, <1>3, Intervals DEF BrdMsg, TimersOK
  <2> QED
    BY <1>1, <1>2, <1>3, <2>1 DEF ClockInv
<1>4. ASSUME NEW m \in InFlight("AP_REG"), m.to = a PROVE FALSE
  <2>1. acIn[m.to] \in Nat
    BY <1>4, Intervals DEF TimersOK
  <2> QED
    BY <1>1, <1>2, <1>4, <2>1 DEF ClockInv
<1> QED
  BY <1>3, <1>4

\* net_dllbrd's turn.
LEMMA ClockBroadcast ==
    ASSUME TypeOK, TypeOK', TimersOK, ClockInv, Slack, crashes = 0,
           NEW a \in AC, TimedBroadcast(a)
    PROVE  ClockInv'
<1>1. /\ argument' = argument /\ up' = up /\ acIn' = acIn /\ apIn' = apIn
      /\ brdIn' = [brdIn EXCEPT ![a] = brditv] /\ brdIn[a] = 0
      /\ random' = [random EXCEPT ![a] = Fresh]
      /\ net' = net \cup {Brd(a, p) : p \in AP}
      /\ young' = (young \cap net') \cup (net' \ net)
  BY DEF TimedBroadcast, Broadcast, Sends
<1>2. /\ brditv' = brditv /\ Round(acmsgitv)' = Round(acmsgitv)
      /\ Round(apmsgitv)' = Round(apmsgitv) /\ brditv \in Nat
  BY <1>1, IntervalsStay, Intervals DEF TimersOK
<1>3. /\ \A m \in InFlight("AC_BRD") : m.from # a
      /\ \A m \in InFlight("AP_REG") : m.to # a
  BY <1>1, BroadcastIsFirst DEF TypeOK
<1>4. /\ InFlight("AC_BRD") \subseteq BrdMsg /\ InFlight("AP_REG") \subseteq RegMsg
  BY FrameTypes DEF TypeOK
<1>5. ASSUME NEW b \in AC, b # a
      PROVE  Since(b)' = Since(b) /\ random'[b] = random[b]
  BY <1>1, <1>2, <1>5 DEF Since, TypeOK, TimersOK
<1>6. Since(a)' = 0 /\ random'[a] = Fresh
  BY <1>1, <1>2 DEF Since, TypeOK, TimersOK
<1>7. ASSUME NEW m \in InFlight("AC_BRD")'
      PROVE  /\ m.random = random'[m.from]
             /\ IF m \in young' THEN Since(m.from)' = 0
                ELSE apIn'[m.to] + Since(m.from)' <= Round(apmsgitv)'
  <2>1. CASE m \in net
    <3>1. m \in InFlight("AC_BRD") /\ m.from \in AC \ {a}
      BY <1>3, <1>4, <1>7, <2>1 DEF InFlight, BrdMsg
    <3>2. m \in young' <=> m \in young
      BY <1>1, <1>7, <2>1 DEF InFlight
    <3> QED
      BY <1>1, <1>2, <1>5, <3>1, <3>2 DEF ClockInv
  <2>2. CASE m \notin net
    <3>1. m.from = a /\ m.random = random'[a] /\ m \in young'
      BY <1>1, <1>7, <2>2 DEF InFlight, Brd
    <3> QED
      BY <1>6, <3>1
  <2> QED
    BY <2>1, <2>2
<1>8. ASSUME NEW m \in InFlight("AP_REG")'
      PROVE  /\ m.chap = random'[m.to]
             /\ IF m \in young' THEN Since(m.to)' <= Round(apmsgitv)'
                ELSE acIn'[m.to] + Since(m.to)' <= Round(apmsgitv)' + Round(acmsgitv)'
  <2>1. m \in InFlight("AP_REG")
    BY <1>1, <1>8 DEF InFlight, Brd
  <2>2. m.to \in AC \ {a}
    BY <1>3, <1>4, <2>1 DEF RegMsg
  <2>3. m \in young' <=> m \in young
    BY <1>1, <1>8, <2>1 DEF InFlight
  <2> QED
    BY <1>1, <1>2, <1>5, <2>1, <2>2, <2>3 DEF ClockInv
<1> QED
  BY <1>1, <1>7, <1>8 DEF ClockInv

\* An AP answers a broadcast in its round.
LEMMA ClockSendReg ==
    ASSUME TypeOK, TimersOK, ClockInv, Slack, crashes = 0,
           NEW p \in AP, apIn[p] = 0, Sends, UNCHANGED <<argument, timers, up, random>>,
           NEW m \in net, m.type = "AC_BRD", m.to = p, SendReg(p, m)
    PROVE  ClockInv'
<1>1. /\ brditv' = brditv /\ Round(acmsgitv)' = Round(acmsgitv)
      /\ Round(apmsgitv)' = Round(apmsgitv)
      /\ brditv \in Nat /\ Round(apmsgitv) \in Nat
  BY IntervalsStay, Intervals DEF TimersOK
<1>2. \A n \in net \cap net' : n \in young' <=> n \in young
  BY DEF Sends
<1>3. m \in InFlight("AC_BRD") /\ m \in BrdMsg
  BY FrameTypes DEF InFlight, TypeOK
<1>4. m.random = random[m.from] /\ Since(m.from) <= Round(apmsgitv)
  <2>1. Since(m.from) \in Int
    BY <1>1, <1>3 DEF Since, TimersOK, BrdMsg
  <2> QED
    BY <1>1, <1>3, <2>1 DEF ClockInv
<1>5. net' = (net \ {m}) \cup {Reg(p, m.from, Fresh, m.random)}
  BY DEF SendReg
<1>6. ASSUME NEW n \in InFlight("AC_BRD")'
      PROVE  /\ n.random = random'[n.from]
             /\ IF n \in young' THEN Since(n.from)' = 0
                ELSE apIn'[n.to] + Since(n.from)' <= Round(apmsgitv)'
  <2>1. n \in InFlight("AC_BRD") /\ n \in net'
    BY <1>5, <1>6 DEF InFlight, Reg
  <2> QED
    BY <1>1, <1>2, <2>1 DEF InFlight, ClockInv, Since, timers
<1>7. ASSUME NEW n \in InFlight("AP_REG")'
      PROVE  /\ n.chap = random'[n.to]
             /\ IF n \in young' THEN Since(n.to)' <= Round(apmsgitv)'
                ELSE acIn'[n.to] + Since(n.to)' <= Round(apmsgitv)' + Round(acmsgitv)'
  <2>1. CASE n \in net
    <3>1. n \in InFlight("AP_REG") /\ n \in net'
      BY <1>7, <2>1 DEF InFlight
    <3> QED
      BY <1>1, <1>2, <3>1 DEF InFlight, ClockInv, Since, timers
  <2>2. CASE n \notin net
    <3>1. n.chap = m.random /\ n.to = m.from /\ n \in young'
      BY <1>5, <1>7, <2>2 DEF InFlight, Reg, Sends
    <3> QED
      BY <1>1, <1>4, <3>1 DEF Since, timers
  <2> QED
    BY <2>1, <2>2
<1> QED
  BY <1>6, <1>7 DEF ClockInv

\* A second passes: who is awake has nothing left of what had arrived before it.
LEMMA ClockTick ==
    ASSUME TypeOK, TimersOK, ClockInv, Slack, crashes = 0, Tick
    PROVE  ClockInv'
<1>1. /\ brditv' = brditv /\ Round(acmsgitv)' = Round(acmsgitv)
      /\ Round(apmsgitv)' = Round(apmsgitv)
      /\ brditv \in Nat /\ acmsgitv \in Nat /\ apmsgitv \in Nat
      /\ Round(acmsgitv) \in Nat /\ Round(apmsgitv) \in Nat
  BY IntervalsStay, Intervals DEF TimersOK, Tick
<1>2. /\ up' = up /\ random' = random /\ net' = net /\ young' = {}
      /\ InFlight("AC_BRD")' = InFlight("AC_BRD")
      /\ InFlight("AP_REG")' = InFlight("AP_REG")
  BY DEF Tick, vars, acVars, InFlight
<1>3. /\ InFlight("AC_BRD") \subseteq BrdMsg /\ InFlight("AP_REG") \subseteq RegMsg
  BY FrameTypes DEF TypeOK
<1>4. ASSUME NEW a \in AC
      PROVE  Since(a) \in Nat /\ Since(a)' = Since(a) + 1
  <2>1. brdIn[a] > 0 /\ brdIn[a] \in 0 .. brditv
    BY DEF Tick, ClockInv, TimersOK
  <2>2. brdIn'[a] = brdIn[a] - 1
    BY <2>1 DEF Tick, Less
  <2> QED
    BY <1>1, <2>1, <2>2 DEF Since
<1>5. ASSUME NEW m \in InFlight("AC_BRD")
      PROVE  m.random = random'[m.from] /\ apIn'[m.to] + Since(m.from)' <= Round(apmsgitv)
  <2>1. m.to \in AP /\ m.from \in AC
    BY <1>3 DEF BrdMsg
  <2>2. apIn[m.to] \in 0 .. apmsgitv /\ apIn'[m.to] = Less(apIn[m.to], apmsgitv)
    BY <2>1 DEF Tick, TimersOK
  <2>3. /\ apIn'[m.to] \in Nat /\ apIn'[m.to] + 1 <= Round(apmsgitv)
        /\ apIn[m.to] > 0 => apIn'[m.to] = apIn[m.to] - 1
    BY <1>1, <2>2, LessOfSleep
  <2>4. m \notin young => apIn[m.to] > 0
    BY <2>1, <2>2 DEF Tick, Handled, InFlight
  <2>5. m.random = random[m.from]
    BY DEF ClockInv
  <2>6. CASE m \in young
    BY <1>1, <1>4, <1>2, <2>1, <2>3, <2>5, <2>6 DEF ClockInv
  <2>7. CASE m \notin young
    BY <1>1, <1>4, <1>2, <2>1, <2>2, <2>3, <2>4, <2>5, <2>7 DEF ClockInv
  <2> QED
    BY <2>6, <2>7
<1>6. ASSUME NEW m \in InFlight("AP_REG")
      PROVE  /\ m.chap = random'[m.to]
             /\ acIn'[m.to] + Since(m.to)' <= Round(apmsgitv) + Round(acmsgitv)
  <2>1. m.to \in AC
    BY <1>3 DEF RegMsg
  <2>2. acIn[m.to] \in 0 .. acmsgitv /\ acIn'[m.to] = Less(acIn[m.to], acmsgitv)
    BY <2>1 DEF Tick, TimersOK
  <2>3. /\ acIn'[m.to] \in Nat /\ acIn'[m.to] + 1 <= Round(acmsgitv)
        /\ acIn[m.to] > 0 => acIn'[m.to] = acIn[m.to] - 1
    BY <1>1, <2>2, LessOfSleep
  <2>4. m \notin young => acIn[m.to] > 0
    BY <2>1, <2>2 DEF Tick, Handled, InFlight, ClockInv
  <2>5. m.chap = random[m.to]
    BY DEF ClockInv
  <2>6. CASE m \in young
    BY <1>1, <1>4, <1>2, <2>1, <2>3, <2>5, <2>6 DEF ClockInv
  <2>7. CASE m \notin young
    BY <1>1, <1>4, <1>2, <2>1, <2>2, <2>3, <2>4, <2>5, <2>7 DEF ClockInv
  <2> QED
    BY <2>6, <2>7
<1> QED
  BY <1>1, <1>2, <1>5, <1>6 DEF ClockInv

\* What the handlers of a round do to the frames that count.
LEMMA RoundFrames ==
    ASSUME TypeOK, crashes = 0, crashes' = 0
    PROVE  /\ \A a \in AC : AcRecvReg(a) \/ AcRecvApResp(a) =>
                 /\ UNCHANGED <<up, random>>
                 /\ \A n \in net' : n.type \in {"AC_BRD", "AP_REG"} => n \in net
           /\ \A p \in AP : ApRecvBrd(p) \/ ApRecvResp(p) =>
                 /\ UNCHANGED <<up, random>>
                 /\ \/ \A n \in net' : n.type \in {"AC_BRD", "AP_REG"} => n \in net
                    \/ \E m \in net : m.type = "AC_BRD" /\ m.to = p /\ SendReg(p, m)
<1>1. ASSUME NEW a \in AC, AcRecvReg(a)
      PROVE  /\ UNCHANGED <<up, random>>
             /\ \A n \in net' : n.type \in {"AC_BRD", "AP_REG"} => n \in net
  <2> PICK m \in net : \/ RegRejected(a, m) \/ RegGranted(a, m)
                       \/ RegOverdrawn(a, m) \/ RegFaults(a, m)
    BY <1>1 DEF AcRecvReg
  <2>1. ~RegFaults(a, m)
    BY DEF RegFaults
  <2>2. UNCHANGED <<up, random>>
    BY <2>1 DEF RegRejected, RegGranted, RegOverdrawn, acVars
  <2>3. CASE RegRejected(a, m)
    BY <2>2, <2>3 DEF RegRejected
  <2>4. CASE RegGranted(a, m)
    BY <2>2, <2>4 DEF RegGranted, Resp
  <2>5. CASE RegOverdrawn(a, m)
    BY <2>2, <2>5 DEF RegOverdrawn, Resp
  <2> QED
    BY <2>1, <2>3, <2>4, <2>5
<1>2. ASSUME NEW a \in AC, AcRecvApResp(a)
      PROVE  /\ UNCHANGED <<up, random>>
             /\ \A n \in net' : n.type \in {"AC_BRD", "AP_REG"} => n \in net
  BY <1>2 DEF AcRecvApResp
<1>3. ASSUME NEW p \in AP, ApRecvBrd(p)
      PROVE  /\ UNCHANGED <<up, random>>
             /\ \/ \A n \in net' : n.type \in {"AC_BRD", "AP_REG"} => n \in net
                \/ \E m \in net : m.type = "AC_BRD" /\ m.to = p /\ SendReg(p, m)
  <2> PICK m \in net : /\ m.type = "AC_BRD" /\ m.to = p
                       /\ SendReg(p, m) \/ SendApResp(p, m) \/ IgnoreBrd(p, m)
                       /\ UNCHANGED acVars
    BY <1>3 DEF ApRecvBrd
  <2> QED
    BY DEF SendApResp, IgnoreBrd, ApResp, acVars
<1>4. ASSUME NEW p \in AP, ApRecvResp(p)
      PROVE  /\ UNCHANGED <<up, random>>
             /\ \A n \in net' : n.type \in {"AC_BRD", "AP_REG"} => n \in net
  BY <1>4 DEF ApRecvResp, acVars
<1> QED
  BY <1>1, <1>2, <1>3, <1>4

\* Every step keeps what is known of the frames' ages (ac/net.c:147-159,
\* ac/aphash.c:189-204, ap/message.c:77-91).
LEMMA NextClockInv ==
    TypeOK /\ TimersOK /\ ClockInv /\ [TimedNext]_timedVars => ClockInv'
<1> SUFFICES ASSUME TypeOK, TimersOK, ClockInv, [TimedNext]_timedVars,
                    Slack', crashes' = 0
             PROVE  ClockInv'
  BY DEF ClockInv
<1>1. /\ Slack /\ crashes = 0 /\ argument' = argument
      /\ \A a \in AC : up[a]
  BY StillQuiet
<1>2. TypeOK'
  BY TimedStep, NextTypeOK
<1>3. CASE UNCHANGED timedVars
  BY <1>3 DEF ClockInv, timedVars, timers, vars, acVars, apVars, counts, InFlight, Since,
     Slack, Round, brditv, acmsgitv, apmsgitv, reportitv, Default
<1>4. CASE Tick
  BY <1>1, <1>4, ClockTick
<1>5. CASE TimedLose
  BY <1>1, <1>5, ClockFrame DEF TimedLose, Lose, Untimed, acVars
<1>6. ASSUME NEW a \in AC, TimedBroadcast(a) PROVE ClockInv'
  BY <1>1, <1>2, <1>6, ClockBroadcast
<1>7. ASSUME NEW a \in AC, AcTravels(a) PROVE ClockInv'
  BY <1>1, <1>7, RoundFrames, ClockFrame DEF AcTravels, Untimed
<1>8. ASSUME NEW a \in AC, TimedAcCrash(a) PROVE FALSE
  BY <1>1, <1>8 DEF TimedAcCrash, AcCrash
<1>9. ASSUME NEW a \in AC, TimedAcStart(a) PROVE FALSE
  BY <1>1, <1>9 DEF TimedAcStart, AcStart
<1>10. ASSUME NEW p \in AP, ApTravels(p) PROVE ClockInv'
  <2>1. apIn[p] = 0 /\ Sends /\ UNCHANGED <<argument, timers, up, random>>
    BY <1>1, <1>10, RoundFrames DEF ApTravels, Untimed
  <2>2. CASE \A n \in net' : n.type \in {"AC_BRD", "AP_REG"} => n \in net
    BY <1>1, <2>1, <2>2, ClockFrame
  <2>3. ASSUME NEW m \in net, m.type = "AC_BRD", m.to = p, SendReg(p, m) PROVE ClockInv'
    BY <1>1, <2>1, <2>3, ClockSendReg
  <2> QED
    BY <1>1, <1>10, <2>2, <2>3, RoundFrames DEF ApTravels
<1>11. ASSUME NEW p \in AP, TimedApRestart(p) PROVE FALSE
  BY <1>1, <1>11 DEF TimedApRestart, ApRestart
<1> QED
  BY <1>3, <1>4, <1>5, <1>6, <1>7, <1>8, <1>9, <1>10, <1>11 DEF TimedNext

\* One AC with one AP: with slack between two broadcasts, whatever the intervals are,
\* and as long as nothing is restarted, every REG in flight answers the AC's latest
\* broadcast, so the CHAP check of __ap_reg (ac/process.c:116) refuses none for being
\* late. With more APs the AC may read a REG one broadcast behind (ac/net.c:50).
THEOREM InTimeTheorem == TimedSpec => []RegInTime
<1>1. TimedInit => ClockInv
  BY DEF TimedInit, Init, ClockInv, InFlight
<1>2. ClockInv => RegInTime
  BY DEF ClockInv, RegInTime
<1>3. TimedSpec => []TypeOK
  BY Implementation, TypeCorrect, PTL
<1> QED
  BY <1>1, <1>2, <1>3, InitTimersOK, NextTimersOK, NextClockInv, PTL DEF TimedSpec
=============================================================================
