---------------------------- MODULE Registration ----------------------------
(***************************************************************************)
(* Layer-2 discovery and registration: an AC broadcasts a probe carrying a *)
(* fresh random0; an AP answers with a REG whose CHAP covers random0 and   *)
(* which carries a fresh random1; the AC leases an address and answers     *)
(* with a RESP whose CHAP covers random1 (ac/process.c, ac/net.c,          *)
(* ap/process.c). Several ACs compete, APs and ACs restart, the segment    *)
(* loses and reorders frames. Each handler is one action: an AC and an AP  *)
(* each handle their messages in one thread, message_travel.               *)
(*                                                                         *)
(* An MD5 over packet, random and password is the field chap, the random   *)
(* it was computed with; both programs are built with the same password.   *)
(***************************************************************************)
EXTENDS RandomMap, FiniteSets

CONSTANTS AC, AP,
          Addr, NoAddr,     \* IPv4 addresses; NoAddr is 0.0.0.0
          NoAc, NoAp,
          Random,           \* what chap_get_random may return
          Pool,             \* Pool[a]: the addresses configured for AC a
          InitNic,          \* InitNic[p]: the address of p's NIC at power-on
          Takeover,         \* Takeover[a]: what a's broadcasts carry as takeover
          Debug,            \* the build is -DDEBUG, as the Makefile has it
          Counted,          \* every random drawn counts against MaxDraws
          MaxNet, MaxLost, MaxCrash, MaxDraws
                            \* bounds: frames in flight, losses, restarts, randoms

ASSUME RegistrationAssumption ==
    /\ NoAddr \notin Addr /\ NoAc \notin AC /\ NoAp \notin AP
    /\ NoRandom \notin Random /\ NoMac \notin AC
    /\ Pool \in [AC -> SUBSET Addr]
    /\ InitNic \in [AP -> Addr \cup {NoAddr}]
    /\ Takeover \in [AC -> AC \cup {NoAc}]
    /\ Debug \in BOOLEAN /\ Counted \in BOOLEAN
    /\ MaxNet \in Nat /\ MaxLost \in Nat /\ MaxCrash \in Nat /\ MaxDraws \in Nat

VARIABLES
    up, random,               \* AC: running; ac.random
    lease, corrupt,           \* AC: who holds an address; the pool was overdrawn
    foreign,                  \* AC: APs reported as registered elsewhere (pr_ap)
    isreg, acuuid, nic,       \* AP: sysstat.isreg, sysstat.acuuid, address of the NIC
    argaddr,                  \* AP: argument.addr, the NIC's address at start-up
    random_map, offset,       \* AP: randoms of its requests
    net,                      \* frames in flight
    leased, asked, answered,  \* history, see below
    lost, crashes, draws      \* history: counted against the bounds

acVars == <<up, random, lease, corrupt, foreign>>
apVars == <<isreg, acuuid, nic, argaddr, random_map, offset>>
\* leased[p]: p uses the address its AC leased to it in the AC's current run.
\* asked[p]: the ACs p sent a REG since it started.
\* answered[a]: the APs a leased an address since its last broadcast.
history == <<leased, asked, answered>>
counts == <<lost, crashes, draws>>
vars == <<acVars, apVars, net, history, counts>>

-----------------------------------------------------------------------------
\* The frames. live (history): the sender has not restarted since.
Brd(a, p)  == [type |-> "AC_BRD", from |-> a, to |-> p, random |-> random'[a]]
Reg(p, a, r, chap) == [type |-> "AP_REG", from |-> p, to |-> a, random |-> r,
                       chap |-> chap, ipv4 |-> argaddr[p]]
Resp(a, p, chap, x) == [type |-> "AC_REG_RESP", from |-> a, to |-> p,
                        chap |-> chap, apaddr |-> x, live |-> TRUE]
\* MSG_AP_RESP carries the uuid of the AC it answers (ap/process.c:200).
ApResp(p, a) == [type |-> "AP_RESP", from |-> p, to |-> a, acuuid |-> a]

BrdMsg  == [type : {"AC_BRD"}, from : AC, to : AP, random : Random]
RegMsg  == [type : {"AP_REG"}, from : AP, to : AC, random : Random,
            chap : Random, ipv4 : Addr \cup {NoAddr}]
RespMsg == [type : {"AC_REG_RESP"}, from : AC, to : AP, chap : Random,
            apaddr : Addr \cup {NoAddr}, live : BOOLEAN]
ApRespMsg == [type : {"AP_RESP"}, from : AP, to : AC, acuuid : AC]
Message == BrdMsg \cup RegMsg \cup RespMsg \cup ApRespMsg

\* Randoms any variable still holds.
InUse == {random[a] : a \in AC}
         \cup {random_map[p][i].random : p \in AP, i \in Slots}
         \cup UNION {IF m.type = "AP_REG" THEN {m.random, m.chap}
                     ELSE IF m.type = "AC_BRD" THEN {m.random}
                     ELSE IF m.type = "AC_REG_RESP" THEN {m.chap} ELSE {} : m \in net}

\* chap_get_random returns a value nobody holds. Randoms are only compared for
\* equality, so which one is drawn makes no difference.
Fresh == CHOOSE r \in Random : r \notin InUse

\* Every draw counts, unless there are timers (TimedRegistration), which keep the
\* state space finite without a count.
Draw ==
    /\ Random \ InUse # {} /\ draws < MaxDraws
    /\ draws' = IF Counted THEN draws + 1 ELSE draws
    /\ UNCHANGED <<lost, crashes>>

\* What a process that restarts leaves in flight: any of the frames to it may be in its
\* socket or queues and go with it; those still on the segment come after the restart.
Left(who) == {net \ gone : gone \in SUBSET {m \in net : m.to = who}}

-----------------------------------------------------------------------------
Init ==
    /\ up = [a \in AC |-> TRUE] /\ random = [a \in AC |-> NoRandom]
    /\ lease = [a \in AC |-> [x \in Addr |-> NoAp]]
    /\ corrupt = [a \in AC |-> FALSE] /\ foreign = [a \in AC |-> {}]
    /\ isreg = [p \in AP |-> FALSE] /\ acuuid = [p \in AP |-> NoAc]
    /\ nic = InitNic /\ argaddr = InitNic
    /\ random_map = [p \in AP |-> EmptyMap] /\ offset = [p \in AP |-> 0]
    /\ net = {}
    /\ leased = [p \in AP |-> FALSE] /\ asked = [p \in AP |-> {}]
    /\ answered = [a \in AC |-> {}]
    /\ lost = 0 /\ crashes = 0 /\ draws = 0

(************************ the AC (ac/net.c, ac/process.c) ******************)

Broadcast_SameRandom(a) ==                          \* faulty: random0 kept
    /\ up[a] /\ Draw
    /\ Cardinality(net) < MaxNet
    /\ random' = [random EXCEPT ![a] = IF @ = NoRandom THEN Fresh ELSE @]
    /\ net' = net \cup {Brd(a, p) : p \in AP}
    /\ answered' = [answered EXCEPT ![a] = {}]
    /\ UNCHANGED <<up, lease, corrupt, foreign, apVars, leased, asked>>

\* One turn of the net_dllbrd thread.
Broadcast(a) ==
    /\ up[a] /\ Draw
    /\ Cardinality(net) < MaxNet
    /\ random' = [random EXCEPT ![a] = Fresh]
    /\ net' = net \cup {Brd(a, p) : p \in AP}
    /\ answered' = [answered EXCEPT ![a] = {}]
    /\ UNCHANGED <<up, lease, corrupt, foreign, apVars, leased, asked>>

Free(a) == {x \in Pool[a] : lease[a][x] = NoAp}

\* res_ip_conflict: the address is leased to somebody else.
Conflict(a, x, p) == x # NoAddr /\ lease[a][x] \notin {NoAp, p}

\* The address asked for counts only if nobody else holds it (addr = NULL).
Wanted(a, m) == IF Conflict(a, m.ipv4, m.from) THEN NoAddr ELSE m.ipv4

InTime_Any(a, m) == TRUE                            \* faulty: CHAP not checked

\* The REG passes the CHAP check against the latest broadcast.
InTime(a, m) == m.chap = random[a]

Grants_Any(a, m) == Pool[a]                         \* faulty: leased ones too

\* res_ip_alloc: the address asked for if it is free, else the first free one
\* (which one comes first is IpPool's business).
Grants(a, m) == IF Wanted(a, m) \in Free(a) THEN {Wanted(a, m)} ELSE Free(a)

\* The process dies and loses everything it knew.
AcDown(a) ==
    /\ up' = [up EXCEPT ![a] = FALSE]
    /\ random' = [random EXCEPT ![a] = NoRandom]
    /\ lease' = [lease EXCEPT ![a] = [x \in Addr |-> NoAp]]
    /\ corrupt' = [corrupt EXCEPT ![a] = FALSE]
    /\ foreign' = [foreign EXCEPT ![a] = {}]
    /\ \E left \in Left(a) :
        net' = {IF m.type = "AC_REG_RESP" /\ m.from = a
                THEN [m EXCEPT !.live = FALSE] ELSE m : m \in left}
    /\ leased' = [p \in AP |-> leased[p] /\ acuuid[p] # a]
    /\ answered' = [answered EXCEPT ![a] = {}]
    /\ UNCHANGED <<apVars, asked, lost, draws>>

RegRejected(a, m) ==
    /\ ~InTime(a, m)
    /\ net' = net \ {m}
    /\ UNCHANGED <<acVars, apVars, history, counts>>

\* __ap_reg runs through: a lease and a RESP.
RegGranted(a, m) ==
    /\ InTime(a, m) /\ ~corrupt[a]
    /\ Debug => ~Conflict(a, m.ipv4, m.from)
    /\ \E x \in Grants(a, m) :
        /\ lease' = [lease EXCEPT ![a][x] = m.from]
        /\ net' = (net \ {m}) \cup {Resp(a, m.from, m.random, x)}
    /\ answered' = [answered EXCEPT ![a] = @ \cup {m.from}]
    /\ UNCHANGED <<up, random, corrupt, foreign, apVars, leased, asked, counts>>

\* The pool is empty, or was overdrawn before: res_ip_alloc works on a list
\* that is not what it takes it for, and any address may come out.
RegOverdrawn(a, m) ==
    /\ InTime(a, m) /\ (corrupt[a] \/ Free(a) = {})
    /\ corrupt' = [corrupt EXCEPT ![a] = TRUE]
    /\ \E x \in Pool[a] \cup {NoAddr} :
        net' = (net \ {m}) \cup {Resp(a, m.from, m.random, x)}
    /\ answered' = [answered EXCEPT ![a] = @ \cup {m.from}]
    /\ UNCHANGED <<up, random, lease, foreign, apVars, leased, asked, counts>>

\* pr_ipv4(addr) with addr = NULL: a -DDEBUG build faults.
RegFaults(a, m) ==
    /\ InTime(a, m) /\ Debug
    /\ Conflict(a, m.ipv4, m.from) \/ corrupt[a]
    /\ crashes < MaxCrash /\ crashes' = crashes + 1
    /\ AcDown(a)

AcRecvReg(a) ==
    \E m \in net : /\ up[a] /\ m.type = "AP_REG" /\ m.to = a
                   /\ \/ RegRejected(a, m) \/ RegGranted(a, m)
                      \/ RegOverdrawn(a, m) \/ RegFaults(a, m)

\* is_mine: an AP_RESP is reported only if it names another AC.
AcRecvApResp(a) ==
    \E m \in net :
        /\ up[a] /\ m.type = "AP_RESP" /\ m.to = a
        /\ net' = net \ {m}
        /\ foreign' = [foreign EXCEPT ![a] =
                          IF m.acuuid # a THEN @ \cup {m.from} ELSE @]
        /\ UNCHANGED <<up, random, lease, corrupt, apVars, history, counts>>

AcCrash(a) == /\ up[a] /\ crashes < MaxCrash /\ crashes' = crashes + 1 /\ AcDown(a)

AcStart(a) ==
    /\ ~up[a]
    /\ up' = [up EXCEPT ![a] = TRUE]
    /\ UNCHANGED <<random, lease, corrupt, foreign, apVars, net, history, counts>>

(**************************** the AP (ap/process.c) ************************)

\* new_random for an answer to AC a.
DrawFor(p, a) ==
    /\ Draw
    /\ random_map' = [random_map EXCEPT ![p] = new_random(@, offset[p], a, Fresh)]
    /\ offset' = [offset EXCEPT ![p] = NextOffset(@)]

\* _proc_brd: answer a broadcast with a REG.
SendReg(p, m) ==
    /\ DrawFor(p, m.from)
    /\ net' = (net \ {m}) \cup {Reg(p, m.from, Fresh, m.random)}
    /\ asked' = [asked EXCEPT ![p] = @ \cup {m.from}]
    /\ UNCHANGED <<isreg, acuuid, nic, argaddr, leased>>

\* _proc_brd_isreg, another AC: tell it that this AP has one.
SendApResp(p, m) ==
    /\ DrawFor(p, m.from)
    /\ net' = (net \ {m}) \cup {ApResp(p, m.from)}
    /\ UNCHANGED <<isreg, acuuid, nic, argaddr, leased, asked>>

IgnoreBrd(p, m) ==
    /\ net' = net \ {m}
    /\ UNCHANGED <<apVars, leased, asked, counts>>

\* proc_brd. A takeover also closes the connection, which is ApConn's state.
ApRecvBrd(p) ==
    \E m \in net :
        /\ m.type = "AC_BRD" /\ m.to = p
        /\ \/ ~isreg[p] /\ SendReg(p, m)
           \/ /\ isreg[p] /\ m.from # acuuid[p]
              /\ \/ Takeover[m.from] = acuuid[p] /\ SendReg(p, m)
                 \/ Takeover[m.from] # acuuid[p] /\ SendApResp(p, m)
           \/ isreg[p] /\ m.from = acuuid[p] /\ IgnoreBrd(p, m)
        /\ UNCHANGED <<acVars, answered>>

Answers_Any(p, m) == TRUE                           \* faulty: CHAP not checked

\* The RESP passes the CHAP check against the random found for its sender.
Answers(p, m) == m.chap = get_random(random_map[p], offset[p], m.from)

\* proc_reg_resp. setaddr may fail, and its result is not looked at.
ApRecvResp(p) ==
    \E m \in net :
        /\ m.type = "AC_REG_RESP" /\ m.to = p
        /\ net' = net \ {m}
        /\ \/ ~Answers(p, m) /\ UNCHANGED <<isreg, acuuid, nic, leased>>
           \/ /\ Answers(p, m)
              /\ acuuid' = [acuuid EXCEPT ![p] = m.from]
              /\ \E ok \in BOOLEAN :
                  /\ nic' = [nic EXCEPT ![p] =
                                IF ok /\ m.apaddr # NoAddr THEN m.apaddr ELSE @]
                  /\ leased' = [leased EXCEPT ![p] = ok /\ m.apaddr # NoAddr /\ m.live]
              /\ isreg' = [isreg EXCEPT ![p] = TRUE]
        /\ UNCHANGED <<acVars, argaddr, random_map, offset, asked, answered,
                       counts>>

\* The process restarts; the NIC keeps its address, which __getaddr reads.
ApRestart(p) ==
    /\ crashes < MaxCrash /\ crashes' = crashes + 1
    /\ isreg' = [isreg EXCEPT ![p] = FALSE]
    /\ acuuid' = [acuuid EXCEPT ![p] = NoAc]
    /\ argaddr' = [argaddr EXCEPT ![p] = nic[p]]
    /\ random_map' = [random_map EXCEPT ![p] = EmptyMap]
    /\ offset' = [offset EXCEPT ![p] = 0]
    /\ net' \in Left(p)
    /\ leased' = [leased EXCEPT ![p] = FALSE]
    /\ asked' = [asked EXCEPT ![p] = {}]
    /\ UNCHANGED <<acVars, nic, answered, lost, draws>>

(******************************* the segment *******************************)

Lose(m) ==
    /\ m \in net /\ lost < MaxLost
    /\ net' = net \ {m} /\ lost' = lost + 1
    /\ UNCHANGED <<acVars, apVars, history, crashes, draws>>

-----------------------------------------------------------------------------
Next ==
    \/ \E a \in AC : Broadcast(a) \/ AcRecvReg(a) \/ AcRecvApResp(a)
                     \/ AcCrash(a) \/ AcStart(a)
    \/ \E p \in AP : ApRecvBrd(p) \/ ApRecvResp(p) \/ ApRestart(p)
    \/ \E m \in net : Lose(m)

Spec == Init /\ [][Next]_vars

-----------------------------------------------------------------------------
TypeOK ==
    /\ up \in [AC -> BOOLEAN]
    /\ random \in [AC -> Random \cup {NoRandom}]
    /\ lease \in [AC -> [Addr -> AP \cup {NoAp}]]
    /\ corrupt \in [AC -> BOOLEAN] /\ foreign \in [AC -> SUBSET AP]
    /\ isreg \in [AP -> BOOLEAN] /\ acuuid \in [AP -> AC \cup {NoAc}]
    /\ nic \in [AP -> Addr \cup {NoAddr}] /\ argaddr \in [AP -> Addr \cup {NoAddr}]
    /\ random_map \in [AP -> [Slots -> [random : Random \cup {NoRandom},
                                        mac : AC \cup {NoMac}]]]
    /\ offset \in [AP -> Slots]
    /\ net \subseteq Message
    /\ leased \in [AP -> BOOLEAN] /\ asked \in [AP -> SUBSET AC]
    /\ answered \in [AC -> SUBSET AP]
    /\ lost \in 0 .. MaxLost /\ crashes \in 0 .. MaxCrash /\ draws \in 0 .. MaxDraws

\* The address a registered AP uses is in its AC's table under that AP, however
\* late the RESP came and whatever other leases the AP was given meanwhile. It says
\* nothing of an AP whose setaddr failed (ap/process.c:290), whose AC has restarted
\* since or whose address comes from an overdrawn pool: such an AP is not leased[p], and
\* may well use an address that is leased to another.
LeaseHeld ==
    \A p \in AP : leased[p] =>
        /\ isreg[p] /\ acuuid[p] \in AC /\ nic[p] \in Addr
        /\ ~corrupt[acuuid[p]] => lease[acuuid[p]][nic[p]] = p

\* An AP belongs only to an AC it asked since it started: a RESP from before a
\* restart is refused (the randoms are there to refuse it, README.md:63).
OnlyIfAsked ==
    \A p \in AP : isreg[p] => acuuid[p] \in asked[p]

\* A broadcast earns an AP at most one lease: a REG that answers an earlier
\* broadcast is refused however late it arrives (ac/process.c:116).
OneLeasePerBroadcast ==
    [][\A a \in AC, p \in AP :
         p \in answered[a] =>
             \A x \in Addr : lease'[a][x] = p => lease[a][x] = p]_vars

\* Each AC's leases implement LeaseTable, the promise IpPool keeps pointer by
\* pointer: whatever REGs arrive, late or twice, an address that is leased stays
\* with its AP until the AC restarts or overdraws its pool.
LT(a) == INSTANCE LeaseTable WITH Mac <- AP, NoMac <- NoAp,
             range <- Pool[a], lease <- lease[a], broken <- corrupt[a]
LeasesAreTables ==
    /\ \A a \in AC : LT(a)!Init
    /\ [][\A a \in AC : [LT(a)!Next]_(LT(a)!vars)]_vars

\* What these rest on, an inductive invariant. The REGs, RESPs and BRDs in
\* flight are told apart by their fields.
InFlight(type) == {m \in net : m.type = type}

\* A random in flight that an AP still remembers is one it asked an AC with.
RandomsAsked ==
    /\ \A m \in InFlight("AP_REG"), i \in Slots :
          random_map[m.from][i].random = m.random => m.to \in asked[m.from]
    /\ \A m \in InFlight("AC_REG_RESP"), i \in Slots :
          random_map[m.to][i].random = m.chap => m.from \in asked[m.to]

\* A RESP in flight names an address leased to the AP it goes to.
RespLeased ==
    \A m \in InFlight("AC_REG_RESP") :
        m.live /\ m.apaddr # NoAddr /\ ~corrupt[m.from] => lease[m.from][m.apaddr] = m.to

\* While the latest broadcast, or the REG that answers it, is on its way, the AP
\* has no lease for it, and there is no second such frame.
BroadcastOpen ==
    /\ \A m \in InFlight("AC_BRD") : m.random = random[m.from] =>
          /\ m.to \notin answered[m.from]
          /\ \A n \in InFlight("AP_REG") :
                n.from = m.to /\ n.to = m.from => n.chap # m.random
    /\ \A m \in InFlight("AP_REG") : m.chap = random[m.to] =>
          /\ m.from \notin answered[m.to]
          /\ \A n \in InFlight("AP_REG") :
                n.from = m.from /\ n.to = m.to /\ n.chap = m.chap => n = m

IInv == /\ TypeOK /\ RandomsAsked /\ OnlyIfAsked
        /\ RespLeased /\ LeaseHeld /\ BroadcastOpen
=============================================================================
