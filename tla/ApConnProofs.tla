----------------------------- MODULE ApConnProofs -----------------------------
(***************************************************************************)
(* Proofs about ApConn, for any ACs, any number of connections and         *)
(* descriptors and any bounds: what the AP's three threads know about the  *)
(* nodes and descriptors in their hands, and that none of them puts its    *)
(* connection in the place of another thread's.                            *)
(***************************************************************************)
EXTENDS ApConn, WellFoundedInduction, TLAPS

USE ApConnAssumption

\* What is in the hands of a thread, or in epoll, is a node, and one that has had
\* a descriptor.
InHand ==
    /\ \A c \in ready : reg[c] # NoConn
    /\ \A t \in Caller : rpc[t] \in {"add", "link"} => rnode[t] # NoConn
    /\ \A t \in Caller : rnode[t] # NoConn => fd[rnode[t]] \in Fd
    /\ \A t \in Loser : lpc[t] = "close" => closing[t] # NoConn
    /\ \A t \in Loser : closing[t] # NoConn => fd[closing[t]] \in Fd
    /\ \A i \in DOMAIN linked : fd[linked[i]] \in Fd

ConnInv == TypeOK /\ InHand /\ NoneOverwritten

\* No thread has anything in its hands at first.
LEMMA InitConnInv == Init => ConnInv
  BY DEF Init, ConnInv, TypeOK, InHand, NoneOverwritten, Caller, Loser

-----------------------------------------------------------------------------
\* The ACs take nothing out of anyone's hands.
LEMMA AcConnInv ==
    ASSUME ConnInv, (\E c \in Conn : AcEnds(c)) \/ (\E a \in AC : RespServer(a))
    PROVE  ConnInv'
<1>1. ASSUME NEW c \in Conn, AcEnds(c) PROVE ConnInv'
  BY <1>1 DEF AcEnds, ConnInv, TypeOK, InHand, NoneOverwritten, nodes, reconn, lose
<1>2. ASSUME NEW a \in AC, RespServer(a) PROVE ConnInv'
  BY <1>2 DEF RespServer, ConnInv, TypeOK, InHand, NoneOverwritten, kernel, nodes, reconn, lose
<1> QED
  BY <1>1, <1>2

\* A descriptor that is closed, whichever: epoll forgets its connection.
LEMMA ClosedTypes ==
    ASSUME ConnInv, NEW f, Closed(f)
    PROVE  /\ file' \in [Fd -> Conn \cup {NoConn}] /\ to' = to /\ peer' = peer
           /\ reg' \in [Conn -> Conn \cup {NoConn}] /\ ready' \subseteq ready
           /\ \A c \in ready' : reg'[c] # NoConn
  BY DEF Closed, ConnInv, TypeOK, InHand

\* ac_reconnect connects under the lock, and only if there is no connection.
LEMMA ReconnectConnInv == ASSUME ConnInv, NEW t \in Caller, Reconnect(t) PROVE ConnInv'
<1>1. CASE ReBegin(t)
  BY <1>1 DEF ReBegin, ConnInv, TypeOK, InHand, NoneOverwritten, kernel, nodes, lose, bounds
<1>2. CASE ReLock(t)
  <2>1. t # "free"
    BY DEF Caller
  <2>2. sock \in Nat \cup {-1}
    BY DEF ConnInv, TypeOK
  <2>3. CASE sock >= 0
    BY <1>2, <2>3 DEF ReLock, ConnInv, TypeOK, InHand, NoneOverwritten, kernel, nodes, lose, bounds
  <2>4. CASE ~ (sock >= 0)
    <3>1. sock = -1
      BY <2>2, <2>4
    <3>2. \A u \in Caller : rpc[u] = "connect" => u = t /\ FALSE
      BY <1>2, <2>1 DEF ReLock, ConnInv, NoneOverwritten, Caller
    <3> QED
      BY <1>2, <2>4, <3>1, <3>2 DEF ReLock, ConnInv, TypeOK, InHand, NoneOverwritten, kernel,
                                    nodes, lose, bounds
  <2> QED
    BY <2>3, <2>4
<1>3. CASE ReRefused(t)
  BY <1>3 DEF ReRefused, ConnInv, TypeOK, InHand, NoneOverwritten, kernel, nodes, lose
<1>4. CASE ReConnect(t)
  BY <1>4 DEF ReConnect, ConnInv, TypeOK, InHand, NoneOverwritten, lose, bounds
<1>5. CASE ReAdd(t)
  <2> DEFINE n == rnode[t]
             c == file[fd[n]]
  <2>1. n \in Conn /\ fd[n] \in Fd /\ c \in Conn \cup {NoConn}
    BY <1>5 DEF ReAdd, ConnInv, TypeOK, InHand
  <2>2. CASE c = NoConn
    <3>1. /\ rpc' = [rpc EXCEPT ![t] = "done"] /\ rnode' = [rnode EXCEPT ![t] = NoConn]
          /\ UNCHANGED <<sock, server, file, to, peer, reg, ready, linked, fd, freed, lock, raddr,
                         lpc, closing, tpc, ppc, npc, events, fault, resps, ends, fails>>
      BY <1>5, <2>2 DEF ReAdd, nodes, lose, bounds
    <3> HIDE DEF n, c
    <3>3. TypeOK'
      BY <3>1 DEF ConnInv, TypeOK
    <3>4. InHand'
      BY <3>1 DEF ConnInv, TypeOK, InHand
    <3>5. NoneOverwritten'
      BY <3>1 DEF ConnInv, TypeOK, NoneOverwritten
    <3> QED
      BY <3>3, <3>4, <3>5 DEF ConnInv
  <2>3. CASE c # NoConn
    <3>1. /\ reg' = [reg EXCEPT ![c] = n] /\ ready' \subseteq ready \cup {c}
          /\ fault' \in {"exit", fault} /\ rpc' = [rpc EXCEPT ![t] = "link"]
          /\ UNCHANGED <<sock, server, file, to, peer, linked, fd, freed, lock, raddr, rnode, lpc,
                         closing, tpc, ppc, npc, events, resps, ends, fails>>
      BY <1>5, <2>3 DEF ReAdd, nodes, lose, bounds
    <3>2. c \in Conn /\ n # NoConn /\ ready' \subseteq Conn
      BY <2>1, <2>3, <3>1 DEF ConnInv, TypeOK
    <3> HIDE DEF n, c
    <3>3. \A d \in ready' : reg'[d] # NoConn
      BY <3>1, <3>2 DEF ConnInv, TypeOK, InHand
    <3>4. rnode[t] # NoConn /\ n \in Conn
      BY <3>2, <2>1 DEF n
    <3>5. TypeOK'
      <4>1. /\ reg' \in [Conn -> Conn \cup {NoConn}]
            /\ fault' \in {"none", "use after free", "exit", "SIGPIPE"}
        BY <3>1, <3>2, <3>4 DEF ConnInv, TypeOK
      <4>2. rpc' \in [Caller -> {"out", "begin", "lock", "connect", "add", "link", "done"}]
            /\ ready' \subseteq Conn
        BY <3>1, <3>2 DEF ConnInv, TypeOK
      <4>3. UNCHANGED <<sock, server, file, to, peer, linked, fd, freed, lock, raddr, rnode, lpc,
                        closing, tpc, ppc, npc, events, resps, ends, fails>>
        BY <3>1
      <4>4. TypeOK
        BY DEF ConnInv
      <4> QED
        BY <4>1, <4>2, <4>3, <4>4 DEF TypeOK
    <3>6. InHand'
      BY <3>1, <3>3, <3>4 DEF ConnInv, TypeOK, InHand
    <3>7. NoneOverwritten'
      BY <3>1 DEF ConnInv, TypeOK, NoneOverwritten
    <3> QED
      BY <3>5, <3>6, <3>7 DEF ConnInv
  <2> QED
    BY <2>2, <2>3
<1>6. CASE ReLink(t)
  BY <1>6 DEF ReLink, ConnInv, TypeOK, InHand, NoneOverwritten, kernel, lose, bounds
<1> QED
  BY <1>1, <1>2, <1>3, <1>4, <1>5, <1>6 DEF Reconnect

\* A non-empty set of naturals has a least element.
LEMMA LeastIsIn ==
    ASSUME NEW js \in SUBSET Nat, js # {}
    PROVE  (CHOOSE i \in js : \A j \in js : i <= j) \in js
<1> DEFINE Less == {ss \in Nat \X Nat : ss[1] < ss[2]}
<1>1. IsWellFoundedOn(Less, Nat)
  BY NatLessThanWellFounded DEF OpToRel
<1> HIDE DEF Less
<1>2. PICK x \in js : \A y \in js : <<y, x>> \notin Less
  BY <1>1, WFMin
<1>3. ASSUME NEW y \in js PROVE x <= y
  <2>1. <<y, x>> \in Nat \X Nat /\ <<y, x>>[1] = y /\ <<y, x>>[2] = x
    OBVIOUS
  <2>2. ~ (y < x)
    BY <1>2, <2>1, Zenon DEF Less
  <2> QED
    BY <2>2
<1> QED
  BY <1>3

\* A list without one of its nodes.
LEMMA WithoutOne ==
    ASSUME NEW S, NEW s, s \in Seq(S), NEW i \in 1 .. Len(s)
    PROVE  /\ RemoveAt(s, i) \in Seq(S)
           /\ \A k \in 1 .. Len(RemoveAt(s, i)) : \E m \in 1 .. Len(s) : RemoveAt(s, i)[k] = s[m]
<1>1. i \in 1 .. Len(s) /\ Len(s) \in Nat
  OBVIOUS
<1>2. SubSeq(s, 1, i - 1) \in Seq(S) /\ SubSeq(s, i + 1, Len(s)) \in Seq(S)
  BY <1>1
<1> DEFINE a == SubSeq(s, 1, i - 1)
           b == SubSeq(s, i + 1, Len(s))
<1>3. a \in Seq(S) /\ b \in Seq(S) /\ RemoveAt(s, i) = a \o b
  BY <1>2 DEF RemoveAt
<1>4. Len(a) = i - 1 /\ Len(b) = Len(s) - i
  BY <1>1
<1>5. /\ \A k \in 1 .. i - 1 : a[k] = s[k]
      /\ \A k \in 1 .. Len(s) - i : b[k] = s[i + k]
  BY <1>1
<1> HIDE DEF a, b
<1>6. RemoveAt(s, i) \in Seq(S) /\ Len(RemoveAt(s, i)) = Len(s) - 1
  BY <1>1, <1>3, <1>4
<1>7. ASSUME NEW k \in 1 .. Len(RemoveAt(s, i))
      PROVE  \E m \in 1 .. Len(s) : RemoveAt(s, i)[k] = s[m]
  <2>1. k \in 1 .. Len(s) - 1
    BY <1>1, <1>6
  <2>2. CASE k <= i - 1
    BY <1>1, <1>3, <1>4, <1>5, <2>1, <2>2
  <2>3. CASE k > i - 1
    <3>1. RemoveAt(s, i)[k] = b[k - (i - 1)]
      BY <1>1, <1>3, <1>4, <2>1, <2>3
    <3>2. k - (i - 1) \in 1 .. Len(s) - i /\ i + (k - (i - 1)) = k + 1 /\ k + 1 \in 1 .. Len(s)
      BY <1>1, <2>1, <2>3
    <3>3. RemoveAt(s, i)[k] = s[k + 1]
      BY <1>5, <3>1, <3>2
    <3> QED
      BY <1>1, <3>2, <3>3
  <2> QED
    BY <2>1, <2>2, <2>3, <1>1
<1> QED
  BY <1>6, <1>7

\* ac_lost never gives sock a value other than -1.
LEMMA AcLostConnInv == ASSUME ConnInv, NEW t \in Loser, AcLost(t) PROVE ConnInv'
<1>1. CASE LostUnlink(t)
  <2>0. linked \in Seq(Conn) /\ Len(linked) \in Nat /\ DOMAIN linked = 1 .. Len(linked)
    <3>1. linked \in Seq(Conn)
      BY DEF ConnInv, TypeOK
    <3> QED
      BY <3>1
  <2> DEFINE hits == {i \in DOMAIN linked : fd[linked[i]] = sock}
  <2>1. CASE hits = {}
    BY <1>1, <2>1 DEF LostUnlink, ConnInv, TypeOK, InHand, NoneOverwritten, kernel, reconn, bounds
  <2>2. CASE hits # {}
    <3> DEFINE i == CHOOSE i \in hits : \A j \in hits : i <= j
    <3>1. i \in DOMAIN linked
      <4>1. hits \in SUBSET Nat
        BY <2>0
      <4>2. i \in hits
        BY <2>2, <4>1, LeastIsIn
      <4> QED
        BY <4>2
    <3>2. /\ linked' = RemoveAt(linked, i) /\ closing' = [closing EXCEPT ![t] = linked[i]]
          /\ lpc' = [lpc EXCEPT ![t] = "close"]
          /\ UNCHANGED <<sock, server, file, to, peer, reg, ready, fd, freed, lock, rpc, raddr,
                         rnode, tpc, ppc, npc, events, fault, resps, ends, fails>>
      BY <1>1, <2>2 DEF LostUnlink, kernel, reconn, bounds
    <3> HIDE DEF i
    <3>3. /\ linked' \in Seq(Conn)
          /\ \A k \in 1 .. Len(linked') : \E m \in 1 .. Len(linked) : linked'[k] = linked[m]
      <4>1. /\ RemoveAt(linked, i) \in Seq(Conn)
            /\ \A k \in 1 .. Len(RemoveAt(linked, i)) : \E m \in 1 .. Len(linked) :
                  RemoveAt(linked, i)[k] = linked[m]
        <5>1. i \in 1 .. Len(linked) /\ linked \in Seq(Conn)
          BY <2>0, <3>1
        <5> QED
          BY <5>1, WithoutOne, SMTT(30)
      <4> QED
        BY <3>2, <4>1
    <3>4. linked[i] \in Conn /\ fd[linked[i]] \in Fd
      BY <2>0, <3>1 DEF ConnInv, InHand
    <3>5. \A k \in DOMAIN linked' : fd[linked'[k]] \in Fd
      <4>1. \A m \in 1 .. Len(linked) : fd[linked[m]] \in Fd
        BY <2>0 DEF ConnInv, InHand
      <4>2. DOMAIN linked' = 1 .. Len(linked')
        BY <3>3
      <4> QED
        BY <3>3, <4>1, <4>2
    <3> QED
      <4>1. TypeOK'
        BY <3>2, <3>3, <3>4 DEF ConnInv, TypeOK
      <4>2. InHand'
        BY <3>2, <3>4, <3>5 DEF ConnInv, TypeOK, InHand
      <4>3. NoneOverwritten'
        BY <3>2 DEF ConnInv, NoneOverwritten
      <4> QED
        BY <4>1, <4>2, <4>3 DEF ConnInv
  <2> QED
    BY <2>1, <2>2
<1>2. CASE LostClose(t)
  <2>1. /\ file' \in [Fd -> Conn \cup {NoConn}] /\ to' = to /\ peer' = peer
        /\ reg' \in [Conn -> Conn \cup {NoConn}] /\ ready' \subseteq ready
        /\ \A c \in ready' : reg'[c] # NoConn
    BY <1>2, ClosedTypes DEF LostClose
  <2> QED
    <3>1. /\ lpc' = [lpc EXCEPT ![t] = "clear"] /\ closing' = [closing EXCEPT ![t] = NoConn]
          /\ freed' = freed \cup {closing[t]} /\ closing[t] \in Conn
          /\ UNCHANGED <<sock, server, linked, fd, lock, rpc, raddr, rnode, tpc, ppc, npc, events,
                         fault, resps, ends, fails>>
      BY <1>2 DEF LostClose, reconn, bounds, ConnInv, InHand, TypeOK
    <3>2. TypeOK'
      BY <2>1, <3>1 DEF ConnInv, TypeOK
    <3>3. InHand'
      BY <2>1, <3>1 DEF ConnInv, TypeOK, InHand
    <3>4. NoneOverwritten'
      BY <3>1 DEF ConnInv, NoneOverwritten
    <3> QED
      BY <3>2, <3>3, <3>4 DEF ConnInv
<1>3. CASE LostClear(t)
  BY <1>3 DEF LostClear, ConnInv, TypeOK, InHand, NoneOverwritten, kernel, nodes, reconn, bounds
<1> QED
  BY <1>1, <1>2, <1>3 DEF AcLost

\* net_recv fetches nodes that epoll knows, one after another.
LEMMA NetRecvConnInv == ASSUME ConnInv, NetRecv PROVE ConnInv'
<1>1. CASE Wait
  <2>1. events' \subseteq Conn
    BY <1>1 DEF Wait, ConnInv, TypeOK, InHand
  <2> QED
    BY <1>1, <2>1 DEF Wait, ConnInv, TypeOK, InHand, NoneOverwritten, nodes, reconn, lose, bounds
<1>2. CASE NextEvent
  <2> DEFINE Rest == UNCHANGED <<sock, server, file, to, peer, reg, ready, linked, fd, freed, lock,
                                 rpc, raddr, rnode, closing, tpc, ppc, resps, ends, fails>>
  <2>1. Rest /\ lpc["net_recv"] # "close"
    BY <1>2 DEF NextEvent, kernel, nodes, reconn, bounds
  <2>2. NoneOverwritten'
    BY <2>1 DEF ConnInv, NoneOverwritten
  <2>3. CASE /\ lpc' = [lpc EXCEPT !["net_recv"] = "out"] /\ npc' = "wait"
             /\ UNCHANGED <<events, fault>>
    <3>1. TypeOK'
      BY <2>1, <2>3 DEF ConnInv, TypeOK
    <3>2. InHand'
      BY <2>1, <2>3 DEF ConnInv, TypeOK, InHand
    <3> QED
      BY <2>2, <3>1, <3>2 DEF ConnInv
  <2>4. CASE /\ events' \subseteq events /\ fault' = "use after free" /\ UNCHANGED <<lpc, npc>>
    <3>1. TypeOK'
      BY <2>1, <2>4 DEF ConnInv, TypeOK
    <3>2. InHand'
      BY <2>1, <2>4 DEF ConnInv, TypeOK, InHand
    <3> QED
      BY <2>2, <3>1, <3>2 DEF ConnInv
  <2>5. CASE /\ events' \subseteq events /\ lpc' = [lpc EXCEPT !["net_recv"] = "delete"]
             /\ UNCHANGED <<fault, npc>>
    <3>1. TypeOK'
      BY <2>1, <2>5 DEF ConnInv, TypeOK
    <3>2. InHand'
      BY <2>1, <2>5 DEF ConnInv, TypeOK, InHand
    <3> QED
      BY <2>2, <3>1, <3>2 DEF ConnInv
  <2> QED
    BY <1>2, <2>3, <2>4, <2>5 DEF NextEvent
<1> QED
  BY <1>1, <1>2, AcLostConnInv DEF NetRecv, Loser

\* message_travel closes the socket and leaves sock as it is.
LEMMA TravelConnInv == ASSUME ConnInv, Travel PROVE ConnInv'
<1>1. CASE RespClose
  <2>1. /\ file' \in [Fd -> Conn \cup {NoConn}] /\ to' = to /\ peer' = peer
        /\ reg' \in [Conn -> Conn \cup {NoConn}] /\ ready' \subseteq ready
        /\ \A c \in ready' : reg'[c] # NoConn
    BY <1>1, ClosedTypes DEF RespClose, kernel, ConnInv, TypeOK, InHand
  <2> QED
    BY <1>1, <2>1 DEF RespClose, ConnInv, TypeOK, InHand, NoneOverwritten, nodes, lose,
          bounds, Caller
<1>2. CASE RespDone
  BY <1>2 DEF RespDone, ConnInv, TypeOK, InHand, NoneOverwritten, kernel, nodes, lose,
        bounds, Caller
<1> QED
  BY <1>1, <1>2, ReconnectConnInv DEF Travel, Caller

\* report_apstatus sends on whatever sock stands for.
LEMMA ReportConnInv == ASSUME ConnInv, Report PROVE ConnInv'
<1>1. CASE ReportLook
  BY <1>1 DEF ReportLook, ConnInv, TypeOK, InHand, NoneOverwritten, kernel, nodes, lose,
        bounds, Caller
<1>2. CASE ReportSend
  <2>1. Current \in Conn \cup {NoConn}
    BY DEF Current, ConnInv, TypeOK
  <2> QED
    BY <1>2, <2>1 DEF ReportSend, ConnInv, TypeOK, InHand, NoneOverwritten, nodes, reconn,
          bounds, Loser
<1>3. CASE ReportLost
  BY <1>3 DEF ReportLost, ConnInv, TypeOK, InHand, NoneOverwritten, kernel, nodes, bounds,
        Caller, Loser
<1>4. CASE ReportDone
  BY <1>4 DEF ReportDone, ConnInv, TypeOK, InHand, NoneOverwritten, kernel, nodes, lose,
        bounds, Caller
<1> QED
  BY <1>1, <1>2, <1>3, <1>4, ReconnectConnInv, AcLostConnInv DEF Report, Caller, Loser

-----------------------------------------------------------------------------
LEMMA NextConnInv == ConnInv /\ [Next]_vars => ConnInv'
<1> SUFFICES ASSUME ConnInv, [Next]_vars PROVE ConnInv'
  OBVIOUS
<1>1. CASE UNCHANGED vars
  <2>1. UNCHANGED <<sock, server, file, to, peer, reg, ready, linked, fd, freed, lock, rpc, raddr,
                    rnode, lpc, closing, tpc, ppc, npc, events, fault, resps, ends, fails>>
    BY <1>1 DEF vars, kernel, nodes, reconn, lose, bounds
  <2>2. TypeOK'
    BY <2>1 DEF ConnInv, TypeOK
  <2>3. InHand'
    BY <2>1 DEF ConnInv, InHand
  <2>4. NoneOverwritten'
    BY <2>1 DEF ConnInv, NoneOverwritten
  <2> QED
    BY <2>2, <2>3, <2>4 DEF ConnInv
<1> QED
  BY <1>1, AcConnInv, NetRecvConnInv, TravelConnInv, ReportConnInv DEF Next

\* The inductive invariant: what the threads of ac_reconnect and ac_lost have in their
\* hands (ap/process.c:48-75, 334-339).
THEOREM Invariance == Spec => []ConnInv
  BY InitConnInv, NextConnInv, PTL DEF Spec

\* The types of all variables, in particular those of the nodes and descriptors
\* the threads carry from one step to the next (ap/process.c).
THEOREM TypeCorrect == Spec => []TypeOK
<1>1. ConnInv => TypeOK
  BY DEF ConnInv
<1> QED
  BY <1>1, Invariance, PTL

\* ac_reconnect never puts its connection in the place of another one: it looks at sock
\* and writes it under one lock (ap/process.c:48-75), and the writes without it are
\* of -1 only (ap/process.c:338).
THEOREM OverwriteTheorem == Spec => []NoneOverwritten
<1>1. ConnInv => NoneOverwritten
  BY DEF ConnInv
<1> QED
  BY <1>1, Invariance, PTL
=============================================================================
