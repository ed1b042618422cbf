---------------------------- MODULE AcConnProofs ----------------------------
(***************************************************************************)
(* Proofs about AcConn, for any APs, connections, descriptors, size of the *)
(* read buffer and number of statuses: a node that is dropped closes the   *)
(* socket it was made for and is freed once, edge-triggered epoll leaves   *)
(* no data behind without an event, and the connections and commands that  *)
(* a number used again sends astray are those WrongOnlyForOver names.      *)
(***************************************************************************)
EXTENDS AcConn, TLAPS

USE AcConnAssumption

\* A node that is in the list or on its way out of it; a connection that the AC has
\* not accepted.
Holding(c) == c \in linked \/ \E t \in Thread : closing[t] = c
Untaken(c) == peer[c] \in {"unused", "backlog"}

\* What NodeOwnsSocket says of nodes that are held.
HoldersOwn == \A c \in Conn : Holding(c) => c \notin freed /\ file[sock[c]] = c /\ c \in epoll

\* A node is in one place.
OneHolder ==
    /\ \A c \in linked, t \in Thread : closing[t] # c
    /\ \A t, u \in Thread : closing[t] = closing[u] /\ closing[t] # NoConn => t = u

\* tcp_accept returns connections that have no node yet.
UntakenFree == \A c \in Conn : Untaken(c) => ~Holding(c) /\ c \notin freed /\ c # acc

\* Nobody else knows a node before list_add: between tcp_accept and the list its
\* socket is its own.
PendingOwns ==
    apc # "accept" =>
        /\ acc \in Conn /\ ~Holding(acc) /\ acc \notin freed
        /\ sock[acc] \in Fd /\ file[sock[acc]] = acc
        /\ apc = "link" => acc \in epoll

\* What epoll reports has been accepted.
SocksSet ==
    /\ \A c \in epoll : sock[c] \in Fd
    /\ \A e \in events : sock[e.conn] \in Fd
    /\ npc \in {"read", "lost"} => nfd \in Fd

\* A thread drops one connection at a time.
NotClosing ==
    /\ npc \in {"read", "lost"} => closing["net_recv"] = NoConn
    /\ tpc \in {"send", "lost"} => closing["message_travel"] = NoConn

Places == HoldersOwn /\ OneHolder /\ UntakenFree /\ PendingOwns
Ownership == TypeOK /\ Places /\ SocksSet /\ NotClosing

-----------------------------------------------------------------------------
\* There are no connections at the start.
LEMMA InitOwnership == Init => Ownership
<1> SUFFICES ASSUME Init PROVE Ownership
  OBVIOUS
<1>1. tap \in AP
  BY DEF Init
<1>2. TypeOK
  BY <1>1 DEF Init, TypeOK, PeerState, Fault, Reply
<1>3. \A c \in Conn : ~Holding(c)
  BY DEF Init, Holding
<1> QED
  BY <1>2, <1>3 DEF Init, Ownership, Places, HoldersOwn, OneHolder, UntakenFree, PendingOwns,
                    SocksSet, NotClosing, Holding

-----------------------------------------------------------------------------
(* Types.                                                                  *)

\* The APs and the kernel.
LEMMA PeersType == ASSUME TypeOK, Peers \/ TimesOut PROVE TypeOK'
<1>1. CASE Peers
  <2>1. PICK c \in Conn : Connect(c) \/ SendStatus(c) \/ Finish(c) \/ Vanish(c)
    BY <1>1 DEF Peers
  <2>2. UNCHANGED <<nodes, accept, recv, apsock, inbox, travel, closing, fault, history>>
    BY <1>1 DEF Peers
  <2>3. CASE Connect(c) \/ Vanish(c)
    <3>1. peer' \in [Conn -> PeerState]
      BY <2>3 DEF Connect, Vanish, TypeOK, PeerState
    <3>2. UNCHANGED <<unread, sends, file, epoll, ready>>
      BY <2>3 DEF Connect, Vanish
    <3> QED
      BY <2>2, <3>1, <3>2 DEF TypeOK, nodes, accept, recv, travel, history
  <2>4. CASE SendStatus(c)
    <3>1. ready' \subseteq epoll /\ UNCHANGED <<peer, file, epoll>>
      BY <2>4 DEF SendStatus, Edge, TypeOK
    <3>2. /\ unread' \in [Conn -> Nat] /\ sends' \in [Conn -> Nat]
          /\ \A d \in Conn : unread'[d] <= sends'[d] /\ sends'[d] <= MaxSends[d]
      <4>1. /\ unread \in [Conn -> Nat] /\ sends \in [Conn -> Nat] /\ MaxSends \in [Conn -> Nat]
            /\ \A d \in Conn : unread[d] <= sends[d] /\ sends[d] <= MaxSends[d]
        BY DEF TypeOK
      <4>2. /\ sends[c] < MaxSends[c] /\ sends' = [sends EXCEPT ![c] = sends[c] + 1]
            /\ unread' = [unread EXCEPT ![c] = unread[c] + 1]
        BY <2>4 DEF SendStatus
      <4>3. /\ unread[c] \in Nat /\ sends[c] \in Nat /\ MaxSends[c] \in Nat
            /\ unread[c] + 1 \in Nat /\ sends[c] + 1 \in Nat
            /\ unread[c] + 1 <= sends[c] + 1 /\ sends[c] + 1 <= MaxSends[c]
        BY <4>1, <4>2
      <4> QED
        BY <4>1, <4>2, <4>3
    <3> QED
      BY <2>2, <3>1, <3>2 DEF TypeOK, nodes, accept, recv, travel, history
  <2>5. CASE Finish(c)
    <3>1. peer' \in [Conn -> PeerState]
      BY <2>5 DEF Finish, TypeOK, PeerState
    <3>2. ready' \subseteq epoll /\ UNCHANGED <<unread, sends, file, epoll>>
      BY <2>5 DEF Finish, Edge, TypeOK
    <3> QED
      BY <2>2, <3>1, <3>2 DEF TypeOK, nodes, accept, recv, travel, history
  <2> QED
    BY <2>1, <2>3, <2>4, <2>5
<1>2. CASE TimesOut
  <2>1. peer' \in [Conn -> PeerState] /\ ready' \subseteq epoll
    BY <1>2 DEF TimesOut, Edge, TypeOK, PeerState
  <2> QED
    BY <1>2, <2>1 DEF TimesOut, TypeOK, nodes, accept, recv, travel, history
<1> QED
  BY <1>1, <1>2

\* net_netlisten.
LEMMA NetListenType == ASSUME Ownership, NetListen PROVE TypeOK'
<1>1. CASE Accept
  <2>1. peer' \in [Conn -> PeerState]
    BY <1>1 DEF Accept, Ownership, TypeOK, PeerState
  <2> QED
    BY <1>1, <2>1 DEF Accept, Ownership, TypeOK, recv, travel, history
<1>2. CASE EpollAdd
  BY <1>2 DEF EpollAdd, Ownership, Places, PendingOwns, TypeOK, nodes, recv, travel, history
<1>3. CASE Link
  BY <1>3 DEF Link, Ownership, Places, PendingOwns, TypeOK, kernel, recv, travel, history
<1> QED
  BY <1>1, <1>2, <1>3 DEF NetListen

\* delete_sockarr.
LEMMA CloseSockType == ASSUME Ownership, NEW t \in Thread, CloseSock(t) PROVE TypeOK'
<1>1. closing[t] \in Conn
  BY DEF CloseSock, Ownership, TypeOK
<1>2. peer' \in [Conn -> PeerState]
  BY DEF CloseSock, Ownership, TypeOK, PeerState
<1> QED
  BY <1>1, <1>2 DEF CloseSock, Ownership, TypeOK, accept, recv, travel, history

\* The node that leaves the list has the socket that is dropped.
LEMMA UnlinkedNode == ASSUME NEW t, NEW f, InList(f), Unlink(t, f)
                      PROVE  \E c \in linked : /\ sock[c] = f
                                               /\ closing' = [closing EXCEPT ![t] = c]
                                               /\ linked' = linked \ {c}
  BY DEF InList, Unlink

\* net_recv.
LEMMA NetRecvType == ASSUME Ownership, NetRecv PROVE TypeOK'
<1>1. CASE Wait
  <2>1. \A c \in Conn : [conn |-> c, end |-> Ended(c)] \in [conn : Conn, end : BOOLEAN]
    BY DEF Ended
  <2>2. events' \subseteq [conn : Conn, end : BOOLEAN]
    BY <1>1, <2>1 DEF Wait, Ownership, TypeOK
  <2> QED
    BY <1>1, <2>2 DEF Wait, Ownership, TypeOK, nodes, accept, travel, history
<1>2. CASE NextEvent
  <2>1. /\ events' \subseteq events /\ nfd' \in Fd \cup {0}
        /\ npc' \in {"wait", "next", "read", "lost"}
        /\ fault' \in Fault
    <3>1. CASE events = {}
      BY <1>2, <3>1 DEF NextEvent, Ownership, TypeOK
    <3>2. CASE events # {}
      <4>1. PICK e \in events :
              /\ events' = events \ {e} /\ nfd' = sock[e.conn]
              /\ IF e.conn \in freed THEN fault' = "use after free" /\ UNCHANGED npc
                 ELSE npc' = (IF e.end THEN "lost" ELSE "read") /\ UNCHANGED fault
        BY <1>2, <3>2 DEF NextEvent
      <4>2. npc' \in {"wait", "next", "read", "lost"}
        BY <4>1 DEF Ownership, TypeOK
      <4>3. fault' \in Fault
        BY <4>1 DEF Ownership, TypeOK, Fault
      <4> QED
        BY <4>1, <4>2, <4>3 DEF Ownership, SocksSet
    <3> QED
      BY <3>1, <3>2
  <2>2. /\ UNCHANGED <<kernel, nodes, accept, apsock, inbox, travel, closing, history>>
        /\ from' = NoConn /\ got' = 0
    BY <1>2 DEF NextEvent
  <2>3. got' \in 0 .. Room + 1
    BY <2>2
  <2> QED
    BY <2>1, <2>2, <2>3 DEF Ownership, TypeOK, kernel, nodes, accept, travel, history
<1>3. CASE Lost
  <2>1. closing' \in [Thread -> Conn \cup {NoConn}] /\ linked' \subseteq Conn
    <3>1. CASE InList(nfd)
      <4>1. Unlink("net_recv", nfd)
        BY <1>3, <3>1 DEF Lost
      <4>2. PICK c \in linked : /\ closing' = [closing EXCEPT !["net_recv"] = c]
                                /\ linked' = linked \ {c}
        BY <3>1, <4>1, UnlinkedNode
      <4> QED
        BY <4>2 DEF Ownership, TypeOK
    <3>2. CASE ~InList(nfd)
      BY <1>3, <3>2 DEF Lost, Ownership, TypeOK
    <3> QED
      BY <3>1, <3>2
  <2> QED
    BY <1>3, <2>1 DEF Lost, Ownership, TypeOK, kernel, accept, travel, history
<1>4. CASE NoMemory
  BY <1>4 DEF NoMemory, Ownership, TypeOK, kernel, nodes, accept, travel
<1>5. CASE ReadData
  <2> DEFINE c == file[nfd]
             n == got + unread[c]
  <2>1. c \in Conn
    BY <1>5 DEF ReadData, Ownership, SocksSet, TypeOK
  <2>2. got \in Nat /\ got <= Room /\ unread[c] \in Nat /\ unread[c] > 0
    BY <1>5, <2>1 DEF ReadData, Ownership, TypeOK
  <2>3. got' \in 0 .. Room + 1
    BY <1>5, <2>2 DEF ReadData
  <2>4. PICK k \in Nat : k <= unread[c] /\ unread' = [unread EXCEPT ![c] = k]
    <3>1. CASE n > Room
      <4>1. n - Room \in Nat /\ n - Room <= unread[c]
        BY <2>2, <3>1
      <4> QED
        BY <1>5, <3>1, <4>1 DEF ReadData
    <3>2. CASE ~(n > Room)
      <4>1. unread' = [unread EXCEPT ![c] = 0]
        BY <1>5, <3>2 DEF ReadData
      <4>2. 0 \in Nat /\ 0 <= unread[c]
        BY <2>2
      <4> HIDE DEF c
      <4> WITNESS 0 \in Nat
      <4> QED
        BY <4>1, <4>2
    <3> QED
      BY <3>1, <3>2
  <2>5. /\ unread' \in [Conn -> Nat]
        /\ \A d \in Conn : unread'[d] <= sends[d]
    <3>1. unread \in [Conn -> Nat] /\ sends \in [Conn -> Nat]
          /\ \A d \in Conn : unread[d] <= sends[d]
      BY DEF Ownership, TypeOK
    <3> QED
      BY <2>1, <2>2, <2>4, <3>1
  <2>6. from' \in Conn \cup {NoConn}
    BY <1>5, <2>1 DEF ReadData, Ownership, TypeOK
  <2> QED
    BY <1>5, <2>3, <2>5, <2>6 DEF ReadData, Ownership, TypeOK, Reply, nodes, accept,
                                     travel
<1>6. CASE ReadEnd
  <2>1. CASE fault' = "assert" /\ UNCHANGED <<npc, apsock, inbox, peer>>
    BY <1>6, <2>1 DEF ReadEnd, Ownership, TypeOK, nodes, accept, travel, history,
                     Fault
  <2>2. CASE /\ Message /\ UNCHANGED fault
             /\ peer' = [c \in Conn |-> IF file[nfd] = c /\ peer[c] = "timeout" THEN "dead"
                                        ELSE peer[c]]
    <3>1. apsock' \in [AP -> Fd \cup {0}] /\ inbox' \in [AP -> Nat]
          /\ npc' \in {"wait", "next", "read", "lost"}
      <4>1. CASE from = NoConn
        BY <2>2, <4>1 DEF Message, Ownership, TypeOK
      <4>2. CASE from # NoConn
        <5>1. Owner[from] \in AP
          BY <4>2 DEF Ownership, TypeOK
        <5> QED
          <6>1. /\ npc' = "next" /\ apsock' = [apsock EXCEPT ![Owner[from]] = nfd]
                /\ inbox' = [inbox EXCEPT ![Owner[from]] = inbox[Owner[from]] + 1]
            BY <2>2, <4>2 DEF Message
          <6>2. apsock' \in [AP -> Fd \cup {0}]
            <7>1. apsock \in [AP -> Fd \cup {0}] /\ nfd \in Fd \cup {0}
              BY DEF Ownership, TypeOK
            <7> QED
              BY <5>1, <6>1, <7>1
          <6>3. inbox' \in [AP -> Nat]
            <7>1. inbox \in [AP -> Nat]
              BY DEF Ownership, TypeOK
            <7> QED
              BY <5>1, <6>1, <7>1
          <6> QED
            BY <6>1, <6>2, <6>3
      <4> QED
        BY <4>1, <4>2
    <3>2. peer' \in [Conn -> PeerState]
      BY <2>2 DEF Ownership, TypeOK, PeerState
    <3> QED
      BY <1>6, <2>2, <3>1, <3>2 DEF ReadEnd, Ownership, TypeOK, nodes, accept, travel, history
  <2> QED
    BY <1>6, <2>1, <2>2 DEF ReadEnd
<1>7. CASE CloseSock("net_recv")
  BY <1>7, CloseSockType DEF Thread
<1> QED
  BY <1>1, <1>2, <1>3, <1>4, <1>5, <1>6, <1>7 DEF NetRecv

\* message_travel.
LEMMA TravelType == ASSUME Ownership, Travel PROVE TypeOK'
<1>1. CASE TravelTake
  <2>1. tap' \in AP /\ inbox' \in [AP -> Nat]
    <3>1. PICK p \in AP : /\ inbox[p] > 0 /\ tap' = p
                          /\ inbox' = [inbox EXCEPT ![p] = inbox[p] - 1]
      BY <1>1 DEF TravelTake
    <3>2. inbox \in [AP -> Nat]
      BY DEF Ownership, TypeOK
    <3>3. inbox[p] - 1 \in Nat
      BY <3>1, <3>2
    <3> QED
      BY <3>1, <3>2, <3>3
  <2> QED
    BY <1>1, <2>1 DEF TravelTake, Ownership, TypeOK, kernel, nodes, accept, recv, history
<1>2. CASE TravelSend
  <2>1. UNCHANGED <<unread, sends, file, epoll, nodes, accept, recv, apsock, inbox, tap,
                    closing, spent>>
    BY <1>2 DEF TravelSend
  <2>2. peer' \in [Conn -> PeerState] /\ ready' \subseteq epoll
    <3> DEFINE f == apsock[tap]
               c == IF f \in Fd THEN file[f] ELSE NoConn
               was == IF c = NoConn THEN "closed" ELSE peer[c]
    <3>1. peer \in [Conn -> PeerState] /\ ready \subseteq epoll
      BY DEF Ownership, TypeOK
    <3>2. \A w \in DOMAIN AfterSend : AfterSend[w] \in PeerState
      BY DEF AfterSend, PeerState
    <3>3. IF was \in DOMAIN AfterSend THEN peer' = [peer EXCEPT ![c] = AfterSend[was]]
          ELSE peer' = peer
      BY <1>2 DEF TravelSend
    <3>4. peer' \in [Conn -> PeerState]
      <4> HIDE DEF c, was
      <4> QED
        BY <3>1, <3>2, <3>3
    <3>5. ready' = ready \/ (c \in epoll /\ ready' = ready \cup {c})
      BY <1>2 DEF TravelSend, Edge
    <3> QED
      BY <3>1, <3>4, <3>5
  <2>3. tpc' \in {"idle", "send", "lost"} /\ reply' \in [AP -> Reply]
        /\ fault' \in Fault
    BY <1>2 DEF TravelSend, Ownership, TypeOK, Fault, Reply
  <2> QED
    BY <2>1, <2>2, <2>3 DEF Ownership, TypeOK, nodes, accept, recv
<1>3. CASE TravelLost
  <2>1. closing' \in [Thread -> Conn \cup {NoConn}] /\ linked' \subseteq Conn
    <3>1. CASE InList(apsock[tap])
      <4>1. Unlink("message_travel", apsock[tap])
        BY <1>3, <3>1 DEF TravelLost
      <4>2. PICK c \in linked : /\ closing' = [closing EXCEPT !["message_travel"] = c]
                                /\ linked' = linked \ {c}
        BY <3>1, <4>1, UnlinkedNode
      <4> QED
        BY <4>2 DEF Ownership, TypeOK
    <3>2. CASE ~InList(apsock[tap])
      BY <1>3, <3>2 DEF TravelLost, Ownership, TypeOK
    <3> QED
      BY <3>1, <3>2
  <2> QED
    BY <1>3, <2>1 DEF TravelLost, Ownership, TypeOK, kernel, accept, recv, history
<1>4. CASE CloseSock("message_travel")
  BY <1>4, CloseSockType DEF Thread
<1>5. CASE TravelNoMemory
  <2>1. reply' \in [AP -> Reply] /\ fault' \in Fault
        /\ tpc' = "idle"
    BY <1>5 DEF TravelNoMemory, Ownership, TypeOK, Fault, Reply
  <2> QED
    BY <1>5, <2>1 DEF TravelNoMemory, Ownership, TypeOK, kernel, nodes, accept, recv
<1> QED
  BY <1>1, <1>2, <1>3, <1>4, <1>5 DEF Travel

\* Every step keeps the AC's connections well typed.
LEMMA NextType == ASSUME Ownership, [Next]_vars PROVE TypeOK'
<1>1. CASE UNCHANGED vars
  BY <1>1 DEF vars, kernel, nodes, accept, recv, travel, history, Ownership, TypeOK
<1>2. CASE Next
  BY <1>2, PeersType, NetListenType, NetRecvType, TravelType DEF Next, Ownership
<1> QED
  BY <1>1, <1>2

-----------------------------------------------------------------------------
(* Who has which node.                                                     *)

\* A step that moves no node and closes no socket, and makes no connection unaccepted.
LEMMA PlacesFrame ==
    ASSUME Places, UNCHANGED <<file, epoll, nodes, accept, closing>>,
           \A c \in Conn : Untaken(c)' => Untaken(c)
    PROVE  Places'
<1>1. \A c \in Conn : Holding(c)' <=> Holding(c)
  BY DEF Holding, nodes
<1> QED
  BY <1>1 DEF Places, HoldersOwn, OneHolder, UntakenFree, PendingOwns, nodes, accept

\* tcp_accept: the lowest free descriptor is nobody's.
LEMMA AcceptPlaces == ASSUME Ownership, Accept PROVE Places'
<1>1. PICK c \in Conn, f \in Fd :
        /\ peer[c] = "backlog" /\ file[f] = NoConn
        /\ peer' = [peer EXCEPT ![c] = "up"]
        /\ file' = [file EXCEPT ![f] = c] /\ sock' = [sock EXCEPT ![c] = f]
        /\ acc' = c
  BY DEF Accept
<1>2. apc' = "add" /\ UNCHANGED <<epoll, linked, freed, closing>>
  BY DEF Accept
<1>3. ~Holding(c) /\ c \notin freed
  BY <1>1 DEF Ownership, Places, UntakenFree, Untaken
<1>4. \A d \in Conn : Holding(d)' <=> Holding(d)
  BY <1>2 DEF Holding
<1>5. file'[f] = c /\ sock'[c] = f
  BY <1>1 DEF Ownership, TypeOK
<1>6. \A d \in Conn : d # c => sock'[d] = sock[d]
  BY <1>1 DEF Ownership, TypeOK
<1>7. \A g \in Fd : g # f => file'[g] = file[g]
  BY <1>1 DEF Ownership, TypeOK
<1>8. HoldersOwn'
  <2> SUFFICES ASSUME NEW d \in Conn, Holding(d)'
               PROVE  d \notin freed /\ file'[sock'[d]] = d /\ d \in epoll
    BY <1>2 DEF HoldersOwn
  <2>1. d # c /\ d \notin freed /\ file[sock[d]] = d /\ d \in epoll
    BY <1>3, <1>4 DEF Ownership, Places, HoldersOwn
  <2>2. sock[d] \in Fd /\ sock[d] # f
    BY <1>1, <2>1 DEF Ownership, SocksSet
  <2> QED
    BY <1>6, <1>7, <2>1, <2>2
<1>9. OneHolder'
  BY <1>2 DEF Ownership, Places, OneHolder
<1>10. UntakenFree'
  <2> SUFFICES ASSUME NEW d \in Conn, Untaken(d)' PROVE ~Holding(d)' /\ d \notin freed' /\ d # acc'
    BY DEF UntakenFree
  <2>1. d # c /\ Untaken(d)
    BY <1>1 DEF Untaken, Ownership, TypeOK
  <2> QED
    BY <1>1, <1>2, <1>4, <2>1 DEF Ownership, Places, UntakenFree
<1>11. PendingOwns'
  BY <1>1, <1>2, <1>3, <1>4, <1>5 DEF PendingOwns
<1> QED
  BY <1>8, <1>9, <1>10, <1>11 DEF Places

\* insert_sockarr: first epoll, then the list.
LEMMA EpollAddPlaces == ASSUME Ownership, EpollAdd PROVE Places'
<1>1. apc = "add" /\ apc' = "link" /\ epoll' = epoll \cup {acc}
      /\ UNCHANGED <<peer, file, nodes, acc, closing>>
  BY DEF EpollAdd
<1>2. \A c \in Conn : (Holding(c)' <=> Holding(c)) /\ (Untaken(c)' <=> Untaken(c))
  BY <1>1 DEF Holding, Untaken, nodes
<1> QED
  BY <1>1, <1>2 DEF Ownership, Places, HoldersOwn, OneHolder, UntakenFree, PendingOwns, nodes

LEMMA LinkPlaces == ASSUME Ownership, Link PROVE Places'
<1>1. /\ apc = "link" /\ apc' = "accept" /\ linked' = linked \cup {acc} /\ acc' = NoConn
      /\ UNCHANGED <<peer, file, epoll, freed, sock, closing>>
  BY DEF Link, kernel
<1>2. acc \in Conn /\ ~Holding(acc) /\ acc \notin freed /\ file[sock[acc]] = acc /\ acc \in epoll
  BY <1>1 DEF Ownership, Places, PendingOwns
<1>3. \A c \in Conn : /\ Untaken(c)' <=> Untaken(c)
                      /\ Holding(c)' => Holding(c) \/ c = acc
  BY <1>1 DEF Holding, Untaken
<1>4. HoldersOwn'
  <2> SUFFICES ASSUME NEW d \in Conn, Holding(d)'
               PROVE  d \notin freed /\ file[sock[d]] = d /\ d \in epoll
    BY <1>1 DEF HoldersOwn
  <2>1. CASE d = acc
    BY <1>2, <2>1
  <2>2. CASE d # acc
    BY <1>3, <2>2 DEF Ownership, Places, HoldersOwn
  <2> QED
    BY <2>1, <2>2
<1>5. OneHolder'
  BY <1>1, <1>2 DEF Ownership, Places, OneHolder, Holding
<1>6. UntakenFree'
  <2> SUFFICES ASSUME NEW d \in Conn, Untaken(d)'
               PROVE  ~Holding(d)' /\ d \notin freed' /\ d # acc'
    BY DEF UntakenFree
  <2>1. Untaken(d) /\ ~Holding(d) /\ d \notin freed /\ d # acc
    BY <1>3 DEF Ownership, Places, UntakenFree
  <2> QED
    BY <1>1, <1>3, <2>1
<1>7. PendingOwns'
  BY <1>1 DEF PendingOwns
<1> QED
  BY <1>4, <1>5, <1>6, <1>7 DEF Places

\* delete_sockarr, under the lock: the node goes from the list to the thread.
LEMMA UnlinkPlaces ==
    ASSUME Ownership, NEW t \in Thread, closing[t] = NoConn, NEW f, InList(f), Unlink(t, f),
           UNCHANGED <<peer, file, epoll, freed, sock, accept>>
    PROVE  Places'
<1>1. PICK c \in linked : closing' = [closing EXCEPT ![t] = c] /\ linked' = linked \ {c}
  BY UnlinkedNode
<1>2. c \in Conn /\ closing'[t] = c /\ \A u \in Thread : u # t => closing'[u] = closing[u]
  BY <1>1 DEF Ownership, TypeOK
<1>3. \A d \in Conn : /\ Untaken(d)' <=> Untaken(d)
                      /\ Holding(d)' <=> Holding(d)
  BY <1>1, <1>2 DEF Holding, Untaken, Ownership, TypeOK
<1>4. OneHolder'
  BY <1>1, <1>2 DEF Ownership, Places, OneHolder, TypeOK
<1>5. UNCHANGED <<file, epoll, freed, sock, apc, acc>>
  BY DEF accept
<1>6. HoldersOwn'
  BY <1>3, <1>5 DEF Ownership, Places, HoldersOwn
<1>7. UntakenFree'
  BY <1>3, <1>5 DEF Ownership, Places, UntakenFree
<1>8. PendingOwns'
  BY <1>3, <1>5 DEF Ownership, Places, PendingOwns
<1> QED
  BY <1>4, <1>6, <1>7, <1>8 DEF Places

\* delete_sockarr, without the lock: the socket closed by number is the node's.
LEMMA CloseSockPlaces == ASSUME Ownership, NEW t \in Thread, CloseSock(t) PROVE Places'
<1> DEFINE c == closing[t]
           f == sock[c]
<1>1. c \in Conn /\ Holding(c) /\ file[f] = c /\ c \in epoll /\ f \in Fd
  BY DEF CloseSock, Ownership, TypeOK, Places, HoldersOwn, Holding, SocksSet
<1>2. /\ file' = [file EXCEPT ![f] = NoConn] /\ epoll' = epoll \ {c}
      /\ peer' = [d \in Conn |-> IF d # c THEN peer[d]
                              ELSE IF peer[d] = "up" THEN "cut" ELSE "done"]
      /\ freed' = freed \cup {c} /\ closing' = [closing EXCEPT ![t] = NoConn]
      /\ UNCHANGED <<linked, sock, accept>>
  BY <1>1 DEF CloseSock
<1>3. closing'[t] = NoConn /\ \A u \in Thread : u # t => closing'[u] = closing[u]
  BY <1>2 DEF Ownership, TypeOK
<1>4. \A d \in Conn : Holding(d)' => Holding(d) /\ d # c
  BY <1>1, <1>2, <1>3 DEF Holding, Ownership, Places, OneHolder
<1>5. \A d \in Conn : Untaken(d)' => Untaken(d) /\ d # c
  BY <1>2 DEF Untaken
<1>6. \A d \in Conn : d # c /\ sock[d] \in Fd /\ file[sock[d]] = d => file'[sock[d]] = d
  BY <1>1, <1>2 DEF Ownership, TypeOK
<1>7. HoldersOwn'
  <2> SUFFICES ASSUME NEW d \in Conn, Holding(d)'
               PROVE  d \notin freed' /\ file'[sock[d]] = d /\ d \in epoll'
    BY <1>2 DEF HoldersOwn
  <2>1. d # c /\ d \notin freed /\ file[sock[d]] = d /\ d \in epoll
    BY <1>4 DEF Ownership, Places, HoldersOwn
  <2>2. sock[d] \in Fd
    BY <2>1 DEF Ownership, SocksSet
  <2> QED
    BY <1>2, <1>6, <2>1, <2>2
<1>8. OneHolder'
  <2>1. linked \subseteq Conn
    BY DEF Ownership, TypeOK
  <2>2. \A u \in Thread : closing'[u] = closing[u] \/ closing'[u] = NoConn
    BY <1>3
  <2> QED
    BY <1>2, <2>1, <2>2 DEF Ownership, Places, OneHolder
<1>9. UntakenFree'
  BY <1>2, <1>4, <1>5 DEF Ownership, Places, UntakenFree, accept
<1>10. PendingOwns'
  BY <1>1, <1>2, <1>4, <1>6 DEF Ownership, Places, PendingOwns, accept
<1> QED
  BY <1>7, <1>8, <1>9, <1>10 DEF Places

-----------------------------------------------------------------------------
\* A connection that AC or AP drop, or that ends, has been accepted before.
LEMMA NoneUntaken ==
    ASSUME Ownership, Peers \/ TimesOut \/ TravelSend \/ ReadEnd
    PROVE  \A c \in Conn : Untaken(c)' => Untaken(c)
<1>1. peer \in [Conn -> PeerState]
  BY DEF Ownership, TypeOK
<1>2. CASE Peers
  <2>1. PICK c \in Conn : Connect(c) \/ SendStatus(c) \/ Finish(c) \/ Vanish(c)
    BY <1>2 DEF Peers
  <2> QED
    BY <1>1, <2>1 DEF Connect, SendStatus, Finish, Vanish, Untaken
<1>3. CASE TimesOut
  BY <1>1, <1>3 DEF TimesOut, Untaken
<1>4. CASE TravelSend
  <2> DEFINE f == apsock[tap]
             c == IF f \in Fd THEN file[f] ELSE NoConn
             was == IF c = NoConn THEN "closed" ELSE peer[c]
  <2>1. \A w \in DOMAIN AfterSend : AfterSend[w] \notin {"unused", "backlog"}
    BY DEF AfterSend
  <2>2. IF was \in DOMAIN AfterSend THEN peer' = [peer EXCEPT ![c] = AfterSend[was]]
        ELSE peer' = peer
    BY <1>4 DEF TravelSend
  <2> HIDE DEF c, was
  <2> QED
    BY <1>1, <2>1, <2>2 DEF Untaken
<1>5. CASE ReadEnd
  <2>1. peer' = peer \/ peer' = [c \in Conn |-> IF file[nfd] = c /\ peer[c] = "timeout"
                                              THEN "dead" ELSE peer[c]]
    BY <1>5 DEF ReadEnd
  <2> QED
    BY <1>1, <2>1 DEF Untaken
<1> QED
  BY <1>2, <1>3, <1>4, <1>5

\* Every step keeps the nodes where they belong.
LEMMA NextPlaces == ASSUME Ownership, [Next]_vars PROVE Places'
<1>1. CASE Peers \/ TimesOut \/ TravelSend \/ ReadEnd
  <2>1. UNCHANGED <<file, epoll, nodes, accept, closing>>
    <3>1. CASE Peers
      BY <3>1 DEF Peers, Connect, SendStatus, Finish, Vanish
    <3>2. CASE TimesOut \/ TravelSend \/ ReadEnd
      BY <3>2 DEF TimesOut, TravelSend, ReadEnd
    <3> QED
      BY <1>1, <3>1, <3>2
  <2> QED
    BY <1>1, <2>1, NoneUntaken, PlacesFrame DEF Ownership
<1>2. CASE Wait \/ NextEvent \/ NoMemory \/ ReadData \/ TravelTake \/ TravelNoMemory
           \/ UNCHANGED vars
  <2>1. UNCHANGED <<peer, file, epoll, nodes, accept, closing>>
    BY <1>2 DEF Wait, NextEvent, NoMemory, ReadData, TravelTake, TravelNoMemory, kernel, vars
  <2>2. \A c \in Conn : Untaken(c)' => Untaken(c)
    BY <2>1 DEF Untaken
  <2> QED
    BY <2>1, <2>2, PlacesFrame DEF Ownership
<1>3. CASE Accept \/ EpollAdd \/ Link
  BY <1>3, AcceptPlaces, EpollAddPlaces, LinkPlaces
<1>4. CASE Lost
  <2>1. closing["net_recv"] = NoConn /\ "net_recv" \in Thread
    BY <1>4 DEF Lost, Ownership, NotClosing, Thread
  <2>2. UNCHANGED <<peer, file, epoll, freed, sock, accept>>
    BY <1>4 DEF Lost, kernel
  <2>3. CASE InList(nfd)
    <3>1. Unlink("net_recv", nfd)
      BY <1>4, <2>3 DEF Lost
    <3> QED
      BY <2>1, <2>2, <2>3, <3>1, UnlinkPlaces
  <2>4. CASE ~InList(nfd)
    <3>1. UNCHANGED <<peer, file, epoll, nodes, accept, closing>>
      BY <1>4, <2>2, <2>4 DEF Lost, nodes
    <3>2. \A c \in Conn : Untaken(c)' => Untaken(c)
      BY <3>1 DEF Untaken
    <3> QED
      BY <3>1, <3>2, PlacesFrame DEF Ownership
  <2> QED
    BY <2>3, <2>4
<1>5. CASE TravelLost
  <2>1. closing["message_travel"] = NoConn /\ "message_travel" \in Thread
    BY <1>5 DEF TravelLost, Ownership, NotClosing, Thread
  <2>2. UNCHANGED <<peer, file, epoll, freed, sock, accept>>
    BY <1>5 DEF TravelLost, kernel
  <2>3. CASE InList(apsock[tap])
    <3>1. Unlink("message_travel", apsock[tap])
      BY <1>5, <2>3 DEF TravelLost
    <3> QED
      BY <2>1, <2>2, <2>3, <3>1, UnlinkPlaces
  <2>4. CASE ~InList(apsock[tap])
    <3>1. UNCHANGED <<peer, file, epoll, nodes, accept, closing>>
      BY <1>5, <2>2, <2>4 DEF TravelLost, nodes
    <3>2. \A c \in Conn : Untaken(c)' => Untaken(c)
      BY <3>1 DEF Untaken
    <3> QED
      BY <3>1, <3>2, PlacesFrame DEF Ownership
  <2> QED
    BY <2>3, <2>4
<1>6. CASE CloseSock("net_recv") \/ CloseSock("message_travel")
  BY <1>6, CloseSockPlaces DEF Thread
<1> QED
  BY <1>1, <1>2, <1>3, <1>4, <1>5, <1>6 DEF Next, NetListen, NetRecv, Travel

\* What epoll reports has a descriptor (epoll_wait returns what was added).
LEMMA NextSocksSet == ASSUME Ownership, [Next]_vars PROVE SocksSet'
<1>1. CASE Accept
  <2>1. PICK c \in Conn, f \in Fd : sock' = [sock EXCEPT ![c] = f]
    BY <1>1 DEF Accept
  <2>2. UNCHANGED <<epoll, events, npc, nfd>>
    BY <1>1 DEF Accept, recv
  <2>3. \A d \in Conn : sock[d] \in Fd => sock'[d] \in Fd
    BY <2>1 DEF Ownership, TypeOK
  <2>4. epoll \subseteq Conn /\ \A e \in events : e.conn \in Conn
    BY DEF Ownership, TypeOK
  <2> QED
    BY <2>2, <2>3, <2>4 DEF Ownership, SocksSet
<1>2. CASE EpollAdd
  <2>1. sock[acc] \in Fd
    BY <1>2 DEF EpollAdd, Ownership, Places, PendingOwns
  <2> QED
    BY <1>2, <2>1 DEF EpollAdd, Ownership, SocksSet, nodes, recv
<1>3. CASE Wait
  <2>1. ready \subseteq epoll /\ npc' = "next" /\ UNCHANGED <<epoll, sock>>
        /\ \A e \in events' : e.conn \in ready
    BY <1>3 DEF Wait, Ownership, TypeOK, nodes
  <2> QED
    BY <2>1 DEF Ownership, SocksSet
<1>4. CASE NextEvent
  <2>1. UNCHANGED <<epoll, sock>> /\ npc = "next"
    BY <1>4 DEF NextEvent, kernel, nodes
  <2>2. CASE events = {}
    BY <1>4, <2>1, <2>2 DEF NextEvent, Ownership, SocksSet
  <2>3. CASE events # {}
    <3>1. PICK e \in events : events' = events \ {e} /\ nfd' = sock[e.conn]
      BY <1>4, <2>3 DEF NextEvent
    <3> QED
      BY <2>1, <3>1 DEF Ownership, SocksSet
  <2> QED
    BY <2>2, <2>3
<1>5. CASE Lost \/ NoMemory \/ ReadData
  BY <1>5 DEF Lost, NoMemory, ReadData, Ownership, SocksSet, kernel, nodes
<1>6. CASE ReadEnd
  <2>1. UNCHANGED <<epoll, sock, events, nfd>> /\ npc = "read"
    BY <1>6 DEF ReadEnd, nodes
  <2> QED
    BY <2>1 DEF Ownership, SocksSet
<1>7. ASSUME NEW t \in Thread, CloseSock(t) PROVE SocksSet'
  BY <1>7 DEF CloseSock, Ownership, SocksSet, recv
<1>8. CASE Peers \/ TimesOut \/ Link \/ TravelTake \/ TravelNoMemory \/ TravelSend
           \/ TravelLost \/ UNCHANGED vars
  <2>1. UNCHANGED <<epoll, sock, npc, events, nfd>>
    <3>1. CASE Peers
      BY <3>1 DEF Peers, Connect, SendStatus, Finish, Vanish, nodes, recv
    <3>2. CASE ~Peers
      BY <1>8, <3>2 DEF TimesOut, Link, TravelTake, TravelNoMemory, TravelSend,
                        TravelLost, vars, kernel, nodes, recv
    <3> QED
      BY <3>1, <3>2
  <2> QED
    BY <2>1 DEF Ownership, SocksSet
<1> QED
  BY <1>1, <1>2, <1>3, <1>4, <1>5, <1>6, <1>7, <1>8
  DEF Next, NetListen, NetRecv, Travel, Thread

\* Neither thread drops a connection before it is done with the last one.
LEMMA NextNotClosing == ASSUME Ownership, [Next]_vars PROVE NotClosing'
<1>1. CASE NextEvent \/ TravelTake
  <2>1. CASE NextEvent
    BY <2>1 DEF NextEvent, Ownership, NotClosing, travel
  <2>2. CASE TravelTake
    BY <2>2 DEF TravelTake, Ownership, NotClosing, recv
  <2> QED
    BY <1>1, <2>1, <2>2
<1>2. CASE Lost
  <2>1. npc' = "next" /\ UNCHANGED tpc
    BY <1>2 DEF Lost, travel
  <2>2. closing'["message_travel"] = closing["message_travel"]
    <3>1. CASE InList(nfd)
      <4>1. Unlink("net_recv", nfd)
        BY <1>2, <3>1 DEF Lost
      <4>2. PICK c \in linked : closing' = [closing EXCEPT !["net_recv"] = c]
        BY <3>1, <4>1, UnlinkedNode
      <4> QED
        BY <4>2 DEF Ownership, TypeOK, Thread
    <3>2. CASE ~InList(nfd)
      BY <1>2, <3>2 DEF Lost
    <3> QED
      BY <3>1, <3>2
  <2> QED
    BY <2>1, <2>2 DEF Ownership, NotClosing
<1>3. CASE TravelLost
  <2>1. tpc' = "idle" /\ UNCHANGED npc
    BY <1>3 DEF TravelLost, recv
  <2>2. closing'["net_recv"] = closing["net_recv"]
    <3>1. CASE InList(apsock[tap])
      <4>1. Unlink("message_travel", apsock[tap])
        BY <1>3, <3>1 DEF TravelLost
      <4>2. PICK c \in linked : closing' = [closing EXCEPT !["message_travel"] = c]
        BY <3>1, <4>1, UnlinkedNode
      <4> QED
        BY <4>2 DEF Ownership, TypeOK, Thread
    <3>2. CASE ~InList(apsock[tap])
      BY <1>3, <3>2 DEF TravelLost
    <3> QED
      BY <3>1, <3>2
  <2> QED
    BY <2>1, <2>2 DEF Ownership, NotClosing
<1>4. ASSUME NEW t \in Thread, CloseSock(t) PROVE NotClosing'
  <2>1. UNCHANGED <<npc, tpc>> /\ closing' = [closing EXCEPT ![t] = NoConn]
    BY <1>4 DEF CloseSock, recv, travel
  <2>2. \A u \in Thread : closing[u] = NoConn => closing'[u] = NoConn
    BY <2>1 DEF Ownership, TypeOK
  <2> QED
    BY <2>1, <2>2 DEF Ownership, NotClosing, Thread
<1>5. CASE Wait \/ NoMemory \/ ReadData \/ ReadEnd \/ TravelSend \/ TravelNoMemory
  <2>1. UNCHANGED closing
        /\ (npc' \in {"read", "lost"} => npc \in {"read", "lost"})
        /\ (tpc' \in {"send", "lost"} => tpc \in {"send", "lost"})
    BY <1>5 DEF Wait, NoMemory, ReadData, ReadEnd, TravelSend, TravelNoMemory, recv, travel
  <2> QED
    BY <2>1 DEF Ownership, NotClosing
<1>6. CASE Peers \/ TimesOut \/ NetListen \/ UNCHANGED vars
  <2>1. UNCHANGED <<npc, tpc, closing>>
    BY <1>6 DEF Peers, TimesOut, NetListen, Accept, EpollAdd, Link, vars, recv, travel
  <2> QED
    BY <2>1 DEF Ownership, NotClosing
<1> QED
  BY <1>1, <1>2, <1>3, <1>4, <1>5, <1>6 DEF Next, NetRecv, Travel, Thread

-----------------------------------------------------------------------------
\* Ownership is an invariant of the AC's three threads (lib/link.c:85-205,
\* lib/netlayer.c:107-156, ac/process.c:72-104, 170-174).
THEOREM Invariance == Spec => []Ownership
<1>1. Ownership /\ [Next]_vars => Ownership'
  BY NextType, NextPlaces, NextSocksSet, NextNotClosing DEF Ownership
<1> QED
  BY InitOwnership, <1>1, PTL DEF Spec

\* The state of the AC's connections is well typed, whatever the numbers of APs,
\* connections and descriptors.
THEOREM TypeCorrect == Spec => []TypeOK
  BY Invariance, PTL DEF Ownership

\* A node that is dropped is unlinked, freed once, and closes the socket it was made
\* for, in delete_sockarr (lib/link.c:182-205) as both threads call it.
THEOREM OwnerTheorem == Spec => []NodeOwnsSocket
<1>1. Ownership => NodeOwnsSocket
  <2> SUFFICES ASSUME Ownership, NEW c \in Conn, NEW h \in Holders(c)
               PROVE  Holders(c) = {h} /\ c \notin freed /\ file[sock[c]] = c /\ c \in epoll
    BY DEF NodeOwnsSocket
  <2>1. Holding(c)
    BY DEF Holders, Holding
  <2>2. \A k \in Holders(c) : k = h
    BY DEF Holders, Ownership, Places, OneHolder, Thread
  <2> QED
    BY <2>1, <2>2 DEF Ownership, Places, HoldersOwn
<1> QED
  BY <1>1, Invariance, PTL

-----------------------------------------------------------------------------
(* Data and their events (NoEdgeLost).                                     *)

\* A descriptor stands for the connection it was made for, which the AC has
\* accepted; a connection in epoll has its descriptor.
FileOwned(f) == file[f] # NoConn => sock[file[f]] = f /\ ~Untaken(file[f])
FilesOwned ==
    /\ \A f \in Fd : FileOwned(f)
    /\ \A c \in epoll : file[sock[c]] = c /\ ~Untaken(c)

\* net_recv waits when it has handled every event, and takes no end for what has none.
EventsTrue ==
    /\ npc = "wait" => events = {}
    /\ \A e \in events : e.end => Over(e.conn)

EdgeInv == Ownership /\ FilesOwned /\ EventsTrue /\ NoEdgeLost

\* A connection with data on which the AP is up, and where the event for it is.
Waiting(c) == c \in epoll /\ unread[c] > 0 /\ peer[c] = "up"
Awaited(c) ==
    \/ c \in ready \/ c \in spent
    \/ \E e \in events : e.conn = c
    \/ npc = "read" /\ nfd = sock[c]
    \/ \E t \in Thread : closing[t] = c

LEMMA EdgeMeans == NoEdgeLost <=> \A c \in epoll : Waiting(c) => fault # "none" \/ Awaited(c)
  BY DEF NoEdgeLost, Waiting, Awaited

LEMMA EdgeShown ==
    ASSUME \A c \in epoll' : Waiting(c)' => fault' # "none" \/ Awaited(c)'
    PROVE  NoEdgeLost'
  BY DEF NoEdgeLost, Waiting, Awaited

\* A step that makes no connection wait and takes no event away.
LEMMA EdgeFrame ==
    ASSUME EdgeInv,
           \A c \in Conn : Waiting(c)' => Waiting(c),
           \A c \in Conn : Awaited(c) => Awaited(c)',
           fault' = "none" => fault = "none", epoll' \subseteq Conn
    PROVE  NoEdgeLost'
<1> SUFFICES ASSUME NEW c \in epoll', Waiting(c)', fault' = "none" PROVE Awaited(c)'
  BY EdgeShown
<1>1. c \in epoll /\ Waiting(c)
  BY DEF Waiting
<1> QED
  BY <1>1, EdgeMeans DEF EdgeInv

LEMMA InitEdgeInv == Init => EdgeInv
  BY InitOwnership DEF Init, EdgeInv, FilesOwned, FileOwned, EventsTrue, NoEdgeLost

\* Nothing revives a connection that is over.
LEMMA OverStays == ASSUME Ownership, [Next]_vars PROVE \A c \in Conn : Over(c) => Over(c)'
<1>1. peer \in [Conn -> PeerState]
  BY DEF Ownership, TypeOK
<1>2. CASE Peers
  <2>1. PICK c \in Conn : Connect(c) \/ SendStatus(c) \/ Finish(c) \/ Vanish(c)
    BY <1>2 DEF Peers
  <2> QED
    BY <1>1, <2>1 DEF Connect, SendStatus, Finish, Vanish, Over
<1>3. CASE TimesOut \/ Accept
  BY <1>1, <1>3 DEF TimesOut, Accept, Over
<1>4. CASE TravelSend
  <2> DEFINE f == apsock[tap]
             c == IF f \in Fd THEN file[f] ELSE NoConn
             was == IF c = NoConn THEN "closed" ELSE peer[c]
  <2>1. \A w \in DOMAIN AfterSend :
          w = "gone" \/ AfterSend[w] \in {"fin", "rst", "timeout", "dead", "done", "cut"}
    BY DEF AfterSend
  <2>2. IF was \in DOMAIN AfterSend THEN peer' = [peer EXCEPT ![c] = AfterSend[was]]
        ELSE peer' = peer
    BY <1>4 DEF TravelSend
  <2>3. c # NoConn => was = peer[c]
    OBVIOUS
  <2>4. c \in Conn \/ c = NoConn
    BY DEF Ownership, TypeOK
  <2> HIDE DEF c, was
  <2> SUFFICES ASSUME NEW d \in Conn, Over(d) PROVE Over(d)'
    OBVIOUS
  <2>5. CASE was \in DOMAIN AfterSend /\ d = c
    <3>1. was = peer[d] /\ peer'[d] = AfterSend[was] /\ was # "gone"
      BY <1>1, <2>2, <2>3, <2>5, AcConnAssumption DEF Over
    <3> QED
      BY <2>1, <2>5, <3>1 DEF Over
  <2>6. CASE ~(was \in DOMAIN AfterSend /\ d = c)
    BY <1>1, <2>2, <2>6 DEF Over
  <2> QED
    BY <2>5, <2>6
<1>5. CASE ReadEnd
  <2>1. peer' = peer \/ peer' = [c \in Conn |-> IF file[nfd] = c /\ peer[c] = "timeout"
                                              THEN "dead" ELSE peer[c]]
    BY <1>5 DEF ReadEnd
  <2> QED
    BY <1>1, <2>1 DEF Over
<1>6. ASSUME NEW t \in Thread, CloseSock(t) PROVE \A c \in Conn : Over(c) => Over(c)'
  BY <1>6 DEF CloseSock, Over
<1>7. CASE EpollAdd \/ Link \/ Wait \/ NextEvent \/ Lost \/ NoMemory \/ ReadData \/ TravelTake
           \/ TravelNoMemory \/ TravelLost \/ UNCHANGED vars
  BY <1>7 DEF EpollAdd, Link, Wait, NextEvent, Lost, NoMemory, ReadData, TravelTake,
              TravelNoMemory, TravelLost, vars, kernel, Over
<1> QED
  BY <1>2, <1>3, <1>4, <1>5, <1>6, <1>7 DEF Next, NetListen, NetRecv, Travel, Thread

\* epoll_wait takes only ends that are there, and net_recv calls it only when it has
\* handled what it took before.
LEMMA NextEventsTrue == ASSUME Ownership, EventsTrue, [Next]_vars PROVE EventsTrue'
<1>1. \A e \in events : e.conn \in Conn
  BY DEF Ownership, TypeOK
<1>2. CASE Wait
  <2>1. \A e \in events' : e.end => Over(e.conn)
    <3> SUFFICES ASSUME NEW e \in events', e.end PROVE Over(e.conn)
      OBVIOUS
    <3>1. PICK c \in ready : e = [conn |-> c, end |-> Ended(c)]
      BY <1>2 DEF Wait
    <3> QED
      BY <3>1 DEF Ended, Over
  <2>2. UNCHANGED peer /\ npc' = "next"
    BY <1>2 DEF Wait
  <2> QED
    BY <2>1, <2>2 DEF EventsTrue, Over
<1>3. CASE ~Wait
  <2>1. events' \subseteq events /\ (npc' = "wait" => events' = {})
    <3>1. CASE NextEvent
      <4>1. CASE events = {}
        BY <1>3, <3>1, <4>1 DEF NextEvent
      <4>2. CASE events # {}
        <5>1. PICK e \in events :
                /\ events' = events \ {e}
                /\ IF e.conn \in freed THEN fault' = "use after free" /\ UNCHANGED npc
                   ELSE npc' = (IF e.end THEN "lost" ELSE "read") /\ UNCHANGED fault
          BY <3>1, <4>2 DEF NextEvent
        <5>2. npc = "next"
          BY <3>1 DEF NextEvent
        <5>3. npc' # "wait"
          <6>1. CASE e.conn \in freed
            BY <5>1, <5>2, <6>1
          <6>2. CASE e.conn \notin freed
            <7>1. npc' = IF e.end THEN "lost" ELSE "read"
              BY <5>1, <6>2
            <7> QED
              BY <7>1
          <6> QED
            BY <6>1, <6>2
        <5> QED
          BY <5>1, <5>3
      <4> QED
        BY <4>1, <4>2
    <3>2. CASE Lost \/ NoMemory \/ ReadData
      BY <3>2 DEF Lost, NoMemory, ReadData
    <3>3. CASE ReadEnd
      BY <3>3 DEF ReadEnd, Message
    <3>4. ASSUME NEW t \in Thread, CloseSock(t) PROVE UNCHANGED <<events, npc>>
      BY <3>4 DEF CloseSock, recv
    <3>5. CASE Peers \/ TimesOut \/ NetListen \/ TravelTake \/ TravelNoMemory
               \/ TravelSend \/ TravelLost \/ UNCHANGED vars
      BY <3>5 DEF Peers, TimesOut, NetListen, Accept, EpollAdd, Link, TravelTake,
                  TravelNoMemory, TravelSend, TravelLost, vars, recv, EventsTrue
    <3> QED
      BY <1>3, <3>1, <3>2, <3>3, <3>4, <3>5 DEF Next, NetRecv, Travel, Thread, EventsTrue
  <2> QED
    BY <1>1, <2>1, OverStays DEF EventsTrue
<1> QED
  BY <1>2, <1>3

\* Descriptors keep the connection they were made for, until it is closed.
LEMMA NextFilesOwned == ASSUME Ownership, FilesOwned, [Next]_vars PROVE FilesOwned'
<1>1. file \in [Fd -> Conn \cup {NoConn}] /\ sock \in [Conn -> Fd \cup {0}] /\ epoll \subseteq Conn
      /\ peer \in [Conn -> PeerState]
  BY DEF Ownership, TypeOK
<1>2. CASE Peers \/ TimesOut \/ TravelSend \/ ReadEnd
  <2>1. UNCHANGED <<file, epoll, sock>>
    <3>1. CASE Peers
      BY <3>1 DEF Peers, Connect, SendStatus, Finish, Vanish, nodes
    <3>2. CASE ~Peers
      BY <1>2, <3>2 DEF TimesOut, TravelSend, ReadEnd, nodes
    <3> QED
      BY <3>1, <3>2
  <2>2. \A c \in Conn : Untaken(c)' => Untaken(c)
    BY <1>2, NoneUntaken
  <2>3. \A g \in Fd : FileOwned(g)'
    <3> SUFFICES ASSUME NEW g \in Fd, file[g] # NoConn PROVE FileOwned(g)'
      BY <2>1 DEF FileOwned
    <3>1. file[g] \in Conn /\ FileOwned(g)
      BY <1>1 DEF FilesOwned
    <3> QED
      BY <2>1, <2>2, <3>1 DEF FileOwned, Untaken
  <2>4. \A d \in epoll' : file'[sock'[d]] = d /\ ~Untaken(d)'
    BY <1>1, <2>1, <2>2 DEF FilesOwned
  <2> QED
    BY <2>3, <2>4 DEF FilesOwned
<1>3. CASE Accept
  <2>1. PICK c \in Conn, f \in Fd :
          /\ peer[c] = "backlog" /\ file[f] = NoConn
          /\ peer' = [peer EXCEPT ![c] = "up"]
          /\ file' = [file EXCEPT ![f] = c] /\ sock' = [sock EXCEPT ![c] = f]
    BY <1>3 DEF Accept
  <2>2. epoll' = epoll /\ Untaken(c) /\ \A d \in Conn : Untaken(d)' => Untaken(d) /\ d # c
    BY <1>1, <1>3, <2>1 DEF Accept, Untaken
  <2>3. \A g \in Fd : FileOwned(g)'
    <3> SUFFICES ASSUME NEW g \in Fd, file'[g] # NoConn
                 PROVE  FileOwned(g)'
      BY DEF FileOwned
    <3>1. CASE g = f
      <4>1. file'[g] = c /\ sock'[c] = f
        BY <1>1, <2>1, <3>1
      <4>2. ~Untaken(c)'
        BY <2>2
      <4> QED
        BY <3>1, <4>1, <4>2 DEF FileOwned, Untaken
    <3>2. CASE g # f
      <4>1. file'[g] = file[g] /\ file[g] \in Conn /\ file[g] # c /\ FileOwned(g)
        BY <1>1, <2>1, <2>2, <3>2 DEF FilesOwned, FileOwned
      <4>2. sock'[file[g]] = sock[file[g]]
        BY <1>1, <2>1, <4>1
      <4>3. ~Untaken(file[g])
        BY <4>1 DEF FileOwned
      <4> QED
        BY <1>1, <2>1, <2>2, <4>1, <4>2, <4>3 DEF FileOwned, Untaken
    <3> QED
      BY <3>1, <3>2
  <2>4. \A d \in epoll' : file'[sock'[d]] = d /\ ~Untaken(d)'
    <3> SUFFICES ASSUME NEW d \in epoll PROVE file'[sock'[d]] = d /\ ~Untaken(d)'
      BY <2>2
    <3>1. d \in Conn /\ d # c /\ file[sock[d]] = d /\ sock[d] \in Fd
      BY <1>1, <2>2 DEF FilesOwned, Ownership, SocksSet
    <3>2. sock'[d] = sock[d] /\ sock[d] # f
      BY <1>1, <2>1, <3>1
    <3> QED
      BY <1>1, <2>1, <2>2, <3>1, <3>2 DEF FilesOwned
  <2> QED
    BY <2>3, <2>4 DEF FilesOwned
<1>4. CASE EpollAdd
  <2>1. acc \in Conn /\ file[sock[acc]] = acc /\ ~Untaken(acc)
    BY <1>4 DEF EpollAdd, Ownership, Places, PendingOwns, UntakenFree
  <2>2. epoll' = epoll \cup {acc} /\ UNCHANGED <<file, sock, peer>>
    BY <1>4 DEF EpollAdd, nodes
  <2> QED
    BY <2>1, <2>2 DEF FilesOwned, FileOwned, Untaken
<1>5. ASSUME NEW t \in Thread, CloseSock(t) PROVE FilesOwned'
  <2> DEFINE k == closing[t]
             f == sock[k]
  <2>1. k \in Conn /\ file[f] = k /\ f \in Fd
    BY <1>5 DEF CloseSock, Ownership, TypeOK, Places, HoldersOwn, Holding, SocksSet
  <2>2. /\ file' = [file EXCEPT ![f] = NoConn] /\ epoll' = epoll \ {k}
        /\ peer' = [d \in Conn |-> IF d # k THEN peer[d]
                              ELSE IF peer[d] = "up" THEN "cut" ELSE "done"] /\ UNCHANGED sock
    BY <1>5, <2>1 DEF CloseSock
  <2>3. \A d \in Conn : Untaken(d)' => Untaken(d)
    BY <2>2 DEF Untaken
  <2> HIDE DEF f, k
  <2>4. \A g \in Fd : FileOwned(g)'
    <3> SUFFICES ASSUME NEW g \in Fd, file'[g] # NoConn
                 PROVE  FileOwned(g)'
      BY DEF FileOwned
    <3>1. file'[g] = file[g] /\ file[g] \in Conn /\ FileOwned(g)
      BY <1>1, <2>1, <2>2 DEF FilesOwned
    <3> QED
      BY <2>2, <2>3, <3>1 DEF FileOwned, Untaken
  <2>5. \A d \in epoll' : file'[sock'[d]] = d /\ ~Untaken(d)'
    <3> SUFFICES ASSUME NEW d \in epoll, d # k PROVE file'[sock[d]] = d /\ ~Untaken(d)'
      BY <2>2
    <3>1. d \in Conn /\ file[sock[d]] = d /\ sock[d] \in Fd /\ sock[d] # f
      BY <1>1, <2>1 DEF FilesOwned, Ownership, SocksSet
    <3> QED
      BY <1>1, <2>2, <2>3, <3>1 DEF FilesOwned
  <2> QED
    BY <2>4, <2>5 DEF FilesOwned
<1>6. CASE Link \/ Wait \/ NextEvent \/ Lost \/ NoMemory \/ ReadData \/ TravelTake
           \/ TravelNoMemory \/ TravelLost \/ UNCHANGED vars
  <2>1. UNCHANGED <<file, epoll, sock, peer>>
    BY <1>6 DEF Link, Wait, NextEvent, Lost, NoMemory, ReadData, TravelTake,
                TravelNoMemory, TravelLost, vars, kernel, nodes
  <2> QED
    BY <2>1 DEF FilesOwned, FileOwned, Untaken
<1> QED
  BY <1>2, <1>3, <1>4, <1>5, <1>6 DEF Next, NetListen, NetRecv, Travel, Thread

\* The APs and the kernel: what comes on a registered connection is an event.
LEMMA PeersEdges == ASSUME EdgeInv, Peers \/ TimesOut PROVE NoEdgeLost'
<1>1. peer \in [Conn -> PeerState] /\ unread \in [Conn -> Nat] /\ epoll \subseteq Conn
  BY DEF EdgeInv, Ownership, TypeOK
<1>2. UNCHANGED <<sock, recv, closing, fault, history, epoll>>
  <2>1. CASE Peers
    BY <2>1 DEF Peers, Connect, SendStatus, Finish, Vanish, nodes
  <2>2. CASE TimesOut
    BY <2>2 DEF TimesOut, nodes
  <2> QED
    BY <2>1, <2>2
<1>3. ready \subseteq ready'
  <2>1. CASE Peers
    BY <2>1 DEF Peers, Connect, SendStatus, Finish, Vanish, Edge
  <2>2. CASE TimesOut
    BY <2>2 DEF TimesOut, Edge
  <2> QED
    BY <2>1, <2>2
<1>4. \A c \in Conn : Awaited(c) => Awaited(c)'
  BY <1>2, <1>3 DEF Awaited, recv, history
<1>5. CASE \E c \in Conn : SendStatus(c)
  <2>1. PICK c \in Conn : SendStatus(c)
    BY <1>5
  <2>2. c \in epoll => c \in ready'
    BY <2>1 DEF SendStatus, Edge
  <2>3. \A d \in Conn : d # c => (Waiting(d)' => Waiting(d))
    BY <1>1, <1>2, <2>1 DEF SendStatus, Waiting
  <2> SUFFICES ASSUME NEW d \in epoll', Waiting(d)', fault' = "none" PROVE Awaited(d)'
    BY EdgeShown
  <2>4. CASE d = c
    BY <1>2, <2>2, <2>4 DEF Awaited
  <2>5. CASE d # c
    <3>1. d \in epoll /\ Waiting(d) /\ fault = "none"
      BY <1>1, <1>2, <2>3, <2>5
    <3> QED
      BY <1>1, <1>4, <3>1, EdgeMeans DEF EdgeInv
  <2> QED
    BY <2>4, <2>5
<1>6. CASE ~\E c \in Conn : SendStatus(c)
  <2>1. \A c \in Conn : Waiting(c)' => Waiting(c)
    <3>1. CASE Peers
      <4>1. PICK c \in Conn : Connect(c) \/ Finish(c) \/ Vanish(c)
        BY <1>6, <3>1 DEF Peers
      <4> QED
        BY <1>1, <4>1 DEF Connect, Finish, Vanish, Waiting
    <3>2. CASE TimesOut
      BY <1>1, <3>2 DEF TimesOut, Waiting
    <3> QED
      BY <3>1, <3>2
  <2> QED
    BY <1>1, <1>2, <1>4, <2>1, EdgeFrame
<1> QED
  BY <1>5, <1>6

\* net_netlisten: EPOLL_CTL_ADD reports the data that came before it.
LEMMA NetListenEdges == ASSUME EdgeInv, NetListen PROVE NoEdgeLost'
<1>1. /\ peer \in [Conn -> PeerState] /\ sock \in [Conn -> Fd \cup {0}]
      /\ epoll \subseteq Conn /\ ready \subseteq Conn
  BY DEF EdgeInv, Ownership, TypeOK
<1>2. CASE Accept
  <2>1. PICK c \in Conn, f \in Fd :
          /\ peer[c] = "backlog" /\ peer' = [peer EXCEPT ![c] = "up"]
          /\ sock' = [sock EXCEPT ![c] = f]
    BY <1>2 DEF Accept
  <2>2. UNCHANGED <<unread, epoll, ready, recv, closing, fault, history>>
    BY <1>2 DEF Accept
  <2>3. c \notin epoll
    BY <2>1 DEF EdgeInv, FilesOwned, Untaken
  <2> SUFFICES ASSUME NEW d \in epoll', Waiting(d)', fault' = "none" PROVE Awaited(d)'
    BY EdgeShown
  <2>4. d \in epoll /\ d # c /\ peer'[d] = peer[d] /\ sock'[d] = sock[d]
    BY <1>1, <2>1, <2>2, <2>3
  <2>5. Awaited(d)
    BY <2>2, <2>4, EdgeMeans DEF EdgeInv, Waiting
  <2> QED
    BY <2>2, <2>4, <2>5 DEF Awaited, recv, history
<1>3. CASE EpollAdd
  <2>1. /\ epoll' = epoll \cup {acc} /\ ready \subseteq ready'
        /\ (unread[acc] > 0 => acc \in ready')
        /\ UNCHANGED <<peer, unread, sock, recv, closing, fault, history>>
    BY <1>3 DEF EpollAdd, nodes
  <2> SUFFICES ASSUME NEW d \in epoll', Waiting(d)', fault' = "none" PROVE Awaited(d)'
    BY EdgeShown
  <2>2. CASE d = acc
    BY <2>1, <2>2 DEF Waiting, Awaited
  <2>3. CASE d # acc
    <3>1. d \in epoll /\ Awaited(d)
      BY <2>1, <2>3, EdgeMeans DEF EdgeInv, Waiting
    <3> QED
      BY <2>1, <3>1 DEF Awaited, recv, history
  <2> QED
    BY <2>2, <2>3
<1>4. CASE Link
  <2>1. UNCHANGED <<kernel, sock, recv, closing, fault, history>>
    BY <1>4 DEF Link
  <2> QED
    BY <1>1, <2>1, EdgeFrame DEF Waiting, Awaited, kernel, recv, history
<1> QED
  BY <1>2, <1>3, <1>4 DEF NetListen

\* The node that a thread takes out of the list is on its way to be closed.
LEMMA UnlinkEdges ==
    ASSUME EdgeInv, NEW t \in Thread, closing[t] = NoConn, NEW f,
           IF InList(f) THEN Unlink(t, f) ELSE UNCHANGED <<closing, linked>>
    PROVE  \A c \in Conn, u \in Thread : closing[u] = c => closing'[u] = c
<1>1. CASE InList(f)
  <2>1. PICK c \in linked : closing' = [closing EXCEPT ![t] = c]
    BY <1>1, UnlinkedNode
  <2> QED
    BY <2>1 DEF EdgeInv, Ownership, TypeOK
<1>2. CASE ~InList(f)
  BY <1>2
<1> QED
  BY <1>1, <1>2

\* delete_sockarr closes the connection of its own node, which is not waited for then.
LEMMA CloseSockEdges == ASSUME EdgeInv, NEW t \in Thread, CloseSock(t) PROVE NoEdgeLost'
<1> DEFINE k == closing[t]
<1>1. k \in Conn /\ file[sock[k]] = k
  BY DEF CloseSock, EdgeInv, Ownership, TypeOK, Places, HoldersOwn, Holding
<1>2. /\ epoll' = epoll \ {k} /\ ready' = ready \ {k}
      /\ peer' = [d \in Conn |-> IF d # k THEN peer[d]
                              ELSE IF peer[d] = "up" THEN "cut" ELSE "done"]
      /\ closing' = [closing EXCEPT ![t] = NoConn]
      /\ UNCHANGED <<unread, sock, recv, fault, history>>
  BY <1>1 DEF CloseSock
<1> SUFFICES ASSUME NEW d \in epoll', Waiting(d)', fault' = "none" PROVE Awaited(d)'
  BY EdgeShown
<1>3. d \in epoll /\ d \in Conn /\ d # k
  BY <1>2 DEF EdgeInv, Ownership, TypeOK
<1>4. Awaited(d)
  BY <1>2, <1>3, EdgeMeans DEF EdgeInv, Waiting
<1>5. \A u \in Thread : closing[u] = d => closing'[u] = d
  BY <1>2, <1>3 DEF EdgeInv, Ownership, TypeOK
<1> QED
  BY <1>2, <1>3, <1>4, <1>5 DEF Awaited, recv, history

\* net_recv: epoll_wait fetches the events of all that wait; a socket with data is
\* read until it has none, or runs out of room and trips the assertion.
LEMMA NetRecvEdges == ASSUME EdgeInv, NetRecv PROVE NoEdgeLost'
<1>1. /\ epoll \subseteq Conn /\ ready \subseteq epoll /\ unread \in [Conn -> Nat]
      /\ file \in [Fd -> Conn \cup {NoConn}] /\ sock \in [Conn -> Fd \cup {0}]
  BY DEF EdgeInv, Ownership, TypeOK
<1>2. \A c \in epoll : Waiting(c) /\ fault = "none" => Awaited(c)
  BY EdgeMeans DEF EdgeInv
<1>3. \A c \in epoll : sock[c] \in Fd /\ file[sock[c]] = c
  BY DEF EdgeInv, FilesOwned, Ownership, SocksSet
<1>4. CASE Wait
  <2>1. UNCHANGED <<peer, unread, epoll, sock, closing, fault, history>> /\ fault = "none"
        /\ npc = "wait"
    BY <1>4 DEF Wait, nodes
  <2> SUFFICES ASSUME NEW c \in epoll, Waiting(c), Awaited(c) PROVE Awaited(c)'
    BY <1>2, <2>1, EdgeShown DEF Waiting
  <2>2. CASE c \in ready
    <3> DEFINE e == [conn |-> c, end |-> Ended(c)]
    <3>1. e \in events' /\ e.conn = c
      BY <1>4, <2>2 DEF Wait, Waiting
    <3> HIDE DEF e
    <3> QED
      BY <3>1 DEF Awaited
  <2>3. CASE c \notin ready
    <3>1. c \in spent \/ \E t \in Thread : closing[t] = c
      BY <2>1, <2>3 DEF Awaited, EdgeInv, EventsTrue
    <3> QED
      BY <2>1, <3>1 DEF Awaited, history
  <2> QED
    BY <2>2, <2>3
<1>5. CASE NextEvent
  <2>1. UNCHANGED <<peer, unread, epoll, ready, sock, closing, history>> /\ fault = "none"
        /\ npc = "next"
    BY <1>5 DEF NextEvent, kernel, nodes
  <2> SUFFICES ASSUME NEW c \in epoll, Waiting(c), Awaited(c), fault' = "none"
               PROVE  Awaited(c)'
    BY <1>2, <2>1, EdgeShown DEF Waiting
  <2>2. CASE c \in ready \/ c \in spent \/ \E t \in Thread : closing[t] = c
    BY <2>1, <2>2 DEF Awaited, history
  <2>3. CASE \E e \in events : e.conn = c
    <3>1. PICK d \in events :
            /\ events' = events \ {d} /\ nfd' = sock[d.conn]
            /\ IF d.conn \in freed THEN fault' = "use after free" /\ UNCHANGED npc
               ELSE npc' = (IF d.end THEN "lost" ELSE "read") /\ UNCHANGED fault
      BY <1>5, <2>3 DEF NextEvent
    <3>2. CASE d.conn = c
      <4>1. ~d.end
        BY <3>2 DEF EdgeInv, EventsTrue, Over, Waiting
      <4>2. d.conn \notin freed
        BY <3>1
      <4>3. npc' = IF d.end THEN "lost" ELSE "read"
        BY <3>1, <4>2
      <4> QED
        BY <2>1, <3>1, <3>2, <4>1, <4>3 DEF Awaited
    <3>3. CASE d.conn # c
      BY <2>3, <3>1, <3>3 DEF Awaited
    <3> QED
      BY <3>2, <3>3
  <2> QED
    BY <2>1, <2>2, <2>3 DEF Awaited
<1>6. CASE Lost
  <2>1. UNCHANGED <<kernel, events, nfd, sock, fault, history>> /\ npc = "lost"
    BY <1>6 DEF Lost
  <2>2. closing["net_recv"] = NoConn /\ "net_recv" \in Thread
    BY <1>6 DEF Lost, EdgeInv, Ownership, NotClosing, Thread
  <2>3. IF InList(nfd) THEN Unlink("net_recv", nfd) ELSE UNCHANGED <<closing, linked>>
    BY <1>6 DEF Lost
  <2>4. \A c \in Conn, u \in Thread : closing[u] = c => closing'[u] = c
    BY <2>2, <2>3, UnlinkEdges
  <2>5. \A c \in Conn : Awaited(c) => Awaited(c)'
    BY <2>1, <2>4 DEF Awaited, kernel, history
  <2> QED
    BY <1>1, <2>1, <2>5, EdgeFrame DEF Waiting, kernel
<1>7. CASE NoMemory
  <2>1. UNCHANGED <<kernel, events, nfd, sock, closing, fault>> /\ spent \subseteq spent'
        /\ \A c \in Conn : file[nfd] = c /\ unread[c] > 0 => c \in spent'
    BY <1>7 DEF NoMemory, nodes
  <2> SUFFICES ASSUME NEW c \in epoll, Waiting(c), Awaited(c) PROVE Awaited(c)'
    BY <1>2, <1>7, <2>1, EdgeShown DEF Waiting, kernel, NoMemory
  <2>2. nfd = sock[c] => c \in spent'
    BY <1>1, <1>3, <2>1 DEF Waiting
  <2> QED
    BY <2>1, <2>2 DEF Awaited, kernel
<1>8. CASE ReadData
  <2> DEFINE d == file[nfd]
             n == got + unread[d]
  <2>1. d \in Conn /\ nfd \in Fd /\ sock[d] = nfd
    <3>1. npc = "read" /\ d # NoConn
      BY <1>8 DEF ReadData
    <3>2. nfd \in Fd
      BY <3>1 DEF EdgeInv, Ownership, SocksSet
    <3> QED
      BY <1>1, <3>1, <3>2 DEF EdgeInv, FilesOwned, FileOwned
  <2>2. /\ UNCHANGED <<peer, epoll, ready, sock, closing, npc, events, nfd, fault>>
        /\ npc = "read" /\ fault = "none" /\ spent' = spent \ {d}
        /\ unread' = [unread EXCEPT ![d] = IF n > Room THEN n - Room ELSE 0]
    BY <1>8 DEF ReadData, nodes
  <2> HIDE DEF d, n
  <2> SUFFICES ASSUME NEW c \in epoll, Waiting(c)' PROVE Awaited(c)'
    BY <2>2, EdgeShown
  <2>3. CASE c = d
    BY <2>1, <2>2, <2>3 DEF Awaited
  <2>4. CASE c # d
    <3>1. Waiting(c)
      BY <1>1, <2>1, <2>2, <2>4 DEF Waiting
    <3> QED
      BY <1>2, <2>2, <2>4, <3>1 DEF Awaited
  <2> QED
    BY <2>3, <2>4
<1>9. CASE ReadEnd
  <2>1. UNCHANGED <<unread, epoll, ready, sock, closing, events, nfd, history>>
        /\ fault = "none" /\ npc = "read"
    BY <1>9 DEF ReadEnd, nodes
  <2>2. CASE fault' = "assert"
    BY <2>2 DEF NoEdgeLost
  <2>3. CASE /\ \A c \in Conn : file[nfd] = c => unread[c] = 0 /\ ~RecvZero(c)
             /\ peer' = [c \in Conn |-> IF file[nfd] = c /\ peer[c] = "timeout" THEN "dead"
                                        ELSE peer[c]]
    <3> SUFFICES ASSUME NEW c \in epoll, Waiting(c)' PROVE Awaited(c)'
      BY <2>1, EdgeShown
    <3>1. Waiting(c)
      BY <1>1, <2>1, <2>3 DEF Waiting
    <3>2. nfd # sock[c]
      BY <1>1, <1>3, <2>3, <3>1 DEF Waiting
    <3> QED
      BY <1>2, <2>1, <3>1, <3>2 DEF Awaited, history
  <2> QED
    BY <1>9, <2>2, <2>3 DEF ReadEnd
<1>10. CASE CloseSock("net_recv")
  BY <1>10, CloseSockEdges DEF Thread
<1> QED
  BY <1>4, <1>5, <1>6, <1>7, <1>8, <1>9, <1>10 DEF NetRecv

\* message_travel reads nothing.
LEMMA TravelEdges == ASSUME EdgeInv, Travel PROVE NoEdgeLost'
<1>1. epoll \subseteq Conn /\ peer \in [Conn -> PeerState]
  BY DEF EdgeInv, Ownership, TypeOK
<1>2. CASE TravelTake
  BY <1>1, <1>2, EdgeFrame DEF TravelTake, Waiting, Awaited, kernel, nodes, recv, history
<1>3. CASE TravelSend
  <2> DEFINE f == apsock[tap]
             c == IF f \in Fd THEN file[f] ELSE NoConn
             was == IF c = NoConn THEN "closed" ELSE peer[c]
  <2>1. UNCHANGED <<unread, epoll, sock, recv, closing, spent>> /\ ready \subseteq ready'
        /\ fault = "none"
    BY <1>3 DEF TravelSend, Edge, nodes
  <2>2. IF was \in DOMAIN AfterSend THEN peer' = [peer EXCEPT ![c] = AfterSend[was]]
        ELSE peer' = peer
    BY <1>3 DEF TravelSend
  <2>3. \A w \in DOMAIN AfterSend : AfterSend[w] # "up"
    BY DEF AfterSend
  <2> HIDE DEF c, was
  <2>4. \A d \in Conn : peer'[d] = "up" => peer[d] = "up"
    BY <1>1, <2>2, <2>3
  <2> QED
    BY <1>1, <2>1, <2>4, EdgeFrame DEF Waiting, Awaited, recv
<1>4. CASE TravelLost
  <2>1. UNCHANGED <<kernel, recv, sock, fault, history>>
    BY <1>4 DEF TravelLost
  <2>2. closing["message_travel"] = NoConn /\ "message_travel" \in Thread
    BY <1>4 DEF TravelLost, EdgeInv, Ownership, NotClosing, Thread
  <2>3. IF InList(apsock[tap]) THEN Unlink("message_travel", apsock[tap])
        ELSE UNCHANGED <<closing, linked>>
    BY <1>4 DEF TravelLost
  <2>4. \A c \in Conn, u \in Thread : closing[u] = c => closing'[u] = c
    BY <2>2, <2>3, UnlinkEdges
  <2>5. \A c \in Conn : Awaited(c) => Awaited(c)'
    BY <2>1, <2>4 DEF Awaited, kernel, recv, history
  <2> QED
    BY <1>1, <2>1, <2>5, EdgeFrame DEF Waiting, kernel
<1>5. CASE CloseSock("message_travel")
  BY <1>5, CloseSockEdges DEF Thread
<1>6. CASE TravelNoMemory
  <2>1. UNCHANGED <<kernel, nodes, recv, closing, spent>> /\ fault = "none"
    BY <1>6 DEF TravelNoMemory
  <2> QED
    BY <1>1, <2>1, EdgeFrame DEF Waiting, Awaited, kernel, nodes, recv
<1> QED
  BY <1>2, <1>3, <1>4, <1>5, <1>6 DEF Travel

\* Data that waits has its event somewhere, at every step.
LEMMA NextNoEdgeLost == ASSUME EdgeInv, [Next]_vars PROVE NoEdgeLost'
<1>1. CASE UNCHANGED vars
  BY <1>1 DEF vars, kernel, nodes, recv, history, EdgeInv, NoEdgeLost
<1> QED
  BY <1>1, PeersEdges, NetListenEdges, NetRecvEdges, TravelEdges DEF Next

LEMMA NextEdgeInv == EdgeInv /\ [Next]_vars => EdgeInv'
<1> SUFFICES ASSUME EdgeInv, [Next]_vars PROVE EdgeInv'
  OBVIOUS
<1>1. Ownership'
  BY NextType, NextPlaces, NextSocksSet, NextNotClosing DEF EdgeInv, Ownership
<1>2. FilesOwned' /\ EventsTrue'
  BY NextFilesOwned, NextEventsTrue DEF EdgeInv
<1> QED
  BY <1>1, <1>2, NextNoEdgeLost DEF EdgeInv

\* At an edge-triggered epoll, on which each event comes once, no data is left behind
\* without one (net_recv and __net_netrcv, ac/net.c:78-139; tcp_rcv,
\* lib/netlayer.c:107-141), except where malloc failed.
THEOREM EdgeTheorem == Spec => []NoEdgeLost
<1>1. EdgeInv => NoEdgeLost
  BY DEF EdgeInv
<1> QED
  BY InitEdgeInv, NextEdgeInv, <1>1, PTL DEF Spec

-----------------------------------------------------------------------------
(* Numbers that are used again (WrongOnlyForOver).                         *)

\* What WrongOnlyForOver asks for where connection c is cut.
Stands(c) ==
    \E d \in Conn : Over(d) /\ d # c /\ (sock[d] = sock[c] \/ Owner[d] = Owner[c])

\* A connection is cut, or about to be, only for another one that is over.
CutsStand ==
    \A c \in Conn :
        /\ peer[c] = "cut" => Stands(c)
        /\ peer[c] = "up" => \A t \in Thread : closing[t] = c => Stands(c)

\* net_recv has the number of a connection that is there or is over; it drops no
\* connection that is up and that its event was for: there is data then, and a read.
NumberHeld ==
    npc \in {"read", "lost"} =>
        IF file[nfd] = NoConn THEN \E d \in Conn : Over(d) /\ sock[d] = nfd
        ELSE LET c == file[nfd]
             IN  peer[c] = "up" /\ (npc = "lost" \/ (from = NoConn /\ unread[c] = 0)) => Stands(c)

\* Events are of connections with one number each, and not the one at hand.
EventsLive ==
    \A e \in events :
        /\ e.conn \in epoll \cup freed
        /\ ~e.end /\ peer[e.conn] = "up" => unread[e.conn] > 0
        /\ npc \in {"read", "lost"} => sock[e.conn] # nfd
        /\ \A o \in events : sock[o.conn] = sock[e.conn] => o = e

\* A number that is kept for a connection: it still has it, or is over.
Kept(d, f) == sock[d] = f /\ f \in Fd /\ (Over(d) \/ file[f] = d)

\* The numbers kept in what net_recv has read and in the APs' records.
NumbersKept ==
    /\ npc = "read" /\ from # NoConn => Kept(from, nfd)
    /\ \A p \in AP : \/ apsock[p] = 0 /\ inbox[p] = 0 /\ (tpc = "idle" \/ tap # p)
                     \/ \E d \in Conn : Owner[d] = p /\ Kept(d, apsock[p])

\* A send has failed for a connection of the AP that is over.
SendFailed == tpc = "lost" => \E d \in Conn : Owner[d] = tap /\ Over(d)

FreedOver == \A c \in freed : Over(c)

CutInv == CutsStand /\ NumberHeld /\ EventsLive /\ NumbersKept /\ SendFailed /\ FreedOver

NumberInv == EdgeInv /\ CutInv

LEMMA InitCut == Init => CutInv
  BY DEF Init, CutInv, CutsStand, NumberHeld, EventsLive, NumbersKept, SendFailed, FreedOver,
         Thread

\* A step that moves and closes no socket: connections may be over afterwards, but none
\* is up or cut that was not.
Calm ==
    /\ UNCHANGED <<file, sock, freed>> /\ epoll \subseteq epoll'
    /\ \A c \in Conn : Over(c) => Over(c)'
    /\ \A c \in Conn : peer'[c] \in {"up", "cut"} => peer'[c] = peer[c]

\* A step after which there is no less to read.
NoRead == \A c \in Conn : (unread[c] > 0 => unread'[c] > 0) /\ (unread'[c] = 0 => unread[c] = 0)

LEMMA StandsStay == ASSUME Calm, NEW c \in Conn, Stands(c) PROVE Stands(c)'
  BY DEF Calm, Stands

LEMMA CutsStay ==
    ASSUME CutsStand, Calm,
           \A c \in Conn, t \in Thread : closing'[t] = c /\ peer[c] = "up" =>
               closing[t] = c \/ Stands(c)
    PROVE  CutsStand'
<1>1. ASSUME NEW c \in Conn, peer'[c] = "cut" PROVE Stands(c)'
  BY <1>1, StandsStay DEF CutsStand, Calm
<1>2. ASSUME NEW c \in Conn, peer'[c] = "up", NEW t \in Thread, closing'[t] = c
      PROVE  Stands(c)'
  <2>1. peer[c] = "up"
    BY <1>2 DEF Calm
  <2>2. Stands(c)
    BY <1>2, <2>1 DEF CutsStand
  <2> QED
    BY <2>2, StandsStay
<1> QED
  BY <1>1, <1>2 DEF CutsStand

LEMMA HeldStays ==
    ASSUME Ownership, NumberHeld, Calm, NoRead, UNCHANGED <<npc, nfd, from>>
    PROVE  NumberHeld'
<1> SUFFICES ASSUME npc \in {"read", "lost"} PROVE NumberHeld'
  BY DEF NumberHeld
<1>1. nfd \in Fd /\ file \in [Fd -> Conn \cup {NoConn}]
  BY DEF Ownership, SocksSet, TypeOK
<1>2. CASE file[nfd] = NoConn
  BY <1>2 DEF NumberHeld, Calm
<1>3. CASE file[nfd] # NoConn
  <2>1. PICK c \in Conn : c = file[nfd]
    BY <1>1, <1>3
  <2>2. ASSUME peer'[c] = "up", npc = "lost" \/ (from = NoConn /\ unread'[c] = 0)
        PROVE  Stands(c)'
    <3>1. Stands(c)
      BY <1>3, <2>1, <2>2 DEF NumberHeld, Calm, NoRead
    <3> QED
      BY <3>1, StandsStay
  <2>3. file'[nfd'] = c
    BY <2>1 DEF Calm
  <2> QED
    BY <1>3, <2>2, <2>3 DEF NumberHeld
<1> QED
  BY <1>2, <1>3

LEMMA EventsStay ==
    ASSUME Ownership, EventsLive, Calm, NoRead, events' \subseteq events,
           npc' \in {"read", "lost"} => npc \in {"read", "lost"} /\ nfd' = nfd
    PROVE  EventsLive'
<1> SUFFICES ASSUME NEW e \in events'
             PROVE  /\ e.conn \in epoll' \cup freed
                    /\ ~e.end /\ peer'[e.conn] = "up" => unread'[e.conn] > 0
                    /\ npc' \in {"read", "lost"} => sock[e.conn] # nfd'
                    /\ \A o \in events' : sock[o.conn] = sock[e.conn] => o = e
  BY DEF EventsLive, Calm
<1>1. e \in events /\ e.conn \in Conn
  BY DEF Ownership, TypeOK
<1> QED
  BY <1>1 DEF EventsLive, Calm, NoRead

LEMMA NumbersStay ==
    ASSUME TypeOK, NumbersKept, Calm,
           npc' = "read" /\ from' # NoConn => npc = "read" /\ from' = from /\ nfd' = nfd,
           UNCHANGED apsock,
           \A p \in AP : inbox[p] = 0 /\ (tpc = "idle" \/ tap # p) =>
                         inbox'[p] = 0 /\ (tpc' = "idle" \/ tap' # p)
    PROVE  NumbersKept'
<1>1. ASSUME npc' = "read", from' # NoConn PROVE Kept(from, nfd)'
  <2>1. from \in Conn /\ Kept(from, nfd) /\ from' = from /\ nfd' = nfd
    BY <1>1 DEF NumbersKept, TypeOK
  <2> QED
    BY <2>1 DEF Kept, Calm
<1>2. ASSUME NEW p \in AP
      PROVE  \/ apsock'[p] = 0 /\ inbox'[p] = 0 /\ (tpc' = "idle" \/ tap' # p)
             \/ \E d \in Conn : Owner[d] = p /\ Kept(d, apsock[p])'
  <2>1. CASE apsock[p] = 0 /\ inbox[p] = 0 /\ (tpc = "idle" \/ tap # p)
    BY <2>1
  <2>2. CASE \E d \in Conn : Owner[d] = p /\ Kept(d, apsock[p])
    <3>1. PICK d \in Conn : Owner[d] = p /\ Kept(d, apsock[p])
      BY <2>2
    <3> QED
      BY <3>1 DEF Kept, Calm
  <2> QED
    BY <2>1, <2>2 DEF NumbersKept
<1> QED
  BY <1>1, <1>2 DEF NumbersKept

LEMMA FailedStays ==
    ASSUME SendFailed, Calm, tpc' = "lost" => tpc = "lost" /\ tap' = tap PROVE SendFailed'
  BY DEF SendFailed, Calm

LEMMA FreedStay == ASSUME Ownership, FreedOver, Calm PROVE FreedOver'
  BY DEF Ownership, TypeOK, FreedOver, Calm

\* The APs, the kernel's timers, and the list: nothing that has to do with numbers.
LEMMA PeersNumbers == ASSUME NumberInv, Peers \/ TimesOut \/ Link \/ EpollAdd PROVE CutInv'
<1>1. /\ peer \in [Conn -> PeerState] /\ unread \in [Conn -> Nat] /\ EdgeInv /\ Ownership
      /\ TypeOK
  BY DEF NumberInv, EdgeInv, Ownership, TypeOK
<1>2. UNCHANGED <<file, sock, freed, recv, apsock, inbox, travel, closing>>
      /\ epoll \subseteq epoll'
  <2>1. CASE Peers
    BY <2>1 DEF Peers, Connect, SendStatus, Finish, Vanish, nodes
  <2>2. CASE TimesOut \/ Link \/ EpollAdd
    BY <2>2 DEF TimesOut, Link, EpollAdd, nodes, kernel
  <2> QED
    BY <2>1, <2>2
<1>3. \A c \in Conn : peer'[c] \in {"up", "cut"} => peer'[c] = peer[c]
  <2>1. CASE Peers
    BY <1>1, <2>1 DEF Peers, Connect, SendStatus, Finish, Vanish
  <2>2. CASE TimesOut \/ Link \/ EpollAdd
    BY <1>1, <2>2 DEF TimesOut, Link, EpollAdd, kernel
  <2> QED
    BY <2>1, <2>2
<1>4. Calm
  <2>1. Next
    BY DEF Next, NetListen
  <2> QED
    BY <1>1, <1>2, <1>3, <2>1, OverStays DEF Calm
<1>5. NoRead
  <2>1. CASE \E c \in Conn : SendStatus(c)
    BY <1>1, <2>1 DEF SendStatus, NoRead
  <2>2. CASE ~\E c \in Conn : SendStatus(c)
    <3>1. unread' = unread
      <4>1. CASE Peers
        BY <2>2, <4>1 DEF Peers, Connect, Finish, Vanish
      <4>2. CASE ~Peers
        BY <4>2 DEF TimesOut, Link, EpollAdd, kernel
      <4> QED
        BY <4>1, <4>2
    <3> QED
      BY <3>1 DEF NoRead
  <2> QED
    BY <2>1, <2>2
<1>6. UNCHANGED <<npc, events, nfd, from, tpc, tap>>
  BY <1>2 DEF recv, travel
<1> HIDE DEF Calm, NoRead
<1>7. CutsStand' /\ NumberHeld' /\ EventsLive'
  BY <1>1, <1>2, <1>4, <1>5, <1>6, CutsStay, HeldStays, EventsStay DEF NumberInv, CutInv
<1>8. NumbersKept' /\ SendFailed' /\ FreedOver'
  BY <1>1, <1>2, <1>4, <1>6, NumbersStay, FailedStays, FreedStay DEF NumberInv, CutInv
<1> QED
  BY <1>7, <1>8 DEF CutInv

\* delete_sockarr: the connection that is closed is over now, cut if its AP was up.
LEMMA CloseNumbers == ASSUME NumberInv, NEW t \in Thread, CloseSock(t) PROVE CutInv'
<1> DEFINE k == closing[t]
           f == sock[k]
<1>1. /\ k \in Conn /\ file[f] = k /\ f \in Fd /\ CutInv /\ TypeOK /\ Ownership
      /\ file \in [Fd -> Conn \cup {NoConn}] /\ freed \subseteq Conn
  BY DEF CloseSock, NumberInv, EdgeInv, Ownership, TypeOK, Places, HoldersOwn, Holding, SocksSet
<1>2. /\ file' = [file EXCEPT ![f] = NoConn] /\ epoll' = epoll \ {k}
      /\ peer' = [d \in Conn |-> IF d # k THEN peer[d]
                                 ELSE IF peer[d] = "up" THEN "cut" ELSE "done"]
      /\ freed' = freed \cup {k} /\ closing' = [closing EXCEPT ![t] = NoConn]
      /\ UNCHANGED <<unread, sock, recv, apsock, inbox, travel>>
  BY <1>1 DEF CloseSock
<1> HIDE DEF f, k
<1>3. \A c \in Conn : Over(c) \/ c = k => Over(c)'
  BY <1>2 DEF Over
<1>4. ASSUME NEW c \in Conn, Stands(c) PROVE Stands(c)'
  BY <1>2, <1>3, <1>4 DEF Stands
<1>5. sock[k] = f /\ k = closing[t]
  BY DEF f, k
<1>6. CutsStand'
  <2>1. ASSUME NEW c \in Conn, peer'[c] = "cut" PROVE Stands(c)'
    <3>1. Stands(c)
      BY <1>1, <1>2, <1>5, <2>1 DEF CutInv, CutsStand
    <3> QED
      BY <1>4, <3>1
  <2>2. ASSUME NEW c \in Conn, peer'[c] = "up", NEW u \in Thread, closing'[u] = c
        PROVE  Stands(c)'
    <3>1. peer[c] = "up" /\ closing[u] = c
      <4>1. u # t
        BY <1>1, <1>2, <2>2, AcConnAssumption DEF TypeOK
      <4> QED
        BY <1>1, <1>2, <2>2, <4>1 DEF TypeOK
    <3> QED
      BY <1>1, <1>4, <3>1 DEF CutInv, CutsStand
  <2> QED
    BY <2>1, <2>2 DEF CutsStand
<1>7. NumberHeld'
  <2> SUFFICES ASSUME npc \in {"read", "lost"} PROVE NumberHeld'
    BY <1>2 DEF NumberHeld, recv
  <2>1. UNCHANGED <<npc, nfd, from>> /\ nfd \in Fd
    BY <1>1, <1>2 DEF Ownership, SocksSet, recv
  <2>2. CASE nfd = f
    <3>1. file'[nfd'] = NoConn
      BY <1>1, <1>2, <2>1, <2>2
    <3>2. PICK d \in Conn : d = k
      BY <1>1
    <3>3. Over(d)' /\ sock'[d] = nfd'
      BY <1>2, <1>3, <1>5, <2>1, <2>2, <3>2
    <3> QED
      BY <3>1, <3>3 DEF NumberHeld
  <2>3. CASE nfd # f
    <3>1. file'[nfd'] = file[nfd]
      BY <1>1, <1>2, <2>1, <2>3
    <3>2. CASE file[nfd] = NoConn
      <4>1. PICK d \in Conn : Over(d) /\ sock[d] = nfd
        BY <1>1, <3>2 DEF CutInv, NumberHeld
      <4> QED
        BY <1>2, <1>3, <2>1, <3>1, <3>2, <4>1 DEF NumberHeld
    <3>3. CASE file[nfd] # NoConn
      <4>1. PICK c \in Conn : c = file[nfd]
        BY <1>1, <2>1, <3>3
      <4>2. ASSUME peer'[c] = "up", npc = "lost" \/ (from = NoConn /\ unread[c] = 0)
            PROVE  Stands(c)'
        <5>1. peer[c] = "up"
          BY <1>2, <4>2
        <5>2. Stands(c)
          BY <1>1, <3>3, <4>1, <4>2, <5>1 DEF CutInv, NumberHeld
        <5> QED
          BY <1>4, <5>2
      <4> QED
        BY <1>2, <2>1, <3>1, <3>3, <4>1, <4>2 DEF NumberHeld
    <3> QED
      BY <3>2, <3>3
  <2> QED
    BY <2>2, <2>3
<1>8. EventsLive'
  <2>1. \A c \in Conn : peer'[c] = "up" => peer[c] = "up"
    BY <1>2
  <2>2. \A e \in events : e.conn \in Conn
    BY <1>1 DEF TypeOK
  <2> QED
    BY <1>1, <1>2, <2>1, <2>2 DEF CutInv, EventsLive, recv
<1>9. NumbersKept'
  <2>1. ASSUME NEW d \in Conn, NEW g, Kept(d, g)
        PROVE  sock'[d] = g /\ g \in Fd /\ (Over(d)' \/ file'[g] = d)
    BY <1>1, <1>2, <1>3, <1>5, <2>1 DEF Kept
  <2>2. UNCHANGED <<npc, from, nfd, apsock, inbox, tpc, tap>>
    BY <1>2 DEF recv, travel
  <2>3. from \in Conn \cup {NoConn}
    BY <1>1 DEF TypeOK
  <2>4. npc' = "read" /\ from' # NoConn => Kept(from, nfd)'
    BY <1>1, <2>1, <2>2, <2>3 DEF CutInv, NumbersKept, Kept
  <2>5. ASSUME NEW p \in AP
        PROVE  \/ apsock'[p] = 0 /\ inbox'[p] = 0 /\ (tpc' = "idle" \/ tap' # p)
               \/ \E d \in Conn : Owner[d] = p /\ Kept(d, apsock[p])'
    <3>1. CASE \E d \in Conn : Owner[d] = p /\ Kept(d, apsock[p])
      <4>1. PICK d \in Conn : Owner[d] = p /\ Kept(d, apsock[p])
        BY <3>1
      <4>2. Kept(d, apsock[p])'
        BY <2>1, <2>2, <4>1 DEF Kept
      <4> QED
        BY <4>1, <4>2
    <3>2. CASE apsock[p] = 0 /\ inbox[p] = 0 /\ (tpc = "idle" \/ tap # p)
      BY <2>2, <3>2
    <3> QED
      BY <1>1, <3>1, <3>2 DEF CutInv, NumbersKept
  <2> QED
    BY <2>4, <2>5 DEF NumbersKept
<1>10. SendFailed'
  BY <1>1, <1>2, <1>3 DEF CutInv, SendFailed, travel
<1>11. FreedOver'
  BY <1>1, <1>2, <1>3 DEF CutInv, FreedOver
<1> QED
  BY <1>6, <1>7, <1>8, <1>9, <1>10, <1>11 DEF CutInv

\* A step of the other kind leaves net_recv's part alone.
LEMMA NetRecvStays ==
    ASSUME NumberInv, Calm, NoRead, UNCHANGED recv
    PROVE  NumberHeld' /\ EventsLive' /\ FreedOver'
<1>1. Ownership /\ UNCHANGED <<npc, events, nfd, from>>
  BY DEF NumberInv, EdgeInv, recv
<1> HIDE DEF Calm, NoRead
<1> QED
  BY <1>1, HeldStays, EventsStay, FreedStay DEF NumberInv, CutInv

\* The descriptor a number that is kept stands for.
LEMMA KeptOwner ==
    ASSUME NEW p \in AP, NumbersKept, TypeOK, tpc # "idle" /\ tap = p
    PROVE  \E d \in Conn : Owner[d] = p /\ Kept(d, apsock[p])
  BY DEF NumbersKept

\* message_travel: a send fails only on a number of a connection that is over.
LEMMA TravelNumbers == ASSUME NumberInv, Travel PROVE CutInv'
<1>1. /\ peer \in [Conn -> PeerState] /\ TypeOK /\ Ownership /\ EdgeInv /\ CutInv /\ tap \in AP
      /\ file \in [Fd -> Conn \cup {NoConn}]
  BY DEF NumberInv, EdgeInv, Ownership, TypeOK
<1>2. \A c \in Conn : Over(c) => Over(c)'
  BY <1>1, OverStays DEF Next
<1>3. CASE TravelTake \/ TravelNoMemory
  <2>1. UNCHANGED <<kernel, nodes, recv, apsock, closing>>
    BY <1>3 DEF TravelTake, TravelNoMemory
  <2>2. Calm /\ NoRead
    BY <1>2, <2>1 DEF Calm, NoRead, kernel, nodes
  <2>3. CutsStand' /\ NumberHeld' /\ EventsLive' /\ FreedOver'
    BY <1>1, <2>1, <2>2, CutsStay, NetRecvStays DEF CutInv
  <2>4. SendFailed'
    BY <1>3 DEF TravelTake, TravelNoMemory, SendFailed
  <2>5. NumbersKept'
    <3>1. CASE TravelNoMemory
      <4>1. UNCHANGED <<inbox, tap, npc, from, nfd>> /\ tpc' = "idle"
        BY <2>1, <3>1 DEF TravelNoMemory, recv
      <4> QED
        BY <1>1, <2>1, <2>2, <4>1, NumbersStay DEF CutInv
    <3>2. CASE TravelTake
      <4>1. PICK p \in AP : /\ inbox[p] > 0 /\ tap' = p
                            /\ inbox' = [inbox EXCEPT ![p] = inbox[p] - 1]
        BY <3>2 DEF TravelTake
      <4>2. inbox[p] # 0
        BY <4>1
      <4>3. \A a \in AP : a # p => inbox'[a] = inbox[a]
        BY <1>1, <4>1 DEF TypeOK
      <4>4. UNCHANGED <<file, sock, npc, from, nfd, apsock>>
        BY <2>1 DEF kernel, nodes, recv
      <4>5. ASSUME NEW a \in AP
            PROVE  \/ apsock'[a] = 0 /\ inbox'[a] = 0 /\ (tpc' = "idle" \/ tap' # a)
                   \/ \E d \in Conn : Owner[d] = a /\ Kept(d, apsock[a])'
        <5>1. CASE \E d \in Conn : Owner[d] = a /\ Kept(d, apsock[a])
          <6>1. PICK d \in Conn : Owner[d] = a /\ Kept(d, apsock[a])
            BY <5>1
          <6> QED
            BY <1>2, <4>4, <6>1 DEF Kept
        <5>2. CASE apsock[a] = 0 /\ inbox[a] = 0
          BY <4>1, <4>2, <4>3, <4>4, <5>2
        <5> QED
          BY <1>1, <5>1, <5>2 DEF CutInv, NumbersKept
      <4>6. npc' = "read" /\ from' # NoConn => Kept(from, nfd)'
        <5> SUFFICES ASSUME npc = "read", from # NoConn PROVE Kept(from, nfd)'
          BY <4>4
        <5>1. from \in Conn /\ Kept(from, nfd)
          BY <1>1 DEF CutInv, NumbersKept, TypeOK
        <5> QED
          BY <1>2, <4>4, <5>1 DEF Kept
      <4> QED
        BY <4>5, <4>6 DEF NumbersKept
    <3> QED
      BY <1>3, <3>1, <3>2
  <2> QED
    BY <2>3, <2>4, <2>5 DEF CutInv
<1>4. CASE TravelSend
  <2> DEFINE f == apsock[tap]
             c == IF f \in Fd THEN file[f] ELSE NoConn
             was == IF c = NoConn THEN "closed" ELSE peer[c]
  <2>1. /\ UNCHANGED <<unread, file, epoll, nodes, recv, apsock, inbox, tap, closing>>
        /\ tpc = "send" /\ tpc' = IF was \in {"closed", "timeout"} THEN "lost" ELSE "idle"
    BY <1>4 DEF TravelSend
  <2>2. IF was \in DOMAIN AfterSend THEN peer' = [peer EXCEPT ![c] = AfterSend[was]]
        ELSE peer' = peer
    BY <1>4 DEF TravelSend
  <2>3. \A d \in Conn : peer'[d] \in {"up", "cut"} => peer'[d] = peer[d]
    <3>1. \A w \in DOMAIN AfterSend : AfterSend[w] \notin {"up", "cut"}
      BY DEF AfterSend
    <3> HIDE DEF c, was
    <3> QED
      BY <1>1, <2>2, <3>1
  <2>4. Calm /\ NoRead
    BY <1>2, <2>1, <2>3 DEF Calm, NoRead, nodes
  <2>5. CutsStand' /\ NumberHeld' /\ EventsLive' /\ FreedOver'
    BY <1>1, <2>1, <2>4, CutsStay, NetRecvStays DEF CutInv
  <2>6. NumbersKept'
    <3>1. \A p \in AP : inbox[p] = 0 /\ (tpc = "idle" \/ tap # p) =>
                        inbox'[p] = 0 /\ (tpc' = "idle" \/ tap' # p)
      BY <2>1
    <3>2. UNCHANGED <<npc, from, nfd, apsock>>
      BY <2>1 DEF recv
    <3> QED
      BY <1>1, <2>4, <3>1, <3>2, NumbersStay DEF CutInv
  <2>7. SendFailed'
    <3> SUFFICES ASSUME was \in {"closed", "timeout"}
                 PROVE  \E d \in Conn : Owner[d] = tap /\ Over(d)'
      BY <2>1 DEF SendFailed
    <3>1. PICK d \in Conn : Owner[d] = tap /\ Kept(d, f)
      BY <1>1, <2>1, KeptOwner DEF CutInv
    <3>2. Over(d)
      <4>1. CASE file[f] = d
        <5>1. c = d /\ was = peer[d]
          BY <3>1, <4>1 DEF Kept
        <5> QED
          BY <1>1, <5>1 DEF Over, PeerState
      <4>2. CASE file[f] # d
        BY <3>1, <4>2 DEF Kept
      <4> QED
        BY <4>1, <4>2
    <3> QED
      BY <1>2, <3>1, <3>2
  <2> QED
    BY <2>5, <2>6, <2>7 DEF CutInv
<1>5. CASE TravelLost
  <2> DEFINE f == apsock[tap]
  <2>1. /\ UNCHANGED <<kernel, freed, sock, recv, apsock, inbox, tap>>
        /\ tpc = "lost" /\ tpc' = "idle"
        /\ IF InList(f) THEN Unlink("message_travel", f) ELSE UNCHANGED <<closing, linked>>
    BY <1>5 DEF TravelLost
  <2>2. Calm /\ NoRead
    BY <1>2, <2>1 DEF Calm, NoRead, kernel
  <2>3. NumberHeld' /\ EventsLive' /\ FreedOver' /\ SendFailed'
    BY <2>1, <2>2, NetRecvStays DEF SendFailed
  <2>4. NumbersKept'
    <3>1. UNCHANGED <<npc, from, nfd, apsock>>
      BY <2>1 DEF recv
    <3> QED
      BY <1>1, <2>1, <2>2, <3>1, NumbersStay DEF CutInv
  <2>5. ASSUME NEW k \in Conn, NEW t \in Thread, closing'[t] = k, peer[k] = "up"
        PROVE  closing[t] = k \/ Stands(k)
    <3>1. CASE InList(f)
      <4>1. PICK j \in linked : sock[j] = f /\ closing' = [closing EXCEPT !["message_travel"] = j]
        BY <2>1, <3>1, UnlinkedNode
      <4>2. j \in Conn /\ file[f] = j
        <5>1. j \in Conn /\ Holding(j)
          BY <1>1 DEF TypeOK, Holding
        <5> QED
          BY <1>1, <4>1, <5>1 DEF Ownership, Places, HoldersOwn
      <4>3. closing[t] = k \/ k = j
        BY <1>1, <2>5, <4>1 DEF TypeOK
      <4>4. ASSUME peer[j] = "up" PROVE Stands(j)
        <5>1. PICK d \in Conn : Owner[d] = tap /\ Kept(d, f)
          BY <1>1, <2>1, KeptOwner DEF CutInv
        <5>2. CASE Over(d)
          BY <4>1, <4>2, <4>4, <5>1, <5>2 DEF Stands, Kept, Over
        <5>3. CASE ~Over(d)
          <6>1. d = j
            BY <4>2, <5>1, <5>3 DEF Kept
          <6>2. PICK o \in Conn : Owner[o] = tap /\ Over(o)
            BY <1>1, <2>1 DEF CutInv, SendFailed
          <6> QED
            BY <4>2, <5>1, <5>3, <6>1, <6>2 DEF Stands
        <5> QED
          BY <5>2, <5>3
      <4> QED
        BY <2>5, <4>3, <4>4
    <3>2. CASE ~InList(f)
      BY <2>1, <2>5, <3>2
    <3> QED
      BY <3>1, <3>2
  <2>6. CutsStand'
    BY <1>1, <2>2, <2>5, CutsStay DEF CutInv
  <2> QED
    BY <2>3, <2>4, <2>6 DEF CutInv
<1> QED
  BY <1>3, <1>4, <1>5, CloseNumbers DEF Travel, Thread

\* tcp_accept: the descriptor that is free was a number of connections that are over.
LEMMA AcceptNumbers == ASSUME NumberInv, Accept PROVE CutInv'
<1>1. PICK c \in Conn, f \in Fd :
        /\ peer[c] = "backlog" /\ file[f] = NoConn
        /\ peer' = [peer EXCEPT ![c] = "up"]
        /\ file' = [file EXCEPT ![f] = c] /\ sock' = [sock EXCEPT ![c] = f]
  BY DEF Accept
<1>2. UNCHANGED <<unread, epoll, freed, recv, apsock, inbox, travel, closing>>
  BY DEF Accept
<1>3. /\ TypeOK /\ Ownership /\ FilesOwned /\ CutInv /\ peer \in [Conn -> PeerState]
      /\ file \in [Fd -> Conn \cup {NoConn}] /\ sock \in [Conn -> Fd \cup {0}]
      /\ freed \subseteq Conn /\ epoll \subseteq Conn
  BY DEF NumberInv, EdgeInv, Ownership, TypeOK
<1>4. Untaken(c) /\ ~Over(c) /\ c \notin freed /\ ~Holding(c)
  BY <1>1, <1>3 DEF Untaken, Over, Ownership, Places, UntakenFree
<1>5. /\ \A d \in Conn : d # c => peer'[d] = peer[d] /\ sock'[d] = sock[d]
      /\ \A d \in Conn : Over(d) => Over(d)' /\ d # c /\ sock'[d] = sock[d]
      /\ file'[f] = c /\ sock'[c] = f /\ \A g \in Fd : g # f => file'[g] = file[g]
  BY <1>1, <1>3, <1>4 DEF Over
<1>6. ASSUME NEW d \in Conn, Stands(d), d # c PROVE Stands(d)'
  BY <1>5, <1>6 DEF Stands
<1>7. ASSUME NEW d \in Conn, Over(d), sock[d] = f PROVE Stands(c)'
  BY <1>5, <1>7 DEF Stands
<1>8. CutsStand'
  <2>1. ASSUME NEW d \in Conn, peer'[d] = "cut" PROVE Stands(d)'
    BY <1>1, <1>3, <1>5, <1>6, <2>1 DEF CutInv, CutsStand
  <2>2. ASSUME NEW d \in Conn, peer'[d] = "up", NEW t \in Thread, closing'[t] = d
        PROVE  Stands(d)'
    <3>1. d # c /\ closing[t] = d
      BY <1>2, <1>4, <2>2 DEF Holding
    <3> QED
      BY <1>3, <1>5, <1>6, <2>2, <3>1 DEF CutInv, CutsStand
  <2> QED
    BY <2>1, <2>2 DEF CutsStand
<1>9. NumberHeld'
  <2> SUFFICES ASSUME npc \in {"read", "lost"} PROVE NumberHeld'
    BY <1>2 DEF NumberHeld, recv
  <2>1. UNCHANGED <<npc, nfd, from, unread>> /\ nfd \in Fd
    BY <1>2, <1>3 DEF Ownership, SocksSet, recv
  <2>2. CASE nfd = f
    <3>1. PICK d \in Conn : Over(d) /\ sock[d] = nfd
      BY <1>1, <1>3, <2>2 DEF CutInv, NumberHeld
    <3>2. Stands(c)'
      BY <1>7, <2>2, <3>1
    <3>3. file'[nfd'] = c
      BY <1>5, <2>1, <2>2
    <3> QED
      BY <1>3, <3>2, <3>3 DEF NumberHeld
  <2>3. CASE nfd # f /\ file[nfd] = NoConn
    <3>1. file'[nfd'] = NoConn
      BY <1>5, <2>1, <2>3
    <3>2. PICK d \in Conn : Over(d) /\ sock[d] = nfd
      BY <1>3, <2>3 DEF CutInv, NumberHeld
    <3>3. Over(d)' /\ sock'[d] = nfd'
      BY <1>5, <2>1, <3>2
    <3> QED
      BY <3>1, <3>3 DEF NumberHeld
  <2>4. CASE nfd # f /\ file[nfd] # NoConn
    <3>1. PICK d \in Conn : d = file[nfd]
      BY <1>3, <2>1, <2>4
    <3>2. d # c /\ file'[nfd'] = d
      BY <1>3, <1>4, <1>5, <2>1, <2>4, <3>1 DEF FilesOwned, FileOwned
    <3>3. ASSUME peer[d] = "up", npc = "lost" \/ (from = NoConn /\ unread[d] = 0)
          PROVE  Stands(d)'
      <4>1. Stands(d)
        BY <1>3, <2>4, <3>1, <3>3 DEF CutInv, NumberHeld
      <4> QED
        BY <1>6, <3>2, <4>1
    <3> QED
      BY <1>5, <2>1, <2>4, <3>1, <3>2, <3>3 DEF NumberHeld
  <2> QED
    BY <2>2, <2>3, <2>4
<1>10. EventsLive'
  <2>1. \A e \in events : e.conn \in Conn /\ e.conn # c
    BY <1>3, <1>4 DEF TypeOK, CutInv, EventsLive, FilesOwned
  <2>2. \A e \in events : peer'[e.conn] = peer[e.conn] /\ sock'[e.conn] = sock[e.conn]
    BY <1>5, <2>1
  <2>3. UNCHANGED <<events, npc, nfd, unread, epoll, freed>>
    BY <1>2 DEF recv
  <2> QED
    BY <1>3, <2>2, <2>3 DEF CutInv, EventsLive
<1>11. NumbersKept'
  <2>1. ASSUME NEW d \in Conn, NEW g, Kept(d, g)
        PROVE  sock'[d] = g /\ g \in Fd /\ (Over(d)' \/ file'[g] = d)
    <3>1. d # c
      BY <1>1, <1>3, <1>4, <2>1 DEF Kept, FilesOwned, FileOwned
    <3> QED
      BY <1>1, <1>5, <2>1, <3>1 DEF Kept
  <2>2. UNCHANGED <<npc, from, nfd, apsock, inbox, tpc, tap>>
    BY <1>2 DEF recv, travel
  <2>3. from \in Conn \cup {NoConn}
    BY <1>3 DEF TypeOK
  <2>4. npc' = "read" /\ from' # NoConn => Kept(from, nfd)'
    BY <1>3, <2>1, <2>2, <2>3 DEF CutInv, NumbersKept, Kept
  <2>5. ASSUME NEW p \in AP
        PROVE  \/ apsock'[p] = 0 /\ inbox'[p] = 0 /\ (tpc' = "idle" \/ tap' # p)
               \/ \E d \in Conn : Owner[d] = p /\ Kept(d, apsock[p])'
    <3>1. CASE \E d \in Conn : Owner[d] = p /\ Kept(d, apsock[p])
      <4>1. PICK d \in Conn : Owner[d] = p /\ Kept(d, apsock[p])
        BY <3>1
      <4>2. Kept(d, apsock[p])'
        BY <2>1, <2>2, <4>1 DEF Kept
      <4> QED
        BY <4>1, <4>2
    <3>2. CASE apsock[p] = 0 /\ inbox[p] = 0 /\ (tpc = "idle" \/ tap # p)
      BY <2>2, <3>2
    <3> QED
      BY <1>3, <3>1, <3>2 DEF CutInv, NumbersKept
  <2> QED
    BY <2>4, <2>5 DEF NumbersKept
<1>12. SendFailed' /\ FreedOver'
  BY <1>2, <1>3, <1>5 DEF CutInv, SendFailed, FreedOver, travel
<1> QED
  BY <1>8, <1>9, <1>10, <1>11, <1>12 DEF CutInv

\* net_recv's part: what it reads on a number, and when it takes that number for lost.
LEMMA NetRecvNumbers == ASSUME NumberInv, NetRecv PROVE CutInv'
<1>1. /\ TypeOK /\ Ownership /\ FilesOwned /\ EventsTrue /\ EdgeInv /\ CutInv
      /\ file \in [Fd -> Conn \cup {NoConn}] /\ sock \in [Conn -> Fd \cup {0}]
      /\ peer \in [Conn -> PeerState] /\ unread \in [Conn -> Nat]
      /\ epoll \subseteq Conn /\ ready \subseteq epoll
      /\ \A e \in events : e.conn \in Conn
  BY DEF NumberInv, EdgeInv, Ownership, TypeOK
<1>2. \A c \in Conn : Over(c) => Over(c)'
  BY <1>1, OverStays DEF Next
<1>3. CASE Wait
  <2>1. /\ UNCHANGED <<peer, unread, file, epoll, nodes, from, nfd, apsock, inbox, travel, closing>>
        /\ npc' = "next"
    BY <1>3 DEF Wait
  <2>2. Calm /\ NoRead
    BY <1>2, <2>1 DEF Calm, NoRead, nodes
  <2>3. CutsStand' /\ NumberHeld' /\ FreedOver' /\ SendFailed'
    BY <1>1, <2>1, <2>2, CutsStay, FreedStay, FailedStays DEF CutInv, NumberHeld, travel
  <2>4. NumbersKept'
    BY <1>1, <2>1, <2>2, NumbersStay DEF CutInv, travel
  <2>5. EventsLive'
    <3>1. ASSUME NEW e \in events'
          PROVE  /\ e.conn \in epoll /\ sock[e.conn] \in Fd /\ file[sock[e.conn]] = e.conn
                 /\ (~e.end => unread[e.conn] > 0)
                 /\ e = [conn |-> e.conn, end |-> Ended(e.conn)]
      BY <1>1, <1>3 DEF Wait, FilesOwned, Ownership, SocksSet
    <3> QED
      BY <2>1, <3>1 DEF EventsLive, nodes
  <2> QED
    BY <2>3, <2>4, <2>5 DEF CutInv
<1>4. CASE NextEvent
  <2>1. /\ UNCHANGED <<kernel, nodes, apsock, inbox, travel, closing>>
        /\ npc = "next" /\ from' = NoConn
    BY <1>4 DEF NextEvent
  <2>2. Calm /\ NoRead
    BY <1>2, <2>1 DEF Calm, NoRead, kernel, nodes
  <2>3. CutsStand' /\ FreedOver' /\ SendFailed' /\ NumbersKept'
    BY <1>1, <2>1, <2>2, CutsStay, FreedStay, FailedStays, NumbersStay DEF CutInv, travel
  <2>4. CASE events = {} \/ npc' = "next"
    <3>1. npc' \notin {"read", "lost"} /\ events' \subseteq events
      BY <1>4, <2>4 DEF NextEvent
    <3>2. NumberHeld'
      BY <3>1 DEF NumberHeld
    <3>3. EventsLive'
      BY <1>1, <2>2, <3>1, EventsStay DEF CutInv
    <3> QED
      BY <2>3, <3>2, <3>3 DEF CutInv
  <2>5. CASE events # {} /\ npc' # "next"
    <3>1. PICK e \in events :
            /\ events' = events \ {e} /\ nfd' = sock[e.conn]
            /\ IF e.conn \in freed THEN fault' = "use after free" /\ UNCHANGED npc
               ELSE npc' = (IF e.end THEN "lost" ELSE "read") /\ UNCHANGED fault
      BY <1>4, <2>5 DEF NextEvent
    <3>2. e.conn \notin freed /\ npc' = IF e.end THEN "lost" ELSE "read"
      BY <2>1, <2>5, <3>1
    <3>3. e.conn \in epoll /\ file[sock[e.conn]] = e.conn /\ e.conn # NoConn
      BY <1>1, <3>2 DEF CutInv, EventsLive, FilesOwned
    <3>4. (e.end => peer[e.conn] # "up") /\ (~e.end /\ peer[e.conn] = "up" => unread[e.conn] > 0)
      BY <1>1 DEF CutInv, EventsLive, EventsTrue, Over
    <3>5. NumberHeld'
      <4>1. file'[nfd'] = e.conn /\ UNCHANGED <<peer, unread>>
        BY <2>1, <3>1, <3>3 DEF kernel
      <4>2. ~(peer[e.conn] = "up" /\ (npc' = "lost" \/ unread[e.conn] = 0))
        BY <1>1, <3>2, <3>4
      <4> QED
        BY <3>3, <4>1, <4>2 DEF NumberHeld
    <3>6. EventsLive'
      <4>1. UNCHANGED <<epoll, freed, sock, peer, unread>>
        BY <2>1 DEF kernel, nodes
      <4> QED
        BY <1>1, <3>1, <4>1 DEF CutInv, EventsLive
    <3> QED
      BY <2>3, <3>5, <3>6 DEF CutInv
  <2> QED
    BY <2>4, <2>5
<1>5. CASE Lost
  <2>1. /\ UNCHANGED <<kernel, freed, sock, from, nfd, events, apsock, inbox, travel>>
        /\ npc = "lost" /\ npc' = "next"
        /\ IF InList(nfd) THEN Unlink("net_recv", nfd) ELSE UNCHANGED <<closing, linked>>
    BY <1>5 DEF Lost
  <2>2. Calm /\ NoRead
    BY <1>2, <2>1 DEF Calm, NoRead, kernel
  <2>3. NumberHeld' /\ EventsLive' /\ FreedOver' /\ SendFailed' /\ NumbersKept'
    BY <1>1, <2>1, <2>2, EventsStay, FreedStay, FailedStays, NumbersStay
    DEF CutInv, NumberHeld, travel
  <2>4. ASSUME NEW k \in Conn, NEW t \in Thread, closing'[t] = k, peer[k] = "up"
        PROVE  closing[t] = k \/ Stands(k)
    <3>1. CASE InList(nfd)
      <4>1. PICK j \in linked : sock[j] = nfd /\ closing' = [closing EXCEPT !["net_recv"] = j]
        BY <2>1, <3>1, UnlinkedNode
      <4>2. j \in Conn /\ file[nfd] = j
        <5>1. j \in Conn /\ Holding(j)
          BY <1>1 DEF TypeOK, Holding
        <5> QED
          BY <1>1, <4>1, <5>1 DEF Ownership, Places, HoldersOwn
      <4>3. closing[t] = k \/ k = j
        BY <1>1, <2>4, <4>1 DEF TypeOK
      <4>4. peer[j] = "up" => Stands(j)
        BY <1>1, <2>1, <4>2, AcConnAssumption DEF CutInv, NumberHeld
      <4> QED
        BY <2>4, <4>3, <4>4
    <3>2. CASE ~InList(nfd)
      BY <2>1, <2>4, <3>2
    <3> QED
      BY <3>1, <3>2
  <2>5. CutsStand'
    BY <1>1, <2>2, <2>4, CutsStay DEF CutInv
  <2> QED
    BY <2>3, <2>5 DEF CutInv
<1>6. CASE NoMemory
  <2>1. /\ UNCHANGED <<kernel, nodes, from, nfd, events, apsock, inbox, travel, closing>>
        /\ npc' = "next"
    BY <1>6 DEF NoMemory
  <2>2. Calm /\ NoRead
    BY <1>2, <2>1 DEF Calm, NoRead, kernel, nodes
  <2> QED
    BY <1>1, <2>1, <2>2, CutsStay, EventsStay, FreedStay, FailedStays, NumbersStay
    DEF CutInv, NumberHeld, travel
<1>7. CASE ReadData
  <2> DEFINE b == file[nfd]
             n == got + unread[b]
  <2>1. /\ UNCHANGED <<peer, file, epoll, nodes, npc, nfd, events, apsock, inbox, travel, closing>>
        /\ npc = "read" /\ b # NoConn /\ from' = IF from = NoConn THEN b ELSE from
        /\ unread' = [unread EXCEPT ![b] = IF n > Room THEN n - Room ELSE 0]
    BY <1>7 DEF ReadData
  <2>2. nfd \in Fd /\ b \in Conn /\ sock[b] = nfd
    <3>1. nfd \in Fd
      BY <1>1, <2>1 DEF Ownership, SocksSet
    <3>2. b \in Conn
      BY <1>1, <2>1, <3>1 DEF Ownership, TypeOK
    <3>3. FileOwned(nfd)
      BY <1>1, <3>1 DEF FilesOwned
    <3> QED
      BY <2>1, <3>1, <3>2, <3>3 DEF FileOwned
  <2>3. Calm
    BY <1>2, <2>1 DEF Calm, nodes
  <2>4. CutsStand' /\ FreedOver' /\ SendFailed'
    BY <1>1, <2>1, <2>3, CutsStay, FreedStay, FailedStays DEF CutInv, travel
  <2>5. NumberHeld'
    <3>1. from' # NoConn
      BY <2>1
    <3> QED
      BY <2>1, <3>1 DEF NumberHeld
  <2>6. EventsLive'
    <3>1. \A e \in events : e.conn # b
      BY <1>1, <2>1, <2>2 DEF CutInv, EventsLive
    <3>2. \A e \in events : unread'[e.conn] = unread[e.conn]
      BY <1>1, <2>1, <3>1
    <3>3. UNCHANGED <<events, epoll, freed, sock, peer, npc, nfd>>
      BY <2>1 DEF nodes
    <3> QED
      BY <1>1, <3>2, <3>3 DEF CutInv, EventsLive
  <2>7. NumbersKept'
    <3>1. Kept(from, nfd)'
      <4>1. CASE from = NoConn
        BY <2>1, <2>2, <4>1 DEF Kept, nodes
      <4>2. CASE from # NoConn
        <5>1. from \in Conn /\ Kept(from, nfd) /\ from' = from
          BY <1>1, <2>1, <4>2 DEF CutInv, NumbersKept, TypeOK
        <5> QED
          BY <2>1, <5>1 DEF Kept, Over, nodes
      <4> QED
        BY <4>1, <4>2
    <3>2. UNCHANGED <<file, sock, peer, apsock, inbox, tpc, tap>>
      BY <2>1 DEF nodes, travel
    <3> QED
      BY <1>1, <3>1, <3>2 DEF CutInv, NumbersKept, Kept, Over
  <2> QED
    BY <2>4, <2>5, <2>6, <2>7 DEF CutInv
<1>8. CASE ReadEnd
  <2>1. /\ UNCHANGED <<unread, file, epoll, nodes, from, nfd, events, closing, travel>>
        /\ npc = "read" /\ nfd \in Fd
    BY <1>1, <1>8 DEF ReadEnd, Ownership, SocksSet
  <2>2. \A c \in Conn : peer'[c] \in {"up", "cut"} => peer'[c] = peer[c]
    BY <1>1, <1>8 DEF ReadEnd
  <2>3. Calm /\ NoRead
    BY <1>2, <2>1, <2>2 DEF Calm, NoRead, nodes
  <2>4. npc' \in {"read", "lost"} => npc \in {"read", "lost"} /\ nfd' = nfd
    BY <2>1
  <2>5. CutsStand' /\ EventsLive' /\ FreedOver' /\ SendFailed'
    BY <1>1, <2>1, <2>3, <2>4, CutsStay, EventsStay, FreedStay, FailedStays DEF CutInv, travel
  <2>6. CASE UNCHANGED <<npc, apsock, inbox>>
    <3>1. NumberHeld' /\ NumbersKept'
      BY <1>1, <2>1, <2>3, <2>6, HeldStays, NumbersStay DEF CutInv, travel
    <3> QED
      BY <2>5, <3>1 DEF CutInv
  <2>7. CASE /\ \A c \in Conn : file[nfd] = c => unread[c] = 0
             /\ Message
    <3>1. CASE from = NoConn
      <4>1. npc' = "lost" /\ UNCHANGED <<apsock, inbox>>
        BY <2>7, <3>1 DEF Message
      <4>2. NumbersKept'
        BY <1>1, <2>1, <2>3, <4>1, NumbersStay DEF CutInv, travel
      <4>3. CASE file[nfd] = NoConn
        <5>1. PICK d \in Conn : Over(d) /\ sock[d] = nfd
          BY <1>1, <2>1, <4>3 DEF CutInv, NumberHeld
        <5>2. NumberHeld'
          BY <1>2, <2>1, <4>3, <5>1 DEF NumberHeld, nodes
        <5> QED
          BY <2>5, <4>2, <5>2 DEF CutInv
      <4>4. CASE file[nfd] # NoConn
        <5>1. PICK c \in Conn : c = file[nfd]
          BY <1>1, <2>1, <4>4
        <5>2. peer[c] = "up" => Stands(c)
          BY <1>1, <2>1, <2>7, <3>1, <4>4, <5>1 DEF CutInv, NumberHeld
        <5>3. peer'[c] = "up" => Stands(c)'
          <6>1. peer'[c] = "up" => peer[c] = "up"
            BY <2>2
          <6> QED
            BY <2>3, <5>2, <6>1, StandsStay
        <5>4. file'[nfd'] = c
          BY <2>1, <5>1
        <5>5. NumberHeld'
          BY <1>1, <5>3, <5>4, AcConnAssumption DEF NumberHeld
        <5> QED
          BY <2>5, <4>2, <5>5 DEF CutInv
      <4> QED
        BY <4>3, <4>4
    <3>2. CASE from # NoConn
      <4>1. /\ npc' = "next" /\ apsock' = [apsock EXCEPT ![Owner[from]] = nfd]
            /\ inbox' = [inbox EXCEPT ![Owner[from]] = inbox[Owner[from]] + 1]
        BY <2>7, <3>2 DEF Message
      <4>2. NumberHeld'
        BY <4>1 DEF NumberHeld
      <4>3. PICK d \in Conn : d = from
        BY <1>1, <3>2 DEF TypeOK
      <4>4. Kept(d, nfd) /\ Owner[d] \in AP
        BY <1>1, <2>1, <3>2, <4>3 DEF CutInv, NumbersKept
      <4>5. ASSUME NEW a \in AP
            PROVE  \/ apsock'[a] = 0 /\ inbox'[a] = 0 /\ (tpc' = "idle" \/ tap' # a)
                   \/ \E k \in Conn : Owner[k] = a /\ Kept(k, apsock[a])'
        <5>1. CASE a = Owner[d]
          <6>1. apsock'[a] = nfd
            BY <1>1, <4>1, <4>3, <5>1 DEF TypeOK
          <6>2. Kept(d, apsock[a])'
            BY <1>2, <2>1, <4>4, <6>1 DEF Kept, nodes
          <6> QED
            BY <5>1, <6>2
        <5>2. CASE a # Owner[d]
          <6>1. apsock'[a] = apsock[a] /\ inbox'[a] = inbox[a]
            BY <1>1, <4>1, <4>3, <5>2 DEF TypeOK
          <6>2. CASE \E k \in Conn : Owner[k] = a /\ Kept(k, apsock[a])
            <7>1. PICK k \in Conn : Owner[k] = a /\ Kept(k, apsock[a])
              BY <6>2
            <7>2. Kept(k, apsock[a])'
              BY <1>2, <2>1, <6>1, <7>1 DEF Kept, nodes
            <7> QED
              BY <7>1, <7>2
          <6>3. CASE apsock[a] = 0 /\ inbox[a] = 0 /\ (tpc = "idle" \/ tap # a)
            BY <2>1, <6>1, <6>3 DEF travel
          <6> QED
            BY <1>1, <6>2, <6>3 DEF CutInv, NumbersKept
        <5> QED
          BY <5>1, <5>2
      <4>6. NumbersKept'
        BY <4>1, <4>5 DEF NumbersKept
      <4> QED
        BY <2>5, <4>2, <4>6 DEF CutInv
    <3> QED
      BY <3>1, <3>2
  <2> QED
    BY <1>8, <2>6, <2>7 DEF ReadEnd
<1>9. CASE CloseSock("net_recv")
  BY <1>9, CloseNumbers DEF Thread
<1> QED
  BY <1>3, <1>4, <1>5, <1>6, <1>7, <1>8, <1>9 DEF NetRecv

\* ap_lost and __ap_status go by a number that may be another's by now
\* (ac/process.c:98-101, 170-174): whatever the APs, connections and descriptors, what
\* they drop or send to by mistake is on a number a connection that is over has left, or
\* a connection whose AP had another one that is over.
THEOREM NumberTheorem == Spec => []WrongOnlyForOver
<1>1. Init => NumberInv
  BY InitEdgeInv, InitCut DEF NumberInv
<1>2. NumberInv /\ [Next]_vars => NumberInv'
  <2> SUFFICES ASSUME NumberInv, [Next]_vars PROVE NumberInv'
    OBVIOUS
  <2>1. EdgeInv'
    BY NextEdgeInv DEF NumberInv
  <2>2. CASE UNCHANGED vars
    <3>1. Calm /\ NoRead /\ UNCHANGED <<recv, travel, apsock, inbox, closing>>
      BY <2>2 DEF vars, kernel, nodes, Calm, NoRead, Over
    <3>2. Ownership /\ TypeOK /\ CutInv
      BY DEF NumberInv, EdgeInv, Ownership
    <3>3. CutsStand' /\ NumberHeld' /\ EventsLive' /\ FreedOver'
      BY <3>1, <3>2, CutsStay, NetRecvStays DEF CutInv
    <3>4. UNCHANGED <<npc, from, nfd, tpc, tap>>
      BY <3>1 DEF recv, travel
    <3>5. NumbersKept' /\ SendFailed'
      BY <3>1, <3>2, <3>4, NumbersStay, FailedStays DEF CutInv
    <3> QED
      BY <2>1, <3>3, <3>5 DEF NumberInv, CutInv
  <2>3. CASE Next
    <3>1. CutInv'
      BY <2>3, PeersNumbers, AcceptNumbers, NetRecvNumbers, TravelNumbers DEF Next, NetListen
    <3> QED
      BY <2>1, <3>1 DEF NumberInv
  <2> QED
    BY <2>2, <2>3
<1>3. NumberInv => WrongOnlyForOver
  <2> SUFFICES ASSUME NumberInv, NEW c \in Conn
               PROVE  /\ peer[c] = "cut" => Stands(c)
                      /\ \A p \in AP : apsock[p] \in Fd /\ file[apsock[p]] = c /\ Owner[c] # p =>
                            \E d \in Conn : Over(d) /\ Owner[d] = p /\ sock[d] = sock[c]
    BY DEF WrongOnlyForOver, Stands
  <2>1. peer[c] = "cut" => Stands(c)
    BY DEF NumberInv, CutInv, CutsStand
  <2>2. ASSUME NEW p \in AP, apsock[p] \in Fd, file[apsock[p]] = c, Owner[c] # p
        PROVE  \E d \in Conn : Over(d) /\ Owner[d] = p /\ sock[d] = sock[c]
    <3>1. sock[c] = apsock[p]
      BY <2>2, AcConnAssumption DEF NumberInv, EdgeInv, FilesOwned, FileOwned
    <3>2. PICK d \in Conn : Owner[d] = p /\ Kept(d, apsock[p])
      BY <2>2, AcConnAssumption DEF NumberInv, CutInv, NumbersKept
    <3> QED
      BY <2>2, <3>1, <3>2 DEF Kept
  <2> QED
    BY <2>1, <2>2
<1> QED
  BY <1>1, <1>2, <1>3, PTL DEF Spec
=============================================================================
