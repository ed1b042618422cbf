------------------------------- MODULE AcConn -------------------------------
(***************************************************************************)
(* The AC's TCP connections (lib/link.c, lib/netlayer.c, ac/net.c,         *)
(* ac/process.c): net_netlisten accepts and hangs a socket into epoll and  *)
(* into the sockarr list, net_recv reads what epoll reports and drops what *)
(* has ended, message_travel answers each status on the socket of the AP's *)
(* record and drops it when that fails. A descriptor that was closed is    *)
(* given to the next connection accepted.                                  *)
(*                                                                         *)
(* A connection c and its struct sockarr_t are both called c. An AP ends a *)
(* connection by closing it, or vanishes: then the kernel gives up on what *)
(* the AC sends, and what the AC never sends to stays as it is, since only *)
(* the AP's side has keepalive (tcp_connect).                              *)
(***************************************************************************)
EXTENDS Integers

CONSTANTS AP,
          Conn, Owner,    \* connections, each made once; the AP that makes it
          Fd,             \* descriptors the AC can use, numbers > 0
          NoConn,
          Room,           \* statuses that fit into NET_PKT_DATALEN, 2 in the code
          MaxSends        \* bound: statuses sent on each connection

ASSUME AcConnAssumption ==
    /\ AP # {} /\ NoConn \notin Conn /\ Owner \in [Conn -> AP]
    /\ Fd \subseteq Nat \ {0} /\ Room \in Nat \ {0} /\ MaxSends \in [Conn -> Nat]

Thread == {"net_recv", "message_travel"}

VARIABLES
    peer,           \* the AP's end: unused, backlog, up, fin, rst; gone, unacked, timeout and
                    \* dead if the AP has vanished; once the AC has closed it, done, or cut if
                    \* the AP was up
    unread, sends,  \* statuses in the socket; statuses sent (bound)
    file,           \* the connection a descriptor stands for
    epoll, ready,   \* registered connections; those with an event not yet fetched
    linked, freed,  \* the sockarr list; nodes freed
    sock,           \* sockarr->sock
    apc, acc,       \* net_netlisten: next step, connection accepted last
    npc, events,    \* net_recv: next step, events fetched and not handled
    nfd, from, got, \* net_recv: clisock, whose data it has read, how many statuses
    apsock, inbox,  \* ap.sock of each AP's record; how many statuses are to answer
    tpc, tap,       \* message_travel: next step, the AP it answers
    closing,        \* the node each thread has unlinked and not yet freed
    reply,          \* history: what the AP's status read last has got
    spent,          \* history: connections with unread data whose event malloc failed on
    fault           \* what has stopped the process

kernel == <<peer, unread, sends, file, epoll, ready>>
nodes  == <<linked, freed, sock>>
accept == <<apc, acc>>
recv   == <<npc, events, nfd, from, got>>
travel == <<tpc, tap>>
history == <<reply, spent>>
vars   == <<kernel, nodes, accept, recv, apsock, inbox, travel, closing, fault, history>>

Init ==
    /\ peer = [c \in Conn |-> "unused"]
    /\ unread = [c \in Conn |-> 0] /\ sends = [c \in Conn |-> 0]
    /\ file = [f \in Fd |-> NoConn] /\ epoll = {} /\ ready = {}
    /\ linked = {} /\ freed = {} /\ sock = [c \in Conn |-> 0]
    /\ apc = "accept" /\ acc = NoConn
    /\ npc = "wait" /\ events = {} /\ nfd = 0 /\ from = NoConn /\ got = 0
    /\ apsock = [p \in AP |-> 0] /\ inbox = [p \in AP |-> 0]
    /\ tpc = "idle" /\ tap = CHOOSE p \in AP : TRUE
    /\ closing = [t \in Thread |-> NoConn] /\ fault = "none"
    /\ reply = [p \in AP |-> "none"] /\ spent = {}

Ended(c) == peer[c] \in {"fin", "rst", "timeout", "dead"}
Open(c) == \E f \in Fd : file[f] = c
Edge(c) == ready' = IF c \in epoll THEN ready \cup {c} ELSE ready

-----------------------------------------------------------------------------
(* The APs, and the kernel's part in what they do.                         *)

Connect(c) ==
    /\ peer[c] = "unused" /\ peer' = [peer EXCEPT ![c] = "backlog"]
    /\ UNCHANGED <<unread, sends, file, epoll, ready>>

SendStatus(c) ==
    /\ peer[c] \in {"backlog", "up"} /\ sends[c] < MaxSends[c]
    /\ sends' = [sends EXCEPT ![c] = @ + 1] /\ unread' = [unread EXCEPT ![c] = @ + 1]
    /\ Edge(c)
    /\ UNCHANGED <<peer, file, epoll>>

Finish(c) ==
    /\ peer[c] = "up" /\ peer' = [peer EXCEPT ![c] = "fin"]
    /\ Edge(c)
    /\ UNCHANGED <<unread, sends, file, epoll>>

\* The AP's power or its link fails.
Vanish(c) ==
    /\ peer[c] = "up" /\ peer' = [peer EXCEPT ![c] = "gone"]
    /\ UNCHANGED <<unread, sends, file, epoll, ready>>

Peers ==
    /\ fault = "none"
    /\ \E c \in Conn : Connect(c) \/ SendStatus(c) \/ Finish(c) \/ Vanish(c)
    /\ UNCHANGED <<nodes, accept, recv, apsock, inbox, travel, closing, fault, history>>

\* The kernel gives up on what a vanished AP does not acknowledge.
TimesOut ==
    /\ fault = "none"
    /\ \E c \in Conn :
        /\ peer[c] = "unacked" /\ peer' = [peer EXCEPT ![c] = "timeout"]
        /\ Edge(c)
    /\ UNCHANGED <<unread, sends, file, epoll, nodes, accept, recv, apsock, inbox, travel,
                   closing, fault, history>>

-----------------------------------------------------------------------------
(* net_netlisten: tcp_accept, insert_sockarr.                              *)

\* The lowest descriptor is taken.
Accept ==
    /\ fault = "none" /\ apc = "accept"
    /\ \E c \in Conn, f \in Fd :
        /\ peer[c] = "backlog" /\ file[f] = NoConn
        /\ \A g \in Fd : g < f => file[g] # NoConn
        /\ peer' = [peer EXCEPT ![c] = "up"]
        /\ file' = [file EXCEPT ![f] = c] /\ sock' = [sock EXCEPT ![c] = f]
        /\ acc' = c
    /\ apc' = "add"
    /\ UNCHANGED <<unread, sends, epoll, ready, linked, freed, recv, apsock, inbox,
                   travel, closing, fault, history>>

\* EPOLL_CTL_ADD reports what is already there.
EpollAdd ==
    /\ fault = "none" /\ apc = "add" /\ apc' = "link"
    /\ epoll' = epoll \cup {acc}
    /\ ready' = IF unread[acc] > 0 \/ Ended(acc) THEN ready \cup {acc} ELSE ready
    /\ UNCHANGED <<peer, unread, sends, file, nodes, acc, recv, apsock, inbox, travel,
                   closing, fault, history>>

Link ==
    /\ fault = "none" /\ apc = "link" /\ apc' = "accept"
    /\ linked' = linked \cup {acc} /\ acc' = NoConn
    /\ UNCHANGED <<kernel, freed, sock, recv, apsock, inbox, travel, closing, fault, history>>

-----------------------------------------------------------------------------
(* delete_sockarr, under ap_lost, by either thread.                        *)

Unlink_Stays(t, f) ==                     \* faulty: the node stays in the list
    /\ closing' = [closing EXCEPT ![t] = CHOOSE c \in linked : sock[c] = f]
    /\ UNCHANGED linked

\* The node with socket f leaves the list.
Unlink(t, f) ==
    LET c == CHOOSE c \in linked : sock[c] = f
    IN  closing' = [closing EXCEPT ![t] = c] /\ linked' = linked \ {c}

InList(f) == \E c \in linked : sock[c] = f

\* EPOLL_CTL_DEL and close, by descriptor; the AP notices.
CloseSock(t) ==
    LET f == sock[closing[t]]
        c == file[f]
    IN  /\ fault = "none" /\ closing[t] # NoConn /\ closing[t] \notin freed
        /\ file' = [file EXCEPT ![f] = NoConn]
        /\ epoll' = epoll \ {c} /\ ready' = ready \ {c}
        /\ peer' = [d \in Conn |-> IF d # c THEN peer[d]
                                  ELSE IF peer[d] = "up" THEN "cut" ELSE "done"]
        /\ freed' = freed \cup {closing[t]}
        /\ closing' = [closing EXCEPT ![t] = NoConn]
        /\ UNCHANGED <<unread, sends, linked, sock, accept, recv, apsock, inbox,
                       travel, fault, history>>

-----------------------------------------------------------------------------
(* net_recv: epoll_wait, __net_netrcv, tcp_rcv.                            *)

\* epoll_wait: the events are what is true of the ready sockets now.
Wait ==
    /\ fault = "none" /\ npc = "wait" /\ ready # {}
    /\ events' = {[conn |-> c, end |-> Ended(c)] : c \in {d \in ready : unread[d] > 0 \/ Ended(d)}}
    /\ ready' = {} /\ npc' = "next"
    /\ UNCHANGED <<peer, unread, sends, file, epoll, nodes, accept, nfd, from, got, apsock,
                   inbox, travel, closing, fault, history>>

NextEvent_First ==                        \* faulty: the other events are dropped
    /\ fault = "none" /\ npc = "next" /\ closing["net_recv"] = NoConn
    /\ IF events = {} THEN npc' = "wait" /\ UNCHANGED <<events, nfd, fault>>
       ELSE \E e \in events :
            /\ events' = {} /\ nfd' = sock[e.conn]
            /\ IF e.conn \in freed THEN fault' = "use after free" /\ UNCHANGED npc
               ELSE npc' = (IF e.end THEN "lost" ELSE "read") /\ UNCHANGED fault
    /\ from' = NoConn /\ got' = 0
    /\ UNCHANGED <<kernel, nodes, accept, apsock, inbox, travel, closing, history>>

\* The next event: a node that message_travel has freed is no node any more.
NextEvent ==
    /\ fault = "none" /\ npc = "next" /\ closing["net_recv"] = NoConn
    /\ IF events = {} THEN npc' = "wait" /\ UNCHANGED <<events, nfd, fault>>
       ELSE \E e \in events :
            /\ events' = events \ {e} /\ nfd' = sock[e.conn]
            /\ IF e.conn \in freed THEN fault' = "use after free" /\ UNCHANGED npc
               ELSE npc' = (IF e.end THEN "lost" ELSE "read") /\ UNCHANGED fault
    /\ from' = NoConn /\ got' = 0
    /\ UNCHANGED <<kernel, nodes, accept, apsock, inbox, travel, closing, history>>

\* ap_lost(clisock): nothing if the list has no such socket.
Lost ==
    /\ fault = "none" /\ npc = "lost" /\ npc' = "next"
    /\ IF InList(nfd) THEN Unlink("net_recv", nfd) ELSE UNCHANGED <<closing, linked>>
    /\ UNCHANGED <<kernel, freed, sock, accept, events, nfd, from, got, apsock, inbox,
                   travel, fault, history>>

NoMemory_Lost ==                          \* faulty: as if the read had failed
    /\ fault = "none" /\ npc = "read" /\ got = 0 /\ npc' = "lost"
    /\ spent' = spent \cup {c \in Conn : file[nfd] = c /\ unread[c] > 0}
    /\ UNCHANGED <<kernel, nodes, accept, events, nfd, from, got, apsock, inbox, travel,
                   closing, fault, reply>>

\* The malloc before it fails: the event is spent, the data stays.
NoMemory ==
    /\ fault = "none" /\ npc = "read" /\ got = 0 /\ npc' = "next"
    /\ spent' = spent \cup {c \in Conn : file[nfd] = c /\ unread[c] > 0}
    /\ UNCHANGED <<kernel, nodes, accept, events, nfd, from, got, apsock, inbox, travel,
                   closing, fault, reply>>

\* recv has data: all that came so far, or as much of it as there is room for.
ReadData ==
    /\ fault = "none" /\ npc = "read" /\ file[nfd] # NoConn /\ got <= Room
    /\ LET c == file[nfd]
           n == got + unread[c]
       IN  /\ unread[c] > 0
           /\ unread' = [unread EXCEPT ![c] = IF n > Room THEN n - Room ELSE 0]
           /\ got' = IF n > Room THEN Room + 1 ELSE n
           /\ from' = IF from = NoConn THEN c ELSE from
           /\ reply' = [reply EXCEPT ![Owner[c]] = "none"] /\ spent' = spent \ {c}
    /\ UNCHANGED <<peer, sends, file, epoll, ready, nodes, accept, npc, events, nfd,
                   apsock, inbox, travel, closing, fault>>

\* recv returns 0: at the end of the connection, and for want of room.
RecvZero(c) == IF unread[c] > 0 THEN got > Room ELSE Ended(c) /\ peer[c] # "timeout"

\* What was read is one message of the AP that its first bytes name, and this its
\* socket; the statuses behind the first are not looked at.
Message ==
    IF from = NoConn THEN npc' = "lost" /\ UNCHANGED <<apsock, inbox>>
    ELSE /\ npc' = "next"
         /\ apsock' = [apsock EXCEPT ![Owner[from]] = nfd]
         /\ inbox' = [inbox EXCEPT ![Owner[from]] = @ + 1]

\* recv has none: 0 trips assert(len != 0); no data now (EAGAIN), no such socket
\* (EBADF) or an error (ETIMEDOUT, reported once) ends the read.
ReadEnd ==
    /\ fault = "none" /\ npc = "read"
    /\ \/ /\ \E c \in Conn : file[nfd] = c /\ RecvZero(c)
          /\ fault' = "assert" /\ UNCHANGED <<npc, apsock, inbox, peer>>
       \/ /\ \A c \in Conn : file[nfd] = c => unread[c] = 0 /\ ~RecvZero(c)
          /\ Message
          /\ peer' = [c \in Conn |-> IF file[nfd] = c /\ peer[c] = "timeout" THEN "dead"
                                    ELSE peer[c]]
          /\ UNCHANGED fault
    /\ UNCHANGED <<unread, sends, file, epoll, ready, nodes, accept, events, nfd, from, got,
                   travel, closing, history>>

-----------------------------------------------------------------------------
(* message_travel: __ap_status and tcp_sendpkt.                            *)

TravelTake_Drop ==                        \* faulty: one message per round
    /\ fault = "none" /\ tpc = "idle" /\ closing["message_travel"] = NoConn /\ tpc' = "send"
    /\ \E p \in AP : inbox[p] > 0 /\ tap' = p /\ inbox' = [q \in AP |-> 0]
    /\ UNCHANGED <<kernel, nodes, accept, recv, apsock, closing, fault, history>>

\* The next status of an AP, whichever record it is at.
TravelTake ==
    /\ fault = "none" /\ tpc = "idle" /\ closing["message_travel"] = NoConn /\ tpc' = "send"
    /\ \E p \in AP : inbox[p] > 0 /\ tap' = p /\ inbox' = [inbox EXCEPT ![p] = @ - 1]
    /\ UNCHANGED <<kernel, nodes, accept, recv, apsock, closing, fault, history>>

\* The status being answered is the last that was read from the AP.
Latest == inbox[tap] = 0 /\ ~(npc = "read" /\ from # NoConn /\ Owner[from] = tap)

\* A malloc of __ap_status fails: the second one leaves the status without an answer,
\* the first one, of __buildcmd, is not checked.
TravelNoMemory ==
    /\ fault = "none" /\ tpc = "send" /\ tpc' = "idle"
    /\ \/ fault' = "NULL" /\ UNCHANGED reply
       \/ reply' = (IF Latest THEN [reply EXCEPT ![tap] = "no memory"] ELSE reply)
          /\ UNCHANGED fault
    /\ UNCHANGED <<kernel, nodes, accept, recv, apsock, inbox, tap, closing, spent>>

\* What a send makes of the peer: an ended connection takes it and is reset, a
\* vanished AP does not acknowledge it, an error is reported once.
AfterSend == [fin |-> "rst", gone |-> "unacked", timeout |-> "dead"]

\* The command goes to whatever ap->sock is now. A connection that is reset, or
\* whose error was reported before, raises SIGPIPE.
TravelSend ==
    LET f == apsock[tap]
        c == IF f \in Fd THEN file[f] ELSE NoConn
        was == IF c = NoConn THEN "closed" ELSE peer[c]
    IN  /\ fault = "none" /\ tpc = "send"
        /\ tpc' = IF was \in {"closed", "timeout"} THEN "lost" ELSE "idle"
        /\ fault' = IF was \in {"rst", "dead"} THEN "SIGPIPE" ELSE fault
        /\ IF was \in DOMAIN AfterSend
           THEN peer' = [peer EXCEPT ![c] = AfterSend[was]]
           ELSE UNCHANGED peer
        /\ IF was = "fin" THEN Edge(c) ELSE UNCHANGED ready
        /\ reply' = IF was = "up" /\ Owner[c] = tap /\ Latest
                    THEN [reply EXCEPT ![tap] = "command"] ELSE reply
        /\ UNCHANGED spent
        /\ UNCHANGED <<unread, sends, file, epoll, nodes, accept, recv, apsock, inbox,
                       tap, closing>>

TravelLost_Reset ==                       \* faulty: the record is left with -1
    /\ fault = "none" /\ tpc = "lost" /\ tpc' = "idle"
    /\ apsock' = [apsock EXCEPT ![tap] = -1]
    /\ UNCHANGED <<kernel, nodes, accept, recv, closing, inbox, tap, fault, history>>

\* The send failed: ap_lost(ap->sock), read anew.
TravelLost ==
    /\ fault = "none" /\ tpc = "lost" /\ tpc' = "idle"
    /\ IF InList(apsock[tap]) THEN Unlink("message_travel", apsock[tap])
       ELSE UNCHANGED <<closing, linked>>
    /\ UNCHANGED <<kernel, freed, sock, accept, recv, apsock, inbox, tap, fault, history>>

-----------------------------------------------------------------------------
NetListen == Accept \/ EpollAdd \/ Link
NetRecv == Wait \/ NextEvent \/ Lost \/ NoMemory \/ ReadData \/ ReadEnd \/ CloseSock("net_recv")
Travel == TravelTake \/ TravelNoMemory \/ TravelSend \/ TravelLost \/ CloseSock("message_travel")

Next == Peers \/ TimesOut \/ NetListen \/ NetRecv \/ Travel

Spec == Init /\ [][Next]_vars

\* The three threads keep running, and the kernel's timers.
FairSpec == Spec /\ WF_vars(TimesOut) /\ WF_vars(NetListen) /\ WF_vars(NetRecv) /\ WF_vars(Travel)

-----------------------------------------------------------------------------
PeerState == {"unused", "backlog", "up", "fin", "rst", "done", "gone", "unacked",
              "timeout", "dead", "cut"}
Fault == {"none", "assert", "use after free", "SIGPIPE", "NULL"}
Reply == {"none", "command", "no memory"}

TypeOK ==
    /\ peer \in [Conn -> PeerState]
    /\ unread \in [Conn -> Nat] /\ sends \in [Conn -> Nat]
    /\ \A c \in Conn : unread[c] <= sends[c] /\ sends[c] <= MaxSends[c]
    /\ file \in [Fd -> Conn \cup {NoConn}]
    /\ epoll \subseteq Conn /\ ready \subseteq epoll
    /\ linked \subseteq Conn /\ freed \subseteq Conn
    /\ sock \in [Conn -> Fd \cup {0}]
    /\ apc \in {"accept", "add", "link"} /\ acc \in Conn \cup {NoConn}
    /\ npc \in {"wait", "next", "read", "lost"}
    /\ events \subseteq [conn : Conn, end : BOOLEAN]
    /\ nfd \in Fd \cup {0} /\ from \in Conn \cup {NoConn} /\ got \in 0 .. Room + 1
    /\ apsock \in [AP -> Fd \cup {0}] /\ inbox \in [AP -> Nat]
    /\ tpc \in {"idle", "send", "lost"} /\ tap \in AP
    /\ closing \in [Thread -> Conn \cup {NoConn}]
    /\ fault \in Fault /\ reply \in [AP -> Reply] /\ spent \subseteq Conn

\* A node in the list, or on its way out of it, stands for the connection its
\* descriptor stands for, in one place only: dropping a node closes the socket it was
\* made for, and no node is freed twice, with two threads dropping connections and
\* descriptors used again. Whether it is the node that was meant is another question.
Holders(c) == {h \in Thread \cup {"list"} : IF h = "list" THEN c \in linked
                                            ELSE closing[h] = c}
NodeOwnsSocket ==
    \A c \in Conn : \A h \in Holders(c) :
        Holders(c) = {h} /\ c \notin freed /\ file[sock[c]] = c /\ c \in epoll

\* A connection that the AC or its AP has ended.
Over(c) == peer[c] \in {"fin", "rst", "timeout", "dead", "done", "cut"}

\* ap_lost and __ap_status know a connection by its number only (ac/process.c:98-101,
\* 170-174), so that they may hit another. A connection is dropped though its AP is up
\* only for another one that is over: a former holder of its number, or a former
\* connection of its own AP, whose number ap->sock was before it was read again. A
\* command goes to another AP only on the number of a connection of its own that is over.
WrongOnlyForOver ==
    \A c \in Conn :
        /\ peer[c] = "cut" =>
            \E d \in Conn : Over(d) /\ d # c /\ (sock[d] = sock[c] \/ Owner[d] = Owner[c])
        /\ \A p \in AP : apsock[p] \in Fd /\ file[apsock[p]] = c /\ Owner[c] # p =>
            \E d \in Conn : Over(d) /\ Owner[d] = p /\ sock[d] = sock[c]

\* No data waits in a registered socket without an event for it on the way, at
\* an edge-triggered epoll, since tcp_rcv reads until EAGAIN; except where malloc
\* failed at an event (ac/net.c:97).
NoEdgeLost ==
    \A c \in epoll : unread[c] > 0 /\ peer[c] = "up" =>
        \/ fault # "none" \/ c \in ready \/ c \in spent
        \/ \E e \in events : e.conn = c
        \/ npc = "read" /\ nfd = sock[c]
        \/ \E t \in Thread : closing[t] = c

\* Data on a connection that stays up gets read, if malloc does not fail at its event.
StatusRead ==
    \A c \in Conn : unread[c] > 0 /\ peer[c] = "up"
                     ~> unread[c] = 0 \/ peer[c] # "up" \/ c \in spent \/ fault # "none"

\* A status gets a command back, on a connection of its own AP (ac/process.c:98), if
\* malloc does not fail, unless the AP ends the connection it came on, or the AC cuts it
\* in the place of another (WrongOnlyForOver). This is for an AP with one connection: one
\* that has made another is answered on that, and not at all if it has ended.
EndedByAp(c) == peer[c] \in {"fin", "rst", "gone", "unacked", "timeout", "dead", "done"}
StatusAnswered ==
    \A c \in Conn : npc = "read" /\ from = c
        ~> \/ reply[Owner[c]] \in {"command", "no memory"}
           \/ EndedByAp(c) \/ peer[c] = "cut" \/ fault # "none"

\* "when the tcp link is broken the ap is taken to be lost" (README.md:38): a
\* connection whose end is still to be reported when its node is in the list is
\* dropped, and so is that of a vanished AP that the AC has sent to. One whose end is
\* reported earlier, between EPOLL_CTL_ADD and the list_add of insert_sockarr
\* (lib/link.c:166-176), or of a vanished AP that is sent nothing, is kept for ever.
Reported(c) == c \in ready \/ \E e \in events : e.conn = c /\ e.end
LostApDropped ==
    \A c \in Conn : c \in linked /\ (peer[c] = "unacked" \/ (Ended(c) /\ Reported(c)))
                     ~> ~Open(c) \/ fault # "none"

\* assert(len != 0) (lib/netlayer.c:129).
RecvNeverEnds == fault # "assert"
=============================================================================
