------------------------------- MODULE ApConn -------------------------------
(***************************************************************************)
(* The AP's one TCP connection (ap/process.c, ap/net.c, lib/link.c):       *)
(* sysstat.sock, set by ac_reconnect under sysstat.lock and written        *)
(* without it by ac_lost and proc_reg_resp. report_apstatus sends on it    *)
(* and reconnects when that fails; message_travel, on a RESP, turns to the *)
(* AC the RESP names; net_recv drops it when epoll reports its end.        *)
(*                                                                         *)
(* A connection and the struct sockarr_t ac_reconnect makes for it have    *)
(* the same name, which is used again when both are gone. The commands an  *)
(* AC sends, which the AP prints, are left out: of the events only the end *)
(* of a connection is modelled (tcp_rcv is in AcConn).                     *)
(***************************************************************************)
EXTENDS Integers, Sequences, SequencesExt

CONSTANTS AC, NoAc,
          Remote,        \* argument.acaddr, configured, or NoAc
          Conn, NoConn,
          Fd,            \* descriptors free for connections
          MaxResps, MaxEnds, MaxFails
                         \* bounds: RESPs handled, connections the ACs end,
                         \* connects refused

ASSUME ApConnAssumption ==
    /\ NoAc \notin AC /\ Remote \in AC \cup {NoAc} /\ NoConn \notin Conn
    /\ Fd \subseteq Nat
    /\ MaxResps \in Nat /\ MaxEnds \in Nat /\ MaxFails \in Nat

Caller == {"travel", "report"}      \* of ac_reconnect
Loser  == {"net_recv", "report"}    \* of ac_lost

VARIABLES
    sock, server,      \* sysstat.sock, sysstat.server
    lock,              \* who holds sysstat.lock
    file, to, peer,    \* connection of a descriptor; its AC; the AC's end of it
    reg, ready,        \* node registered for a connection; events not yet fetched
    linked, fd, freed, \* the sockarr list; sockarr->sock; nodes freed
    rpc, raddr, rnode, \* ac_reconnect: next step, address, connection made
    lpc, closing,      \* ac_lost: next step, node taken out of the list
    tpc, ppc,          \* message_travel, report_apstatus
    npc, events,       \* net_recv, and the nodes epoll_wait returned
    fault,             \* what has stopped the process
    resps, ends, fails \* counted against the bounds

kernel == <<file, to, peer, reg, ready>>
nodes  == <<linked, fd, freed>>
reconn == <<lock, rpc, raddr, rnode>>
lose   == <<lpc, closing>>
bounds == <<resps, ends, fails>>
vars   == <<sock, server, kernel, nodes, reconn, lose, tpc, ppc, npc, events, fault, bounds>>

Init ==
    /\ sock = -1 /\ server = Remote /\ lock = "free"
    /\ file = [f \in Fd |-> NoConn] /\ to = [c \in Conn |-> NoAc]
    /\ peer = [c \in Conn |-> "up"]
    /\ reg = [c \in Conn |-> NoConn] /\ ready = {}
    /\ linked = << >> /\ fd = [c \in Conn |-> -1] /\ freed = {}
    /\ rpc = [t \in Caller |-> "out"] /\ raddr = [t \in Caller |-> NoAc]
    /\ rnode = [t \in Caller |-> NoConn]
    /\ lpc = [t \in Loser |-> "out"] /\ closing = [t \in Loser |-> NoConn]
    /\ tpc = "idle" /\ ppc = "look" /\ npc = "wait" /\ events = {}
    /\ fault = "none" /\ resps = 0 /\ ends = 0 /\ fails = 0

\* The connection sysstat.sock stands for.
Current == IF sock \in Fd THEN file[sock] ELSE NoConn

\* close(f): the kernel takes the connection out of epoll, too.
Closed(f) ==
    /\ file' = [file EXCEPT ![f] = NoConn]
    /\ reg' = [c \in Conn |-> IF c = file[f] THEN NoConn ELSE reg[c]]
    /\ ready' = ready \ {file[f]}
    /\ UNCHANGED <<to, peer>>

-----------------------------------------------------------------------------
(* The ACs.                                                                *)

AcEnds(c) ==
    /\ fault = "none" /\ ends < MaxEnds /\ ends' = ends + 1
    /\ peer[c] = "up" /\ \E f \in Fd : file[f] = c
    /\ peer' = [peer EXCEPT ![c] = "fin"]
    /\ ready' = IF reg[c] # NoConn THEN ready \cup {c} ELSE ready
    /\ UNCHANGED <<sock, server, file, to, reg, nodes, reconn, lose, tpc, ppc, npc,
                   events, fault, resps, fails>>

-----------------------------------------------------------------------------
(* ac_reconnect.                                                           *)

\* No server, nothing to do (read without the lock).
ReBegin(t) ==
    /\ fault = "none" /\ rpc[t] = "begin"
    /\ rpc' = [rpc EXCEPT ![t] = IF server = NoAc THEN "done" ELSE "lock"]
    /\ UNCHANGED <<sock, server, kernel, nodes, lock, raddr, rnode, lose, tpc, ppc, npc,
                   events, fault, bounds>>

ReLock_NoCheck(t) ==                      \* faulty: connects in any case
    /\ fault = "none" /\ rpc[t] = "lock" /\ lock = "free"
    /\ lock' = t /\ raddr' = [raddr EXCEPT ![t] = server]
    /\ rpc' = [rpc EXCEPT ![t] = "connect"]
    /\ UNCHANGED <<sock, server, kernel, nodes, rnode, lose, tpc, ppc, npc, events,
                   fault, bounds>>

\* Under the lock: another thread may have reconnected.
ReLock(t) ==
    /\ fault = "none" /\ rpc[t] = "lock" /\ lock = "free"
    /\ IF sock >= 0 THEN rpc' = [rpc EXCEPT ![t] = "done"] /\ UNCHANGED <<lock, raddr>>
       ELSE /\ lock' = t /\ raddr' = [raddr EXCEPT ![t] = server]
            /\ rpc' = [rpc EXCEPT ![t] = "connect"]
    /\ UNCHANGED <<sock, server, kernel, nodes, rnode, lose, tpc, ppc, npc, events,
                   fault, bounds>>

\* Connections that are leaked hold their descriptors for ever.
NoFdLeft == \A f \in Fd : file[f] # NoConn

\* socket fails when no descriptor is left; connect fails when the AC refuses.
ReRefused(t) ==
    /\ fault = "none" /\ rpc[t] = "connect"
    /\ IF NoFdLeft THEN UNCHANGED fails ELSE fails < MaxFails /\ fails' = fails + 1
    /\ lock' = "free" /\ rpc' = [rpc EXCEPT ![t] = "done"]
    /\ UNCHANGED <<sock, server, kernel, nodes, raddr, rnode, lose, tpc, ppc, npc,
                   events, fault, resps, ends>>

\* A name nothing holds any more.
Fresh(c) ==
    /\ \A f \in Fd : file[f] # c /\ \A d \in Conn : reg[d] # c
    /\ c \notin ToSet(linked) /\ c \notin events
    /\ \A t \in Loser : closing[t] # c /\ \A u \in Caller : rnode[u] # c

\* tcp_connect takes the lowest descriptor; sysstat.sock is set and unlocked.
ReConnect(t) ==
    /\ fault = "none" /\ rpc[t] = "connect"
    /\ \E f \in Fd, c \in Conn :
        /\ file[f] = NoConn /\ \A g \in Fd : g < f => file[g] # NoConn
        /\ Fresh(c)
        /\ file' = [file EXCEPT ![f] = c] /\ to' = [to EXCEPT ![c] = raddr[t]]
        /\ peer' = [peer EXCEPT ![c] = "up"]
        /\ sock' = f /\ fd' = [fd EXCEPT ![c] = f] /\ freed' = freed \ {c}
        /\ rnode' = [rnode EXCEPT ![t] = c]
    /\ lock' = "free" /\ rpc' = [rpc EXCEPT ![t] = "add"]
    /\ UNCHANGED <<server, reg, ready, linked, raddr, lose, tpc, ppc, npc, events,
                   fault, bounds>>

\* insert_sockarr: nothing on a socket that was closed meanwhile (net_nonblock
\* fails); EPOLL_CTL_ADD of a socket it has exits.
ReAdd(t) ==
    LET n == rnode[t]
        c == file[fd[n]]
    IN  /\ fault = "none" /\ rpc[t] = "add"
        /\ IF c = NoConn
           THEN /\ rpc' = [rpc EXCEPT ![t] = "done"] /\ rnode' = [rnode EXCEPT ![t] = NoConn]
                /\ UNCHANGED <<reg, ready, fault>>
           ELSE /\ rpc' = [rpc EXCEPT ![t] = "link"]
                /\ fault' = IF reg[c] # NoConn THEN "exit" ELSE fault
                /\ reg' = [reg EXCEPT ![c] = n]
                /\ ready' = IF peer[c] # "up" THEN ready \cup {c} ELSE ready
                /\ UNCHANGED rnode
        /\ UNCHANGED <<sock, server, file, to, peer, nodes, lock, raddr, lose, tpc, ppc,
                       npc, events, bounds>>

ReLink(t) ==
    /\ fault = "none" /\ rpc[t] = "link" /\ rpc' = [rpc EXCEPT ![t] = "done"]
    /\ linked' = Append(linked, rnode[t]) /\ rnode' = [rnode EXCEPT ![t] = NoConn]
    /\ UNCHANGED <<sock, server, kernel, fd, freed, lock, raddr, lose, tpc, ppc, npc,
                   events, fault, bounds>>

Reconnect(t) ==
    ReBegin(t) \/ ReLock(t) \/ ReRefused(t) \/ ReConnect(t) \/ ReAdd(t) \/ ReLink(t)

-----------------------------------------------------------------------------
(* ac_lost: delete_sockarr(sysstat.sock), then sysstat.sock = -1.          *)

\* The first node in the list that has this socket, if one has.
LostUnlink(t) ==
    /\ fault = "none" /\ lpc[t] = "delete"
    /\ LET hits == {i \in DOMAIN linked : fd[linked[i]] = sock}
       IN  IF hits = {} THEN lpc' = [lpc EXCEPT ![t] = "clear"] /\ UNCHANGED <<linked, closing>>
           ELSE LET i == CHOOSE i \in hits : \A j \in hits : i <= j
                IN  /\ lpc' = [lpc EXCEPT ![t] = "close"]
                    /\ linked' = RemoveAt(linked, i)
                    /\ closing' = [closing EXCEPT ![t] = linked[i]]
    /\ UNCHANGED <<sock, server, kernel, fd, freed, reconn, tpc, ppc, npc, events, fault, bounds>>

LostClose(t) ==
    /\ fault = "none" /\ lpc[t] = "close" /\ lpc' = [lpc EXCEPT ![t] = "clear"]
    /\ Closed(fd[closing[t]])
    /\ freed' = freed \cup {closing[t]} /\ closing' = [closing EXCEPT ![t] = NoConn]
    /\ UNCHANGED <<sock, server, linked, fd, reconn, tpc, ppc, npc, events, fault, bounds>>

LostClear_Not(t) ==                       \* faulty: sysstat.sock keeps its value
    /\ fault = "none" /\ lpc[t] = "clear" /\ lpc' = [lpc EXCEPT ![t] = "done"]
    /\ UNCHANGED <<sock, server, kernel, nodes, reconn, closing, tpc, ppc, npc, events,
                   fault, bounds>>

LostClear_Zero(t) ==                      \* faulty: 0 for "no socket"
    /\ fault = "none" /\ lpc[t] = "clear" /\ lpc' = [lpc EXCEPT ![t] = "done"]
    /\ sock' = 0
    /\ UNCHANGED <<server, kernel, nodes, reconn, closing, tpc, ppc, npc, events, fault,
                   bounds>>

LostClear(t) ==
    /\ fault = "none" /\ lpc[t] = "clear" /\ lpc' = [lpc EXCEPT ![t] = "done"]
    /\ sock' = -1
    /\ UNCHANGED <<server, kernel, nodes, reconn, closing, tpc, ppc, npc, events, fault,
                   bounds>>

AcLost(t) == LostUnlink(t) \/ LostClose(t) \/ LostClear(t)

-----------------------------------------------------------------------------
(* net_recv: epoll_wait, __net_netrcv. The event tells that a connection   *)
(* has ended, and ac_lost drops the one sysstat.sock stands for by then.   *)

Wait ==
    /\ fault = "none" /\ npc = "wait" /\ ready # {}
    /\ events' = {reg[c] : c \in ready} /\ ready' = {} /\ npc' = "next"
    /\ UNCHANGED <<sock, server, file, to, peer, reg, nodes, reconn, lose, tpc, ppc,
                   fault, bounds>>

NextEvent ==
    /\ fault = "none" /\ npc = "next" /\ lpc["net_recv"] \in {"out", "done"}
    /\ IF events = {}
       THEN /\ npc' = "wait" /\ lpc' = [lpc EXCEPT !["net_recv"] = "out"]
            /\ UNCHANGED <<events, fault>>
       ELSE \E n \in events :
            /\ events' = events \ {n}
            /\ IF n \in freed THEN fault' = "use after free" /\ UNCHANGED lpc
               ELSE lpc' = [lpc EXCEPT !["net_recv"] = "delete"] /\ UNCHANGED fault
            /\ UNCHANGED npc
    /\ UNCHANGED <<sock, server, kernel, nodes, reconn, closing, tpc, ppc, bounds>>

-----------------------------------------------------------------------------
(* message_travel: proc_reg_resp.                                          *)

\* A RESP that passed its CHAP names the AC's address.
RespServer(a) ==
    /\ fault = "none" /\ tpc = "idle" /\ resps < MaxResps /\ resps' = resps + 1
    /\ server' = a /\ tpc' = "close"
    /\ UNCHANGED <<sock, kernel, nodes, reconn, lose, ppc, npc, events, fault, ends, fails>>

\* if(sysstat.sock >= 0) close(sysstat.sock): sysstat.sock and the list keep it.
RespClose ==
    /\ fault = "none" /\ tpc = "close" /\ tpc' = "reconnect"
    /\ IF sock >= 0 THEN Closed(sock) ELSE UNCHANGED kernel
    /\ rpc' = [rpc EXCEPT !["travel"] = "begin"]
    /\ UNCHANGED <<sock, server, nodes, lock, raddr, rnode, lose, ppc, npc, events,
                   fault, bounds>>

RespDone ==
    /\ fault = "none" /\ tpc = "reconnect" /\ rpc["travel"] = "done"
    /\ tpc' = "idle" /\ rpc' = [rpc EXCEPT !["travel"] = "out"]
    /\ UNCHANGED <<sock, server, kernel, nodes, lock, raddr, rnode, lose, ppc, npc,
                   events, fault, bounds>>

-----------------------------------------------------------------------------
(* report_apstatus, once every reportitv seconds.                          *)

ReportLook ==
    /\ fault = "none" /\ ppc = "look"
    /\ IF sock >= 0 THEN ppc' = "send" /\ UNCHANGED rpc
       ELSE ppc' = "reconnect" /\ rpc' = [rpc EXCEPT !["report"] = "begin"]
    /\ UNCHANGED <<sock, server, kernel, nodes, lock, raddr, rnode, lose, tpc, npc,
                   events, fault, bounds>>

\* An ended connection takes one status more and is reset; then SIGPIPE.
ReportSend ==
    LET c == Current
    IN  /\ fault = "none" /\ ppc = "send"
        /\ IF c = NoConn
           THEN ppc' = "lost" /\ lpc' = [lpc EXCEPT !["report"] = "delete"]
           ELSE ppc' = "look" /\ UNCHANGED lpc
        /\ IF c # NoConn /\ peer[c] = "fin"
           THEN /\ peer' = [peer EXCEPT ![c] = "rst"]
                /\ ready' = IF reg[c] # NoConn THEN ready \cup {c} ELSE ready
           ELSE UNCHANGED <<peer, ready>>
        /\ fault' = IF c # NoConn /\ peer[c] = "rst" THEN "SIGPIPE" ELSE fault
        /\ UNCHANGED <<sock, server, file, to, reg, nodes, reconn, closing, tpc, npc,
                       events, bounds>>

ReportLost ==
    /\ fault = "none" /\ ppc = "lost" /\ lpc["report"] = "done"
    /\ ppc' = "reconnect" /\ lpc' = [lpc EXCEPT !["report"] = "out"]
    /\ rpc' = [rpc EXCEPT !["report"] = "begin"]
    /\ UNCHANGED <<sock, server, kernel, nodes, lock, raddr, rnode, closing, tpc, npc,
                   events, fault, bounds>>

ReportDone ==
    /\ fault = "none" /\ ppc = "reconnect" /\ rpc["report"] = "done"
    /\ ppc' = "look" /\ rpc' = [rpc EXCEPT !["report"] = "out"]
    /\ UNCHANGED <<sock, server, kernel, nodes, lock, raddr, rnode, lose, tpc, npc,
                   events, fault, bounds>>

-----------------------------------------------------------------------------
NetRecv == Wait \/ NextEvent \/ AcLost("net_recv")
Travel == RespClose \/ RespDone \/ Reconnect("travel")
Report == ReportLook \/ ReportSend \/ ReportLost \/ ReportDone
          \/ Reconnect("report") \/ AcLost("report")

Next == NetRecv \/ Travel \/ Report
        \/ \E c \in Conn : AcEnds(c)
        \/ \E a \in AC : RespServer(a)

Spec == Init /\ [][Next]_vars

\* The three threads keep running; the report comes round every reportitv.
FairSpec == Spec /\ WF_vars(NetRecv) /\ WF_vars(Travel) /\ WF_vars(Report)

-----------------------------------------------------------------------------
TypeOK ==
    /\ sock \in Fd \cup {-1} /\ server \in AC \cup {NoAc}
    /\ lock \in Caller \cup {"free"}
    /\ file \in [Fd -> Conn \cup {NoConn}] /\ to \in [Conn -> AC \cup {NoAc}]
    /\ peer \in [Conn -> {"up", "fin", "rst"}]
    /\ reg \in [Conn -> Conn \cup {NoConn}] /\ ready \subseteq Conn
    /\ linked \in Seq(Conn) /\ fd \in [Conn -> Fd \cup {-1}] /\ freed \subseteq Conn
    /\ rpc \in [Caller -> {"out", "begin", "lock", "connect", "add", "link", "done"}]
    /\ raddr \in [Caller -> AC \cup {NoAc}] /\ rnode \in [Caller -> Conn \cup {NoConn}]
    /\ lpc \in [Loser -> {"out", "delete", "close", "clear", "done"}]
    /\ closing \in [Loser -> Conn \cup {NoConn}]
    /\ tpc \in {"idle", "close", "reconnect"}
    /\ ppc \in {"look", "send", "lost", "reconnect"}
    /\ npc \in {"wait", "next"} /\ events \subseteq Conn
    /\ fault \in {"none", "use after free", "exit", "SIGPIPE"}
    /\ resps \in 0 .. MaxResps /\ ends \in 0 .. MaxEnds /\ fails \in 0 .. MaxFails

\* "other process have reconnect" (ap/process.c:56): no thread puts its
\* connection in the place of one that another thread made, although sock is
\* written outside the lock, too.
NoneOverwritten ==
    \A t \in Caller : rpc[t] = "connect" => lock = t /\ sock = -1

\* Whatever the threads do to each other and to sysstat.sock (ap/process.c:48-75,
\* 296-299, 334-339), the AP gets a connection back, until one of the faults ends
\* the process or the connections it has leaked take its last descriptor.
Reconnects ==
    []<>(\/ server = NoAc \/ fault # "none" \/ NoFdLeft
         \/ Current # NoConn /\ peer[Current] = "up")

\* "ap will first connect remote ac, but if find local ac, ap will connect to
\* local ac" (ap/process.c:94): some day every connection is to the AC named last.
LocalAcWins ==
    <>[](server = NoAc \/ fault # "none" \/ (Current # NoConn => to[Current] = server))
=============================================================================
