------------------------------ MODULE DllRecv ------------------------------
(***************************************************************************)
(* How the AC reads its layer-2 socket (lib/link.c, lib/dllayer.c,         *)
(* ac/net.c): net_recv waits for it edge-triggered (EPOLLET) and           *)
(* __net_dllrecv receives one frame per event. The APs answer a broadcast  *)
(* each with a REG; a REG read after the next broadcast fails its CHAP     *)
(* (see Registration). The link may go down, which is an event of its own, *)
(* and the AC may restart with answers on their way.                       *)
(***************************************************************************)
EXTENDS Integers, Sequences

CONSTANTS AP,
          RcvBuf,       \* frames the socket holds
          MaxRestarts, MaxDowns, MaxNoMem
                        \* bounds: restarts, failures of the link and of malloc

ASSUME DllRecvAssumption ==
    /\ RcvBuf \in Nat \ {0}
    /\ MaxRestarts \in Nat /\ MaxDowns \in Nat /\ MaxNoMem \in Nat

VARIABLES
    socket, err,            \* frames not received; an error not yet reported (ENETDOWN)
    edge, npc,              \* an event not yet fetched; net_recv's next step
    rcvpkt, left,           \* rcvpkt holds some frame; dllrcv.lock was left locked
    queue,                  \* messages for message_travel
    link,                   \* the NIC is up
    owed, resp,             \* REGs and RESPs on their way
    registered,             \* APs with sysstat.isreg
    restarts, downs, nomem  \* counted against the bounds

receiver == <<socket, err, edge, npc, rcvpkt, left>>
segment == <<link, owed, resp>>
counts == <<restarts, downs, nomem>>
vars == <<receiver, queue, segment, registered, counts>>

Frame == [from : AP, fresh : BOOLEAN]    \* fresh: answers the latest broadcast

Stale(f) == [f EXCEPT !.fresh = FALSE]

Init ==
    /\ socket = << >> /\ err = FALSE /\ edge = FALSE /\ npc = "start"
    /\ rcvpkt = FALSE /\ left = FALSE /\ queue = << >>
    /\ link = TRUE /\ owed = {} /\ resp = {} /\ registered = {}
    /\ restarts = 0 /\ downs = 0 /\ nomem = 0

\* sendto: what is sent gets on its way if the link is up; the result is not looked at.
dll_brdcast(frames) == IF link THEN frames ELSE {}
dll_sendpkt(aps) == IF link THEN aps ELSE {}

-----------------------------------------------------------------------------
(* The AC.                                                                 *)

\* net_recv has nothing to do, or hangs on the lock that was left locked.
AtRest == (npc = "wait" /\ ~edge) \/ (npc = "read" /\ left)

\* net_dllbrd, every brditv seconds: by then all has come to rest (TimedRegistration).
Broadcast ==
    /\ owed = {} /\ resp = {} /\ queue = << >> /\ AtRest
    /\ socket' = [i \in DOMAIN socket |-> Stale(socket[i])]
    /\ owed' = dll_brdcast({[from |-> p, fresh |-> TRUE] : p \in AP \ registered})
    /\ UNCHANGED <<err, edge, npc, rcvpkt, left, queue, link, resp, registered, counts>>

\* net_init: the socket has been bound for a while when it is put into epoll.
EpollAdd ==
    /\ npc = "start" /\ npc' = "wait"
    /\ edge' = (socket # << >> \/ err)
    /\ UNCHANGED <<socket, err, rcvpkt, left, queue, segment, registered, counts>>

\* net_recv: epoll_wait.
EpollWait ==
    /\ npc = "wait" /\ edge /\ edge' = FALSE /\ npc' = "read"
    /\ UNCHANGED <<socket, err, rcvpkt, left, queue, segment, registered, counts>>

DllRcv_All ==                            \* faulty: until the socket is empty
    /\ npc = "read" /\ ~left /\ npc' = "wait"
    /\ socket' = << >> /\ queue' = queue \o socket
    /\ UNCHANGED <<err, edge, rcvpkt, left, segment, registered, counts>>

\* __net_dllrecv: dll_rcv, one recvfrom, and message_insert.
DllRcv ==
    /\ npc = "read" /\ ~left /\ ~err /\ npc' = "wait"
    /\ socket # << >> /\ socket' = Tail(socket) /\ queue' = Append(queue, Head(socket))
    /\ rcvpkt' = TRUE
    /\ UNCHANGED <<err, edge, left, segment, registered, counts>>

DllRcvFails_Locked ==                    \* faulty: the lock is left in every case
    /\ npc = "read" /\ ~left /\ (err \/ socket = << >>) /\ npc' = "wait"
    /\ err' = FALSE /\ left' = TRUE
    /\ UNCHANGED <<socket, edge, rcvpkt, queue, segment, registered, counts>>

\* recvfrom reports the error, or that there is nothing. The length -1 is compared
\* as unsigned and passes; then the frame received before passes for this one, and
\* dll_rcv returns -1. If there was none, the buffer has no frame's type in it and
\* dll_rcv returns without the UNLOCK_RCV.
DllRcvFails ==
    /\ npc = "read" /\ ~left /\ (err \/ socket = << >>) /\ npc' = "wait"
    /\ err' = FALSE
    /\ left' = ~rcvpkt
    /\ UNCHANGED <<socket, edge, rcvpkt, queue, segment, registered, counts>>

\* The malloc before it fails: the event is spent, nothing was received.
NoMemory ==
    /\ npc = "read" /\ nomem < MaxNoMem /\ nomem' = nomem + 1 /\ npc' = "wait"
    /\ UNCHANGED <<socket, err, edge, rcvpkt, left, queue, segment, registered,
                   restarts, downs>>

Travel_Late ==                           \* faulty: CHAP over the random before
    /\ queue # << >> /\ queue' = Tail(queue)
    /\ resp' = resp \cup dll_sendpkt(IF Head(queue).fresh THEN {} ELSE {Head(queue).from})
    /\ UNCHANGED <<receiver, link, owed, registered, counts>>

\* message_travel: a REG in time is answered.
Travel ==
    /\ queue # << >> /\ queue' = Tail(queue)
    /\ resp' = resp \cup dll_sendpkt(IF Head(queue).fresh THEN {Head(queue).from} ELSE {})
    /\ UNCHANGED <<receiver, link, owed, registered, counts>>

\* The process ends and starts anew; REGs on their way answer a random it has not.
AcRestart ==
    /\ restarts < MaxRestarts /\ restarts' = restarts + 1
    /\ socket' = << >> /\ err' = FALSE /\ edge' = FALSE /\ npc' = "start"
    /\ rcvpkt' = FALSE /\ left' = FALSE /\ queue' = << >>
    /\ owed' = {Stale(f) : f \in owed}
    /\ UNCHANGED <<link, resp, registered, downs, nomem>>

-----------------------------------------------------------------------------
(* The segment and the APs.                                                *)

Arrives_NoLimit(f) ==                    \* faulty: the socket never fills
    /\ socket' = Append(socket, f) /\ edge' = (npc # "start")

\* A frame that arrives makes an event, unless one is waiting to be fetched or the
\* socket is not yet in epoll.
Arrives(f) ==
    IF Len(socket) < RcvBuf
    THEN socket' = Append(socket, f) /\ edge' = (npc # "start")
    ELSE UNCHANGED <<socket, edge>>

Answer(p) ==
    \E f \in owed :
        /\ f.from = p /\ owed' = owed \ {f} /\ Arrives(f)
        /\ UNCHANGED <<err, npc, rcvpkt, left, queue, link, resp, registered, counts>>

ApRegisters(p) ==
    /\ p \in resp /\ resp' = resp \ {p} /\ registered' = registered \cup {p}
    /\ UNCHANGED <<receiver, queue, link, owed, counts>>

ApRestart(p) ==
    /\ restarts < MaxRestarts /\ restarts' = restarts + 1
    /\ registered' = registered \ {p} /\ resp' = resp \ {p}
    /\ owed' = {f \in owed : f.from # p}
    /\ UNCHANGED <<receiver, queue, link, downs, nomem>>

\* The AC's NIC goes down: an error on the socket, which is an event like a frame.
LinkDown ==
    /\ link /\ downs < MaxDowns /\ downs' = downs + 1 /\ link' = FALSE
    /\ err' = TRUE /\ edge' = (npc # "start")
    /\ owed' = {} /\ resp' = {}
    /\ UNCHANGED <<socket, npc, rcvpkt, left, queue, registered, restarts, nomem>>

LinkUp ==
    /\ ~link /\ link' = TRUE
    /\ UNCHANGED <<receiver, queue, owed, resp, registered, counts>>

-----------------------------------------------------------------------------
Next ==
    \/ Broadcast \/ EpollAdd \/ EpollWait \/ DllRcv \/ DllRcvFails \/ NoMemory \/ Travel
    \/ AcRestart \/ LinkDown \/ LinkUp
    \/ \E p \in AP : Answer(p) \/ ApRegisters(p) \/ ApRestart(p)

Spec == Init /\ [][Next]_vars

\* Both programs' threads keep running, the link does not stay down.
FairSpec ==
    /\ Spec /\ WF_vars(Broadcast) /\ WF_vars(EpollAdd) /\ WF_vars(EpollWait)
    /\ WF_vars(DllRcv) /\ WF_vars(DllRcvFails) /\ WF_vars(Travel) /\ WF_vars(LinkUp)
    /\ \A p \in AP : WF_vars(Answer(p)) /\ WF_vars(ApRegisters(p))

-----------------------------------------------------------------------------
TypeOK ==
    /\ socket \in Seq(Frame) /\ Len(socket) <= RcvBuf /\ queue \in Seq(Frame)
    /\ err \in BOOLEAN /\ edge \in BOOLEAN /\ npc \in {"start", "wait", "read"}
    /\ rcvpkt \in BOOLEAN /\ left \in BOOLEAN /\ link \in BOOLEAN
    /\ owed \subseteq Frame /\ resp \subseteq AP /\ registered \subseteq AP
    /\ restarts \in 0 .. MaxRestarts /\ downs \in 0 .. MaxDowns /\ nomem \in 0 .. MaxNoMem

Events == (IF edge THEN 1 ELSE 0) + (IF npc = "read" THEN 1 ELSE 0)
ToReceive == Len(socket) + (IF err THEN 1 ELSE 0)

\* Every event, fetched or not, has a frame or an error of its own: dll_rcv
\* (ac/net.c:50) never finds nothing to receive, whenever the frames come in, until
\* the link has failed twice.
EventHasFrame == downs < 2 => ToReceive >= Events

\* The lock is left locked, and net_recv hangs at the next event, only if the link
\* fails while the AC has not received its first frame (lib/dllayer.c:302-315).
LockLeftOnce == left => downs > 0 /\ ~rcvpkt

\* The converse of the first, which one receive per event does not keep up.
FrameHasEvent == ToReceive <= (IF npc = "start" THEN 1 ELSE Events)

\* What the one receive per event (ac/net.c:50, under EPOLLET) needs in order to
\* work: as long as no two frames share an event and the lock is not left, every AP
\* gets registered once restarts and failures of the link have stopped.
RegisteredUnlessShared ==
    [](FrameHasEvent /\ ~left) => \A p \in AP : []<>(p \in registered)
=============================================================================
