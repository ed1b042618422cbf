--------------------------- MODULE DllRecvProofs ---------------------------
(***************************************************************************)
(* Proofs about DllRecv, for any number of APs, any size of the socket and *)
(* any bounds on restarts and failures: every event of the packet socket   *)
(* has a frame or an error of its own, and dllrcv.lock is left locked in   *)
(* one case only.                                                          *)
(***************************************************************************)
EXTENDS DllRecv, TLAPS

USE DllRecvAssumption

\* EventHasFrame rests on where an error can come from, LockLeftOnce on EventHasFrame:
\* without a failure of the link dll_rcv always finds a frame.
EventInv == TypeOK /\ EventHasFrame /\ LockLeftOnce /\ (err => downs > 0)

\* The Boolean part of TypeOK.
Flags == /\ err \in BOOLEAN /\ edge \in BOOLEAN /\ rcvpkt \in BOOLEAN
         /\ left \in BOOLEAN /\ link \in BOOLEAN

\* A frame that is too late is a frame.
LEMMA StaleFrame == ASSUME NEW f \in Frame PROVE Stale(f) \in Frame
  BY DEF Stale, Frame

\* Nothing has been received and no event is waiting at the start.
LEMMA InitEventInv == Init => EventInv
<1> SUFFICES ASSUME Init PROVE EventInv
  OBVIOUS
<1>1. Flags
  BY DEF Init, Flags
<1>2. TypeOK
  BY <1>1 DEF Init, TypeOK, Flags
<1>3. EventHasFrame /\ LockLeftOnce /\ (err => downs > 0)
  BY DEF Init, EventHasFrame, LockLeftOnce, Events, ToReceive
<1> QED
  BY <1>2, <1>3 DEF EventInv

-----------------------------------------------------------------------------
\* net_dllbrd makes the frames in the socket stale, and takes none out of it.
LEMMA BroadcastEvents == ASSUME EventInv, Broadcast PROVE EventInv'
<1>1. socket \in Seq(Frame) /\ DOMAIN socket = 1 .. Len(socket)
  BY DEF EventInv, TypeOK
<1>2. \A i \in DOMAIN socket : Stale(socket[i]) \in Frame
  BY <1>1, StaleFrame
<1>3. socket' = [i \in 1 .. Len(socket) |-> Stale(socket[i])]
  BY <1>1 DEF Broadcast
<1>4. socket' \in Seq(Frame) /\ Len(socket') = Len(socket)
  BY <1>1, <1>2, <1>3
<1>5. owed' \subseteq Frame
  <2>1. \A p \in AP : [from |-> p, fresh |-> TRUE] \in Frame
    BY DEF Frame
  <2> QED
    BY <2>1 DEF Broadcast, dll_brdcast
<1>6. UNCHANGED <<err, edge, npc, rcvpkt, left, queue, link, resp, registered, counts>>
  BY DEF Broadcast
<1>7. Len(socket') <= RcvBuf
  BY <1>4 DEF EventInv, TypeOK
<1>8. TypeOK'
  BY <1>4, <1>5, <1>6, <1>7 DEF EventInv, TypeOK, counts
<1> QED
  BY <1>4, <1>6, <1>8 DEF EventInv, EventHasFrame, LockLeftOnce, Events, ToReceive, counts

\* epoll reports the frames that came before EPOLL_CTL_ADD as one event, and hands
\* each event out once.
LEMMA EpollEvents == ASSUME EventInv, EpollAdd \/ EpollWait PROVE EventInv'
<1>1. Flags'
  BY DEF EpollAdd, EpollWait, EventInv, TypeOK, Flags, segment
<1>2. CASE EpollAdd
  <2>1. edge' => Len(socket) > 0 \/ err
    BY <1>2 DEF EpollAdd, EventInv, TypeOK
  <2> QED
    BY <1>1, <1>2, <2>1 DEF EpollAdd, Flags, EventInv, TypeOK, EventHasFrame, LockLeftOnce,
                            Events, ToReceive, segment, counts
<1>3. CASE EpollWait
  BY <1>1, <1>3 DEF EpollWait, Flags, EventInv, TypeOK, EventHasFrame, LockLeftOnce,
                    Events, ToReceive, segment, counts
<1> QED
  BY <1>2, <1>3

\* dll_rcv takes one frame for its event.
LEMMA DllRcvEvents == ASSUME EventInv, DllRcv PROVE EventInv'
<1>1. socket' \in Seq(Frame) /\ Len(socket') = Len(socket) - 1 /\ queue' \in Seq(Frame)
  BY DEF DllRcv, EventInv, TypeOK
<1> QED
  BY <1>1 DEF DllRcv, EventInv, TypeOK, EventHasFrame, LockLeftOnce, Events, ToReceive,
              segment, counts

\* dll_rcv fails for an error of the link, unless the link has failed twice.
LEMMA DllRcvFailsEvents == ASSUME EventInv, DllRcvFails PROVE EventInv'
<1>1. err \/ downs > 0
  BY DEF DllRcvFails, EventInv, TypeOK, EventHasFrame, Events, ToReceive
<1>2. downs > 0
  BY <1>1 DEF EventInv
<1>3. Flags'
  BY DEF DllRcvFails, EventInv, TypeOK, Flags, segment
<1> QED
  BY <1>2, <1>3 DEF DllRcvFails, Flags, EventInv, TypeOK, EventHasFrame, LockLeftOnce, Events,
              ToReceive, segment, counts

\* A failing malloc costs an event and no frame; message_travel, net_recv's clients.
LEMMA AcEvents == ASSUME EventInv, NoMemory \/ Travel PROVE EventInv'
<1>1. CASE NoMemory
  BY <1>1 DEF NoMemory, EventInv, TypeOK, EventHasFrame, LockLeftOnce, Events, ToReceive,
              segment
<1>2. CASE Travel
  <2>1. Head(queue) \in Frame /\ queue' \in Seq(Frame)
    BY <1>2 DEF Travel, EventInv, TypeOK
  <2>2. resp' \subseteq AP
    BY <1>2, <2>1 DEF Travel, EventInv, TypeOK, dll_sendpkt, Frame
  <2> QED
    BY <1>2, <2>1, <2>2 DEF Travel, EventInv, TypeOK, EventHasFrame, LockLeftOnce, Events,
                            ToReceive, receiver, counts
<1> QED
  BY <1>1, <1>2

\* A restart closes the socket and loses its frames with their events.
LEMMA RestartEvents == ASSUME EventInv, AcRestart PROVE EventInv'
<1>1. owed' \subseteq Frame
  <2>1. \A f \in owed : Stale(f) \in Frame
    BY StaleFrame DEF EventInv, TypeOK
  <2> QED
    BY <2>1 DEF AcRestart
<1>2. socket' \in Seq(Frame) /\ Len(socket') = 0 /\ queue' \in Seq(Frame)
  BY DEF AcRestart
<1>3. Flags'
  BY DEF AcRestart, EventInv, TypeOK, Flags
<1> QED
  BY <1>1, <1>2, <1>3 DEF AcRestart, Flags, EventInv, TypeOK, EventHasFrame, LockLeftOnce, Events,
                    ToReceive

\* The link brings an error with its event, of which the socket keeps one only.
LEMMA LinkEvents == ASSUME EventInv, LinkDown \/ LinkUp PROVE EventInv'
<1>1. Flags'
  BY DEF LinkDown, LinkUp, EventInv, TypeOK, Flags, receiver
<1> QED
  BY <1>1 DEF LinkDown, LinkUp, Flags, EventInv, TypeOK, EventHasFrame, LockLeftOnce, Events,
         ToReceive, receiver, counts

\* A frame that arrives brings at most one event, one that finds no room none.
LEMMA ApEvents == ASSUME EventInv, NEW p \in AP, Answer(p) \/ ApRegisters(p) \/ ApRestart(p)
                  PROVE  EventInv'
<1>1. CASE Answer(p)
  <2>1. PICK f \in owed :
          /\ owed' = owed \ {f} /\ Arrives(f)
          /\ UNCHANGED <<err, npc, rcvpkt, left, queue, link, resp, registered, counts>>
    BY <1>1 DEF Answer
  <2>2. f \in Frame
    BY DEF EventInv, TypeOK
  <2>3. /\ socket' \in Seq(Frame) /\ Len(socket') <= RcvBuf /\ edge' \in BOOLEAN
        /\ \/ Len(socket') = Len(socket) + 1
           \/ Len(socket') = Len(socket) /\ edge' = edge
    <3>1. CASE Len(socket) < RcvBuf
      <4>1. socket' = Append(socket, f) /\ edge' = (npc # "start")
        BY <2>1, <3>1 DEF Arrives
      <4>2. edge' \in BOOLEAN
        BY <4>1
      <4> QED
        BY <2>2, <3>1, <4>1, <4>2 DEF EventInv, TypeOK
    <3>2. CASE ~(Len(socket) < RcvBuf)
      BY <2>1, <3>2 DEF Arrives, EventInv, TypeOK
    <3> QED
      BY <3>1, <3>2
  <2> QED
    BY <2>1, <2>3 DEF EventInv, TypeOK, EventHasFrame, LockLeftOnce, Events,
                            ToReceive, counts
<1>2. CASE ApRegisters(p) \/ ApRestart(p)
  BY <1>2 DEF ApRegisters, ApRestart, EventInv, TypeOK, EventHasFrame, LockLeftOnce,
              Events, ToReceive, receiver, counts
<1> QED
  BY <1>1, <1>2

\* Every step of the AC, the segment and the APs.
LEMMA NextEventInv == EventInv /\ [Next]_vars => EventInv'
<1> SUFFICES ASSUME EventInv, [Next]_vars PROVE EventInv'
  OBVIOUS
<1>1. CASE UNCHANGED vars
  BY <1>1 DEF vars, receiver, segment, counts, EventInv, TypeOK, EventHasFrame,
              LockLeftOnce, Events, ToReceive
<1>2. CASE Next
  BY <1>2, BroadcastEvents, EpollEvents, DllRcvEvents, DllRcvFailsEvents, AcEvents,
     RestartEvents, LinkEvents, ApEvents DEF Next
<1> QED
  BY <1>1, <1>2

-----------------------------------------------------------------------------
\* EventInv is an invariant of the receive path (lib/link.c:85-98, lib/dllayer.c:293-320).
THEOREM Invariance == Spec => []EventInv
  BY InitEventInv, NextEventInv, PTL DEF Spec

\* The state of the receive path is well typed, and the socket never overfull.
THEOREM TypeCorrect == Spec => []TypeOK
  BY Invariance, PTL DEF EventInv

\* dll_rcv (ac/net.c:50) never finds nothing to receive, until the link has failed twice.
THEOREM EventTheorem == Spec => []EventHasFrame
  BY Invariance, PTL DEF EventInv

\* dllrcv.lock is left locked only by a failure of the link before the first frame
\* (lib/dllayer.c:302-315).
THEOREM LockTheorem == Spec => []LockLeftOnce
  BY Invariance, PTL DEF EventInv
=============================================================================
