--------------------------- MODULE MsgQueueProofs ---------------------------
(***************************************************************************)
(* Proofs about MsgQueue for any number of cells and both variants: the    *)
(* links always are the queue, message_delete never meets a NULL head, and *)
(* the pointers implement the FIFO queue of the abstract specification.    *)
(***************************************************************************)
EXTENDS MsgQueue, TLAPS

USE MsgQueueAssumption

\* The queue is empty and nothing is under way at the start.
LEMMA InitQInv == Init => QInv
  BY DEF Init, QInv, TypeOK, CellsApart, Linked, Counted, PeekStaysTrue, Waiting,
         Locked, list

\* A new cell is in nobody's hands.
LEMMA AllocQInv == ASSUME QInv, NEW c \in Cell, Alloc(c), UNCHANGED byCount
                   PROVE  QInv'
  BY DEF Alloc, QInv, TypeOK, CellsApart, Linked, Counted, PeekStaysTrue, Waiting, Locked

\* Taking the lock counts the message.
LEMMA LockQInv == ASSUME QInv, Lock, UNCHANGED byCount PROVE QInv'
  BY DEF Lock, QInv, TypeOK, CellsApart, Linked, Counted, PeekStaysTrue, Waiting, Locked

\* The last link, wherever it is, gets the new cell.
LEMMA LinkQInv == ASSUME QInv, Link, UNCHANGED byCount PROVE QInv'
<1>1. new \in Cell /\ new \notin Waiting /\ new # cur
  BY DEF Link, QInv, TypeOK, Counted, CellsApart
<1>2. CASE queue = << >>
  BY <1>2 DEF Link, QInv, TypeOK, CellsApart, Linked, Counted, PeekStaysTrue, Waiting, Locked
<1>3. CASE queue # << >>
  <2> DEFINE n == Len(queue)
  <2>1. n \in Nat /\ n > 0 /\ tail = queue[n] /\ tail \in Cell /\ tail \in Waiting
    BY <1>3 DEF QInv, TypeOK, Linked, Waiting
  <2>2. nxt' = [nxt EXCEPT ![tail] = new] /\ head' = head
    BY <2>1 DEF Link
  <2>3. UNCHANGED <<tail, num, new, cpc, cur, queue>> /\ ppc = "link" /\ ppc' = "close"
    BY DEF Link
  <2>4. TypeOK'
    BY <1>1, <2>1, <2>2, <2>3 DEF QInv, TypeOK
  <2>5. CellsApart'
    BY <2>3 DEF QInv, CellsApart, Waiting
  <2>6. Linked'
    <3>1. ASSUME NEW i \in 1 .. n - 1 PROVE nxt'[queue[i]] = queue[i + 1]
      <4>1. queue[i] # queue[n] /\ queue[i] \in Cell
        BY <2>1 DEF QInv, TypeOK, CellsApart
      <4> QED
        BY <2>1, <2>2, <4>1 DEF QInv, TypeOK, Linked
    <3>2. nxt'[queue[n]] = new
      BY <2>1, <2>2 DEF QInv, TypeOK
    <3>3. nxt'[new] = NULL
      BY <1>1, <2>1, <2>2 DEF QInv, TypeOK, Linked
    <3> QED
      BY <1>3, <2>1, <2>2, <2>3, <3>1, <3>2, <3>3 DEF QInv, Linked
  <2>7. Counted' /\ PeekStaysTrue'
    BY <2>3 DEF QInv, Counted, PeekStaysTrue, Locked
  <2> QED
    BY <2>4, <2>5, <2>6, <2>7 DEF QInv
<1> QED
  BY <1>2, <1>3

\* The new cell becomes the last of the queue.
LEMMA CloseQInv == ASSUME QInv, Close, UNCHANGED byCount PROVE QInv'
  BY DEF Close, QInv, TypeOK, CellsApart, Linked, Counted, PeekStaysTrue, Waiting, Locked

\* The first cell leaves the queue for the consumer's hands.
LEMMA TakeQInv == ASSUME QInv, Take, UNCHANGED byCount PROVE QInv'
<1> DEFINE n == Len(queue)
<1>1. n \in Nat /\ n > 0 /\ head = queue[1] /\ cur = NULL /\ ~Locked
  BY DEF Take, QInv, TypeOK, Linked, Counted, PeekStaysTrue, Locked
<1>2. /\ queue' \in Seq(Cell) /\ Len(queue') = n - 1
      /\ \A i \in 1 .. n - 1 : queue'[i] = queue[i + 1]
  BY <1>1 DEF Take, QInv, TypeOK
<1>3. /\ cur' = queue[1] /\ head' = nxt[queue[1]] /\ tail' = NewTail
      /\ num' = num - 1 /\ cpc' = "proc" /\ UNCHANGED <<nxt, ppc, new>>
  BY <1>1 DEF Take
<1>4. tail = queue[n] /\ nxt[queue[n]] = NULL
  BY <1>1 DEF QInv, TypeOK, Linked, Locked
<1>5. CASE n = 1
  <2>1. queue' = << >> /\ head' = NULL /\ tail' = HeadAddr
    BY <1>1, <1>2, <1>3, <1>4, <1>5 DEF NewTail
  <2> QED
    BY <1>1, <1>3, <1>5, <2>1 DEF QInv, TypeOK, CellsApart, Linked, Counted,
       PeekStaysTrue, Waiting, Locked
<1>6. CASE n > 1
  <2>1. nxt[queue[1]] = queue[2] /\ queue[1] # queue[n]
    BY <1>6 DEF QInv, TypeOK, CellsApart, Linked
  <2>2. head' = queue[2] /\ tail' = tail
    BY <1>1, <1>3, <1>4, <2>1 DEF NewTail
  <2>3. TypeOK'
    BY <1>1, <1>2, <1>3, <1>6, <2>2 DEF QInv, TypeOK, Counted
  <2>4. CellsApart'
    <3>1. \A i, j \in 1 .. n - 1 : queue'[i] = queue'[j] => i = j
      BY <1>1, <1>2 DEF QInv, CellsApart
    <3>2. \A i \in 1 .. n - 1 : queue'[i] \in Waiting /\ queue'[i] # queue[1]
      BY <1>1, <1>2 DEF QInv, CellsApart, Waiting
    <3>3. queue[1] \in Waiting /\ new \notin Waiting
      BY <1>1 DEF QInv, CellsApart, Waiting
    <3> QED
      BY <1>2, <1>3, <3>1, <3>2, <3>3 DEF CellsApart, Waiting
  <2>5. Linked'
    <3>1. ASSUME NEW i \in 1 .. (n - 1) - 1 PROVE nxt'[queue'[i]] = queue'[i + 1]
      <4>1. i \in 1 .. n - 1 /\ i + 1 \in 1 .. n - 1
        BY <1>1
      <4>2. nxt[queue[i + 1]] = queue[(i + 1) + 1]
        BY <4>1 DEF QInv, Linked
      <4> QED
        BY <1>2, <1>3, <4>1, <4>2
    <3>2. queue' # << >> /\ queue'[1] = queue[2] /\ queue'[n - 1] = queue[n]
      BY <1>1, <1>2, <1>6
    <3>3. ppc' # "close" /\ (new' # NULL => nxt'[new'] = NULL)
      BY <1>1, <1>3 DEF QInv, Linked, Locked
    <3> QED
      BY <1>2, <1>3, <1>4, <2>2, <3>1, <3>2, <3>3 DEF Linked
  <2>6. Counted' /\ PeekStaysTrue'
    <3>1. queue[1] \in Cell
      BY <1>1 DEF QInv, TypeOK
    <3> QED
      BY <1>1, <1>2, <1>3, <3>1 DEF QInv, TypeOK, Counted, PeekStaysTrue, Locked
  <2> QED
    BY <2>3, <2>4, <2>5, <2>6 DEF QInv
<1>7. n = 1 \/ n > 1
  <2>1. n \in Nat /\ n > 0
    BY <1>1
  <2> HIDE DEF n
  <2> QED
    BY <2>1
<1> QED
  BY <1>5, <1>6, <1>7, Zenon

\* The consumer's other steps write no link.
LEMMA OtherQInv ==
    ASSUME QInv,
           \/ ((Peek \/ TakeNothing \/ Process) /\ UNCHANGED byCount)
           \/ UNCHANGED vars
    PROVE  QInv'
  BY DEF Peek, TakeNothing, Process, vars, list, QInv, TypeOK, CellsApart, Linked, Counted,
         PeekStaysTrue, Waiting, Locked

\* The links are the queue in every reachable state, of either variant.
THEOREM Invariance == Spec => []QInv
<1>1. QInv /\ [Next]_vars => QInv'
  BY AllocQInv, LockQInv, LinkQInv, CloseQInv, TakeQInv, OtherQInv
     DEF Next, Arrive, Insert, Travel
<1> QED
  BY <1>1, InitQInv, PTL DEF Spec

\* message_delete never dereferences NULL and its assertion holds
\* (ap/message.c:55, ac/aphash.c:158-166).
THEOREM FaultTheorem == Spec => []NoFault
<1>1. QInv => NoFault
  BY DEF QInv, NoFault, TypeOK, Linked, Counted, PeekStaysTrue, Locked
<1> QED
  BY <1>1, Invariance, PTL

-----------------------------------------------------------------------------
\* Every step of the threads is a step of the abstract queue or none: the
\* message enters it when the producer releases the lock, leaves it when the
\* consumer unlinks it, and is done when it is freed.
LEMMA StepIsFifo ==
    ASSUME QInv, [Next]_vars
    PROVE  [F!Next]_F!vars
<1>1. ASSUME Lock \/ Link \/ Peek \/ TakeNothing
             \/ UNCHANGED vars \/ \E c \in Cell : Alloc(c)
      PROVE  UNCHANGED F!vars
  BY <1>1 DEF Alloc, Lock, Link, Peek, TakeNothing, vars, F!vars
<1>2. ASSUME Close PROVE F!Next
  <2>1. new \in Cell /\ new # cur /\ new \notin F!Waiting
    BY <1>2 DEF Close, QInv, TypeOK, CellsApart, Counted, F!Waiting, Waiting
  <2>2. F!Put(new)
    BY <1>2, <2>1 DEF Close, F!Put
  <2> QED
    BY <2>1, <2>2 DEF F!Next
<1>3. ASSUME Take PROVE F!Next
  <2>1. queue # << >> /\ cur = NULL /\ head = queue[1]
    BY <1>3 DEF Take, QInv, TypeOK, Linked, Counted, PeekStaysTrue, Locked
  <2>2. F!Get
    BY <1>3, <2>1 DEF Take, F!Get
  <2> QED
    BY <2>2 DEF F!Next
<1>4. ASSUME Process PROVE F!Next
  BY <1>4 DEF Process, QInv, Counted, F!Done, F!Next
<1> QED
  BY <1>1, <1>2, <1>3, <1>4 DEF Next, Arrive, Insert, Travel

\* Both queues are FIFO queues that lose and repeat nothing.
THEOREM FifoTheorem == Spec => ImplementsFifo
<1>1. Init => F!Init
  BY DEF Init, F!Init
<1>2. QInv /\ [Next]_vars => [F!Next]_F!vars
  BY StepIsFifo
<1> QED
  BY <1>1, <1>2, Invariance, PTL DEF Spec, ImplementsFifo, F!Spec
=============================================================================
