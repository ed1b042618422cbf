------------------------------ MODULE MsgQueue ------------------------------
(***************************************************************************)
(* The queue between the thread that receives messages (net_recv) and the  *)
(* one that handles them (message_travel): a singly linked list of cells   *)
(* with a pointer to its last link, in ap/message.c and, once per AP, in   *)
(* ac/aphash.c. The cells are malloc'd by the receiver, freed by the       *)
(* handler and used again. Each has one producer and one consumer. Which   *)
(* of the two programs it is, the variable byCount tells.                  *)
(*                                                                         *)
(* The queue's lock covers message_insert's writes, which are steps of     *)
(* their own because the consumer reads head without the lock, and all of  *)
(* message_delete, which nobody reads unlocked.                            *)
(***************************************************************************)
EXTENDS Integers, Sequences

CONSTANTS Cell,       \* the memory malloc can return
          NULL,
          HeadAddr    \* the address of head (ap) or of aphash->next (ac)

ASSUME MsgQueueAssumption ==
    NULL \notin Cell /\ HeadAddr \notin Cell

VARIABLES
    byCount,      \* message_delete tests message_num under the lock (ap), or
                  \* aphash->next before it takes the lock (ac)
    head, nxt,    \* head or aphash->next; the next of every cell
    tail,         \* tail or ptail: the address of the last link
    num,          \* message_num or aphash->count
    ppc, new,     \* the producer, and the cell it inserts
    cpc, cur,     \* the consumer, and the cell it handles
    queue         \* history: the cells inserted and not deleted, in order

list == <<head, nxt, tail, num>>
vars == <<byCount, list, ppc, new, cpc, cur, queue>>

Waiting == {queue[i] : i \in 1 .. Len(queue)}

Locked_Late == ppc = "close"                        \* faulty: counts unlocked

\* The producer is in its critical section.
Locked == ppc \in {"link", "close"}

Init ==
    /\ byCount \in BOOLEAN
    /\ head = NULL /\ nxt \in [Cell -> {NULL}] /\ tail = HeadAddr /\ num = 0
    /\ ppc = "idle" /\ new = NULL /\ cpc = "idle" /\ cur = NULL
    /\ queue = << >>

-----------------------------------------------------------------------------
(* net_recv: message_insert.                                               *)

\* A message arrives in a new cell; msg->next = NULL.
Alloc(c) ==
    /\ ppc = "idle" /\ c \notin Waiting /\ c # cur
    /\ new' = c /\ nxt' = [nxt EXCEPT ![c] = NULL]
    /\ ppc' = "lock"
    /\ UNCHANGED <<head, tail, num, cpc, cur, queue>>

\* The lock, and the count (after the links in ac/, which nobody can tell).
Lock ==
    /\ ppc = "lock" /\ ppc' = "link"
    /\ num' = num + 1
    /\ UNCHANGED <<head, nxt, tail, new, cpc, cur, queue>>

Link_Front ==                                       \* faulty: put first
    /\ ppc = "link" /\ ppc' = "close"
    /\ nxt' = [nxt EXCEPT ![new] = head] /\ head' = new
    /\ UNCHANGED <<tail, num, new, cpc, cur, queue>>

\* *tail = msg
Link ==
    /\ ppc = "link" /\ ppc' = "close"
    /\ IF tail = HeadAddr THEN head' = new /\ UNCHANGED nxt
       ELSE nxt' = [nxt EXCEPT ![tail] = new] /\ UNCHANGED head
    /\ UNCHANGED <<tail, num, new, cpc, cur, queue>>

\* tail = &msg->next, and the lock is released.
Close ==
    /\ ppc = "close" /\ ppc' = "idle"
    /\ tail' = new /\ queue' = Append(queue, new) /\ new' = NULL
    /\ UNCHANGED <<head, nxt, num, cpc, cur>>

-----------------------------------------------------------------------------
(* message_travel.                                                         *)

Peek_OffByOne ==                                    \* faulty: waits for two
    /\ cpc = "idle" /\ num > 1
    /\ cpc' = "take"
    /\ UNCHANGED <<list, ppc, new, cur, queue>>

\* head == NULL, read without the lock: not yet time to look further.
Peek ==
    /\ cpc = "idle" /\ head # NULL
    /\ cpc' = "take"
    /\ UNCHANGED <<list, ppc, new, cur, queue>>

\* message_delete finds the queue empty, and message_travel sleeps again.
TakeNothing ==
    /\ cpc = "take" /\ ~Locked /\ byCount /\ num = 0
    /\ cpc' = "idle"
    /\ UNCHANGED <<list, ppc, new, cur, queue>>

NewTail_Keep == tail                                \* faulty: tail not reset

\* What tail becomes when the head cell goes.
NewTail == IF tail = head THEN HeadAddr ELSE tail

\* message_delete unlinks the head.
Take ==
    /\ cpc = "take" /\ ~Locked /\ (byCount => num # 0)
    /\ cur' = head /\ head' = nxt[head] /\ tail' = NewTail /\ num' = num - 1
    /\ queue' = Tail(queue)
    /\ cpc' = "proc"
    /\ UNCHANGED <<nxt, ppc, new>>

Process_Again ==                                    \* faulty: no second peek
    /\ cpc = "proc" /\ cpc' = "take" /\ cur' = NULL
    /\ UNCHANGED <<list, ppc, new, queue>>

\* msg_proc, then message_free. ap/ tries the next message at once, ac/ tests
\* aphash->next again.
Process ==
    /\ cpc = "proc" /\ cpc' = IF byCount THEN "take" ELSE "idle"
    /\ cur' = NULL
    /\ UNCHANGED <<list, ppc, new, queue>>

Arrive == (\E c \in Cell : Alloc(c)) /\ UNCHANGED byCount
Insert == (Lock \/ Link \/ Close) /\ UNCHANGED byCount
Travel == (Peek \/ TakeNothing \/ Take \/ Process) /\ UNCHANGED byCount

Next == Arrive \/ Insert \/ Travel

Spec == Init /\ [][Next]_vars

\* Both threads keep running; nothing obliges messages to arrive.
FairSpec == Spec /\ WF_vars(Insert) /\ WF_vars(Travel)

-----------------------------------------------------------------------------
TypeOK ==
    /\ byCount \in BOOLEAN
    /\ head \in Cell \cup {NULL} /\ nxt \in [Cell -> Cell \cup {NULL}]
    /\ tail \in Cell \cup {HeadAddr} /\ num \in Nat
    /\ ppc \in {"idle", "lock", "link", "close"} /\ new \in Cell \cup {NULL}
    /\ cpc \in {"idle", "take", "proc"} /\ cur \in Cell \cup {NULL}
    /\ queue \in Seq(Cell)

\* The cells in the queue, the one being inserted and the one being handled are
\* all different: none is handled, freed or filled while it is something else.
CellsApart ==
    /\ \A i, j \in 1 .. Len(queue) : queue[i] = queue[j] => i = j
    /\ new \notin Waiting /\ cur \notin Waiting
    /\ new = cur => new = NULL

\* The links are the queue, up to the producer's write that is under way.
Linked ==
    /\ \A i \in 1 .. Len(queue) - 1 : nxt[queue[i]] = queue[i + 1]
    /\ LET end == IF ppc = "close" THEN new ELSE NULL
       IN  IF queue = << >> THEN head = end /\ tail = HeadAddr
           ELSE /\ head = queue[1] /\ tail = queue[Len(queue)]
                /\ nxt[queue[Len(queue)]] = end
    /\ new # NULL => nxt[new] = NULL

\* Counter and program counters agree with them.
Counted ==
    /\ num = Len(queue) + (IF Locked THEN 1 ELSE 0)
    /\ ppc = "idle" <=> new = NULL
    /\ cpc = "proc" <=> cur # NULL

\* An unlocked peek that saw a message is still right when the lock is taken.
PeekStaysTrue ==
    cpc = "take" /\ ~byCount => queue # << >> \/ ppc = "close"

QInv == TypeOK /\ CellsApart /\ Linked /\ Counted /\ PeekStaysTrue

\* message_delete never follows a NULL head, and its assert(*tail == head) holds
\* (ap/message.c:55).
NoFault ==
    cpc = "take" /\ ~Locked =>
        IF byCount /\ num = 0
        THEN (IF tail = HeadAddr THEN head ELSE nxt[tail]) = head
        ELSE head # NULL

\* The pointers implement the queue of the abstract specification: the messages
\* are handled in the order they came, once each, and none is lost.
F == INSTANCE Fifo WITH held <- cur
ImplementsFifo == F!Spec

\* Every message that came is handled, whatever keeps coming behind it.
ServesAll == \A c \in Cell : c \in Waiting ~> cur = c
=============================================================================
