------------------------------- MODULE ApHash -------------------------------
(***************************************************************************)
(* The AC's table of APs (ac/aphash.c): net_recv finds or makes the record *)
(* of the AP a message came from (hash_ap) and queues the message there;   *)
(* message_travel goes round the buckets and the records chained to them   *)
(* and handles what they have queued. Every bucket embeds one record. What *)
(* happens when two APs fall into one bucket is as the code has it: the    *)
(* record calloc'ed for the second is chained to itself, and the second's  *)
(* MAC is written into the bucket's record.                                *)
(*                                                                         *)
(* Each queue is atomic here; MsgQueue has its pointers.                   *)
(***************************************************************************)
EXTENDS Integers, Sequences, FiniteSets

CONSTANTS Mac, NoMac,   \* NoMac: the zero bytes of a new record
          MaxBucket,
          Key,          \* __hash_key
          Text,         \* what strncmp compares: a MAC up to its first zero byte
          Extra, NULL,  \* the memory calloc can return
          MaxMsgs       \* bound: messages received

Bucket == 0 .. MaxBucket - 1
Record == Bucket \cup Extra

ASSUME ApHashAssumption ==
    /\ MaxBucket \in Nat \ {0} /\ NoMac \notin Mac /\ NULL \notin Record
    /\ Key \in [Mac -> Bucket] /\ Extra \cap Bucket = {} /\ IsFiniteSet(Extra)
    /\ DOMAIN Text = Mac \cup {NoMac} /\ MaxMsgs \in Nat

VARIABLES
    idle,          \* records with key = IDLE_AP
    mac, apnext,   \* ap.mac and apnext of every record
    queue,         \* its messages, by number
    made,          \* records calloc'ed
    leaked,        \* buckets whose lock net_recv has kept
    stuck,         \* the message net_recv waits for such a lock with, 0 if it does not
    sent,          \* history: the APs of the messages that have come, in order
    pos,           \* message_travel: the record it is at
    done           \* history: the messages handled

table == <<idle, mac, apnext, made, leaked, stuck>>
vars  == <<table, queue, sent, pos, done>>

\* hash_init.
Init ==
    /\ idle = Bucket /\ mac = [r \in Record |-> NoMac]
    /\ apnext = [r \in Record |-> NULL] /\ queue = [r \in Record |-> << >>]
    /\ made = {} /\ leaked = {} /\ stuck = 0
    /\ sent = << >> /\ pos = 0 /\ done = {}

-----------------------------------------------------------------------------
(* net_recv: hash_ap and message_insert.                                   *)

\* The i-th record of bucket k's chain.
Chain(k) ==
    LET at[i \in 0 .. Cardinality(Record)] ==
            IF i = 0 THEN k ELSE IF at[i - 1] = NULL THEN NULL ELSE apnext[at[i - 1]]
    IN  at

\* The records of the chain that strncmp takes for m's, the first of which counts.
Match(m) ==
    LET c == Chain(Key[m])
        hits == {i \in DOMAIN c : c[i] # NULL /\ Text[mac[c[i]]] = Text[m]}
    IN  {c[i] : i \in {i \in hits : \A j \in hits : i <= j}}

\* A layer-2 message sets ap.mac anew, a TCP message ap.sock.
Insert(m, r, eth, mac1) == mac' = IF eth THEN [mac1 EXCEPT ![r] = m] ELSE mac1

\* message_insert. Messages are numbered as they come.
Enqueue(r) == queue' = [queue EXCEPT ![r] = Append(@, Len(sent) + 1)]

\* ptail is set to the empty list's end, so that what the record had is lost.
EnqueueFirst(r) == queue' = [queue EXCEPT ![r] = <<Len(sent) + 1>>]

NewHead_Idle(m, eth) ==                   \* faulty: the key is not set
    /\ Key[m] \in idle /\ UNCHANGED <<idle, apnext, made, leaked>>
    /\ Insert(m, Key[m], eth, [mac EXCEPT ![Key[m]] = m]) /\ EnqueueFirst(Key[m])

\* The bucket's own record is free.
NewHead(m, eth) ==
    /\ Key[m] \in idle /\ idle' = idle \ {Key[m]} /\ UNCHANGED <<apnext, made, leaked>>
    /\ Insert(m, Key[m], eth, [mac EXCEPT ![Key[m]] = m]) /\ EnqueueFirst(Key[m])

Found(m, eth) ==
    /\ Key[m] \notin idle /\ UNCHANGED <<idle, apnext, made, leaked>>
    /\ \E r \in Match(m) : Insert(m, r, eth, mac) /\ Enqueue(r)

NewRecord_Both(m, eth) ==                 \* faulty: into the chain, too
    /\ Key[m] \notin idle /\ Match(m) = {} /\ UNCHANGED <<idle, leaked>>
    /\ \E r \in Extra \ made :
        /\ made' = made \cup {r}
        /\ apnext' = [apnext EXCEPT ![r] = r, ![Key[m]] = r]
        /\ Insert(m, r, eth, [mac EXCEPT ![Key[m]] = m]) /\ EnqueueFirst(r)

\* A new record: pprev is the address of the variable aphash, which by then
\* points to the new record, so it becomes its own apnext; dest still is the MAC
\* of the bucket's record.
NewRecord(m, eth) ==
    /\ Key[m] \notin idle /\ Match(m) = {} /\ UNCHANGED <<idle, leaked>>
    /\ \E r \in Extra \ made :
        /\ made' = made \cup {r}
        /\ apnext' = [apnext EXCEPT ![r] = r]
        /\ Insert(m, r, eth, [mac EXCEPT ![Key[m]] = m]) /\ EnqueueFirst(r)

\* calloc fails: the return leaves the bucket locked, and the message is dropped.
NoRecord(m) ==
    /\ Key[m] \notin idle /\ Match(m) = {} /\ Extra = made
    /\ leaked' = leaked \cup {Key[m]}
    /\ UNCHANGED <<idle, mac, apnext, made, queue>>

\* net_recv takes one message after the other. The first for a bucket whose lock it
\* has kept stops it for good: that message and whatever comes later are not read.
Receive(m, eth) ==
    /\ Len(sent) < MaxMsgs /\ sent' = Append(sent, m) /\ UNCHANGED <<pos, done>>
    /\ IF stuck # 0 \/ Key[m] \in leaked
       THEN /\ stuck' = IF stuck = 0 THEN Len(sent) + 1 ELSE stuck
            /\ UNCHANGED <<idle, mac, apnext, made, leaked, queue>>
       ELSE /\ NewHead(m, eth) \/ Found(m, eth) \/ NewRecord(m, eth) \/ NoRecord(m)
            /\ UNCHANGED stuck

-----------------------------------------------------------------------------
(* message_travel.                                                         *)

\* message_delete and msg_proc.
Handle ==
    /\ queue[pos] # << >>
    /\ done' = done \cup {Head(queue[pos])}
    /\ queue' = [queue EXCEPT ![pos] = Tail(@)]
    /\ UNCHANGED <<table, sent, pos>>

\* The next record of the chain, or the next bucket, after the last one the first.
\* The bucket it is in is the record its chain began with.
BucketOf(r) == CHOOSE k \in Bucket : \E i \in DOMAIN Chain(k) : Chain(k)[i] = r

Advance_NoWrap ==                         \* faulty: one bucket too many
    /\ queue[pos] = << >>
    /\ pos' = IF apnext[pos] # NULL THEN apnext[pos] ELSE BucketOf(pos) + 1
    /\ UNCHANGED <<table, queue, sent, done>>

Advance ==
    /\ queue[pos] = << >>
    /\ pos' = IF apnext[pos] # NULL THEN apnext[pos] ELSE (BucketOf(pos) + 1) % MaxBucket
    /\ UNCHANGED <<table, queue, sent, done>>

-----------------------------------------------------------------------------
Travel == Handle \/ Advance
Next == Travel \/ \E m \in Mac, eth \in BOOLEAN : Receive(m, eth)

Spec == Init /\ [][Next]_vars

\* message_travel comes round every msgitv seconds.
FairSpec == Spec /\ WF_vars(Travel)

-----------------------------------------------------------------------------
TypeOK ==
    /\ idle \subseteq Bucket /\ mac \in [Record -> Mac \cup {NoMac}]
    /\ apnext \in [Record -> Record \cup {NULL}]
    /\ queue \in [Record -> Seq(1 .. MaxMsgs)] /\ made \subseteq Extra
    /\ leaked \subseteq Bucket /\ stuck \in 0 .. Len(sent)
    /\ sent \in Seq(Mac) /\ pos \in Record /\ done \subseteq 1 .. Len(sent)

\* Every chain ends, although a new record is its own successor
\* (ac/aphash.c:101): message_travel gets round and hash_ap always returns.
ChainsEnd == \A k \in Bucket : \E i \in DOMAIN Chain(k) : Chain(k)[i] = NULL

\* An AP that shares its bucket with no other, as strncmp tells them apart.
Alone(m) == \A o \in Mac : Key[o] = Key[m] => Text[o] = Text[m]

\* Message n came too late: net_recv had stopped, at a bucket for which two APs that
\* strncmp tells apart had sent messages, and the memory was used up.
TooLate(n) ==
    /\ stuck # 0 /\ stuck <= n /\ made = Extra
    /\ \E i, j \in 1 .. stuck - 1 :
        /\ Key[sent[i]] = Key[sent[stuck]] /\ Key[sent[j]] = Key[sent[stuck]]
        /\ Text[sent[i]] # Text[sent[j]]

\* Each message of an AP alone in its bucket is handled, whatever collides elsewhere,
\* unless it comes after a collision for which hash_ap got no memory: that return keeps
\* the lock (ac/aphash.c:95-100), the bucket's next message stops net_recv, and then
\* the other APs' messages are lost with it. Nothing less loses one of theirs.
AloneServed ==
    \A n \in 1 .. MaxMsgs :
        (n <= Len(sent) /\ Alone(sent[n])) ~> (n \in done \/ TooLate(n))
=============================================================================
