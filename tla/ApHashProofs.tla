---------------------------- MODULE ApHashProofs ----------------------------
(***************************************************************************)
(* Proofs about ApHash, for any APs, buckets, hash and memory: every chain *)
(* ends, since none ever gets a second record, and so message_travel never *)
(* leaves the records of the buckets.                                      *)
(***************************************************************************)
EXTENDS ApHash, FiniteSetTheorems, WellFoundedInduction, TLAPS

USE ApHashAssumption

\* The records of the buckets have no successor, those of calloc are their own; what
\* is queued has been sent; message_travel is at a bucket's record.
TableInv ==
    /\ TypeOK /\ pos \in Bucket
    /\ \A r \in Record : apnext[r] = IF r \in made THEN r ELSE NULL
    /\ \A r \in Record : queue[r] \in Seq(1 .. Len(sent))

-----------------------------------------------------------------------------
(* The chains.                                                             *)

LEMMA RecordFinite == IsFiniteSet(Record) /\ Cardinality(Record) \in Nat \ {0}
<1>1. IsFiniteSet(Bucket) /\ 0 \in Bucket
  BY FS_Interval DEF Bucket
<1>2. IsFiniteSet(Record) /\ Record # {}
  BY <1>1, FS_Union DEF Record
<1> QED
  BY <1>2, FS_EmptySet, FS_CardinalityType

\* A non-empty set of naturals has a least element.
LEMMA LeastIsIn == ASSUME NEW js \in SUBSET Nat, js # {}
                   PROVE  \E x \in js : \A y \in js : x <= y
<1> DEFINE Less == {ss \in Nat \X Nat : ss[1] < ss[2]}
<1>1. IsWellFoundedOn(Less, Nat)
  BY NatLessThanWellFounded DEF OpToRel
<1> HIDE DEF Less
<1>2. PICK x \in js : \A y \in js : <<y, x>> \notin Less
  BY <1>1, WFMin
<1>3. ASSUME NEW y \in js PROVE x <= y
  <2>1. <<y, x>> \in Nat \X Nat /\ <<y, x>>[1] = y /\ <<y, x>>[2] = x
    OBVIOUS
  <2>2. ~ (y < x)
    BY <1>2, <2>1, Zenon DEF Less
  <2> QED
    BY <2>2
<1> QED
  BY <1>3

\* A bucket whose record has no successor: the chain is that record alone.
LEMMA ChainIsBucket ==
    ASSUME NEW k \in Bucket, apnext[k] = NULL
    PROVE  Chain(k) = [i \in 0 .. Cardinality(Record) |-> IF i = 0 THEN k ELSE NULL]
<1> DEFINE K == Cardinality(Record)
           IsChain(g) == g = [i \in 0 .. K |->
                                IF i = 0 THEN k
                                ELSE IF g[i - 1] = NULL THEN NULL ELSE apnext[g[i - 1]]]
           alone == [i \in 0 .. K |-> IF i = 0 THEN k ELSE NULL]
<1>1. K \in Nat \ {0} /\ k # NULL
  BY RecordFinite DEF Record
<1>2. IsChain(alone)
  <2>1. ASSUME NEW i \in 0 .. K
        PROVE  alone[i] = IF i = 0 THEN k
                          ELSE IF alone[i - 1] = NULL THEN NULL ELSE apnext[alone[i - 1]]
    <3> HIDE DEF K
    <3>1. CASE i = 0
      BY <3>1
    <3>2. CASE i # 0
      <4>1. i - 1 \in 0 .. K
        BY <1>1, <3>2
      <4> QED
        BY <1>1, <3>2, <4>1
    <3> QED
      BY <3>1, <3>2
  <2> QED
    BY <2>1
<1>3. Chain(k) = CHOOSE g : IsChain(g)
  BY Zenon DEF Chain
<1> DEFINE at == Chain(k)
<1>4. IsChain(at)
  <2> HIDE DEF IsChain, alone
  <2> QED
    BY <1>2, <1>3, Zenon
<1>5. /\ DOMAIN at = 0 .. K /\ at[0] = k
      /\ \A i \in 1 .. K : at[i] = IF at[i - 1] = NULL THEN NULL ELSE apnext[at[i - 1]]
  <2> HIDE DEF at, K
  <2> QED
    BY <1>1, <1>4
<1> DEFINE bad == {i \in 1 .. K : at[i] # NULL}
<1> HIDE DEF at, K
<1>6. bad = {}
  <2> SUFFICES ASSUME bad # {} PROVE FALSE
    OBVIOUS
  <2>1. bad \in SUBSET Nat
    BY <1>1
  <2>2. PICK i \in bad : \A j \in bad : i <= j
    <3> HIDE DEF bad
    <3> QED
      BY <2>1, LeastIsIn
  <2>3. i \in 1 .. K /\ at[i] # NULL
    BY <2>2
  <2>4. CASE i = 1
    BY <1>5, <2>3, <2>4
  <2>5. CASE i # 1
    <3>1. i - 1 \in 1 .. K /\ i - 1 \notin bad
      BY <1>1, <2>2, <2>3, <2>5
    <3> QED
      BY <1>5, <2>3, <3>1
  <2> QED
    BY <2>3, <2>4, <2>5
<1>7. at = [i \in 0 .. K |-> at[i]]
  BY <1>4 DEF at
<1>8. \A i \in 0 .. K : at[i] = IF i = 0 THEN k ELSE NULL
  BY <1>1, <1>5, <1>6
<1>9. at = alone
  BY <1>7, <1>8
<1> QED
  BY <1>9 DEF at, K

\* So every chain is one record, and its own bucket's.
LEMMA BucketsAlone ==
    ASSUME TableInv, NEW k \in Bucket
    PROVE  Chain(k) = [i \in 0 .. Cardinality(Record) |-> IF i = 0 THEN k ELSE NULL]
<1>1. k \in Record /\ k \notin made
  BY DEF TableInv, TypeOK, Record
<1> QED
  BY <1>1, ChainIsBucket DEF TableInv

\* hash_ap finds the bucket's record or none.
LEMMA MatchIsBucket == ASSUME TableInv, NEW m \in Mac PROVE Match(m) \subseteq {Key[m]}
<1>1. Key[m] \in Bucket
  OBVIOUS
<1>2. Cardinality(Record) \in Nat
  BY RecordFinite
<1> QED
  BY <1>1, <1>2, BucketsAlone DEF Match

\* message_travel finds its way to the next bucket.
LEMMA BucketOfBucket == ASSUME TableInv, NEW r \in Bucket PROVE BucketOf(r) \in Bucket
<1>1. 0 \in DOMAIN Chain(r) /\ Chain(r)[0] = r
  BY BucketsAlone, RecordFinite
<1>2. \E k \in Bucket : \E i \in DOMAIN Chain(k) : Chain(k)[i] = r
  BY <1>1
<1> QED
  BY <1>2, Zenon DEF BucketOf

-----------------------------------------------------------------------------
\* hash_init.
LEMMA InitTable == Init => TableInv
<1> SUFFICES ASSUME Init PROVE TableInv
  OBVIOUS
<1>1. \A S : << >> \in Seq(S)
  OBVIOUS
<1>2. 0 \in Bucket /\ Bucket \subseteq Record
  BY DEF Bucket, Record
<1>3. /\ queue \in [Record -> Seq(1 .. MaxMsgs)]
      /\ \A r \in Record : queue[r] \in Seq(1 .. Len(sent))
  BY <1>1 DEF Init
<1>4. sent \in Seq(Mac) /\ done \subseteq 1 .. Len(sent)
  BY <1>1 DEF Init
<1> QED
  BY <1>2, <1>3, <1>4 DEF Init, TableInv, TypeOK

\* What a message leaves in the queue of the record it is for, and its AP in ap.mac.
LEMMA Queued ==
    ASSUME TableInv, NEW m \in Mac, NEW eth \in BOOLEAN, NEW r \in Record,
           NEW mac1 \in [Record -> Mac \cup {NoMac}], Len(sent) < MaxMsgs,
           sent' = Append(sent, m), Insert(m, r, eth, mac1), Enqueue(r) \/ EnqueueFirst(r)
    PROVE  /\ mac' \in [Record -> Mac \cup {NoMac}]
           /\ sent' \in Seq(Mac) /\ Len(sent') = Len(sent) + 1
           /\ queue' \in [Record -> Seq(1 .. MaxMsgs)]
           /\ \A q \in Record : queue'[q] \in Seq(1 .. Len(sent'))
<1>1. Len(sent) \in Nat /\ sent \in Seq(Mac) /\ queue \in [Record -> Seq(1 .. MaxMsgs)]
  BY DEF TableInv, TypeOK
<1>2. sent' \in Seq(Mac) /\ Len(sent') = Len(sent) + 1
  BY <1>1
<1>3. mac' \in [Record -> Mac \cup {NoMac}]
  BY DEF Insert
<1>4. \A n \in Nat : \A s : s \in Seq(1 .. n) => s \in Seq(1 .. n + 1)
  OBVIOUS
<1>5. \A n \in Nat : \A s \in Seq(1 .. n + 1) : Append(s, n + 1) \in Seq(1 .. n + 1)
  OBVIOUS
<1>6. \A q \in Record : queue[q] \in Seq(1 .. Len(sent'))
  BY <1>1, <1>2, <1>4 DEF TableInv
<1>7. Append(queue[r], Len(sent) + 1) \in Seq(1 .. Len(sent'))
  BY <1>1, <1>2, <1>5, <1>6
<1>8. <<Len(sent) + 1>> \in Seq(1 .. Len(sent'))
  BY <1>1, <1>2
<1>9. queue' = [queue EXCEPT ![r] = queue'[r]] /\ queue'[r] \in Seq(1 .. Len(sent'))
  BY <1>1, <1>7, <1>8 DEF Enqueue, EnqueueFirst
<1>10. \A q \in Record : queue'[q] \in Seq(1 .. Len(sent'))
  BY <1>1, <1>6, <1>9
<1>11. \A s : s \in Seq(1 .. Len(sent')) => s \in Seq(1 .. MaxMsgs)
  BY <1>1, <1>2
<1>12. queue' \in [Record -> Seq(1 .. MaxMsgs)]
  BY <1>1, <1>9, <1>11
<1> QED
  BY <1>2, <1>3, <1>10, <1>12

\* net_recv: the four ways through hash_ap, and the wait for a lock nobody gives back.
LEMMA ReceiveTable ==
    ASSUME TableInv, NEW m \in Mac, NEW eth \in BOOLEAN, Receive(m, eth) PROVE TableInv'
<1>1. /\ Key[m] \in Bucket /\ Bucket \subseteq Record /\ Extra \subseteq Record
      /\ Len(sent) < MaxMsgs /\ Len(sent) \in Nat /\ pos' = pos /\ done' = done
      /\ sent' = Append(sent, m) /\ Len(sent') = Len(sent) + 1 /\ sent' \in Seq(Mac)
  BY DEF Receive, Record, TableInv, TypeOK
<1>2. done' \subseteq 1 .. Len(sent') /\ stuck' \in 0 .. Len(sent')
  BY <1>1 DEF Receive, TableInv, TypeOK
<1>3. CASE UNCHANGED <<idle, mac, apnext, made, queue>> /\ leaked' \subseteq Bucket
  <2>1. \A n \in Nat : \A s : s \in Seq(1 .. n) => s \in Seq(1 .. n + 1)
    OBVIOUS
  <2>2. \A q \in Record : queue'[q] \in Seq(1 .. Len(sent'))
    BY <1>1, <1>3, <2>1 DEF TableInv
  <2> QED
    BY <1>1, <1>2, <1>3, <2>2 DEF TableInv, TypeOK
<1>4. CASE Key[m] \notin leaked /\ NewHead(m, eth)
  <2> DEFINE named == [mac EXCEPT ![Key[m]] = m]
  <2>1. named \in [Record -> Mac \cup {NoMac}]
    BY DEF TableInv, TypeOK
  <2> HIDE DEF named
  <2>2. /\ mac' \in [Record -> Mac \cup {NoMac}]
        /\ sent' \in Seq(Mac) /\ Len(sent') = Len(sent) + 1
        /\ queue' \in [Record -> Seq(1 .. MaxMsgs)]
        /\ \A q \in Record : queue'[q] \in Seq(1 .. Len(sent'))
    <3>1. Insert(m, Key[m], eth, named) /\ EnqueueFirst(Key[m]) /\ Key[m] \in Record
      BY <1>1, <1>4 DEF NewHead, named
    <3> QED
      BY <1>1, <2>1, <3>1, Queued, TableInv
  <2> QED
    BY <1>1, <1>2, <1>4, <2>2 DEF NewHead, TableInv, TypeOK
<1>5. CASE Key[m] \notin leaked /\ Found(m, eth)
  <2>1. PICK r \in Match(m) : Insert(m, r, eth, mac) /\ Enqueue(r)
    BY <1>5 DEF Found
  <2>2. r \in Record /\ mac \in [Record -> Mac \cup {NoMac}]
    BY <1>1, <2>1, MatchIsBucket DEF TableInv, TypeOK
  <2>3. /\ mac' \in [Record -> Mac \cup {NoMac}]
        /\ sent' \in Seq(Mac) /\ Len(sent') = Len(sent) + 1
        /\ queue' \in [Record -> Seq(1 .. MaxMsgs)]
        /\ \A q \in Record : queue'[q] \in Seq(1 .. Len(sent'))
    <3> HIDE DEF Insert, Enqueue, EnqueueFirst
    <3> QED
      BY <1>1, <2>1, <2>2, Queued, TableInv
  <2> QED
    BY <1>1, <1>2, <1>5, <2>3 DEF Found, TableInv, TypeOK
<1>6. CASE Key[m] \notin leaked /\ NewRecord(m, eth)
  <2> DEFINE named == [mac EXCEPT ![Key[m]] = m]
  <2>1. PICK r \in Extra \ made :
            /\ made' = made \cup {r} /\ apnext' = [apnext EXCEPT ![r] = r]
            /\ Insert(m, r, eth, named) /\ EnqueueFirst(r)
    BY <1>6 DEF NewRecord
  <2>2. named \in [Record -> Mac \cup {NoMac}] /\ r \in Record
    BY <1>1 DEF TableInv, TypeOK
  <2> HIDE DEF named
  <2>3. /\ mac' \in [Record -> Mac \cup {NoMac}]
        /\ sent' \in Seq(Mac) /\ Len(sent') = Len(sent) + 1
        /\ queue' \in [Record -> Seq(1 .. MaxMsgs)]
        /\ \A q \in Record : queue'[q] \in Seq(1 .. Len(sent'))
    BY <1>1, <2>1, <2>2, Queued, TableInv
  <2>4. /\ apnext' \in [Record -> Record \cup {NULL}]
        /\ \A q \in Record : apnext'[q] = IF q \in made' THEN q ELSE NULL
    BY <1>1, <2>1 DEF TableInv, TypeOK
  <2> QED
    <3>1. UNCHANGED <<idle, leaked>> /\ made' \subseteq Extra
      BY <1>6, <2>1 DEF NewRecord, TableInv, TypeOK
    <3> QED
      BY <1>1, <1>2, <2>3, <2>4, <3>1 DEF TableInv, TypeOK
<1>7. CASE Key[m] \notin leaked /\ NoRecord(m)
  BY <1>1, <1>3, <1>7 DEF NoRecord, TableInv, TypeOK
<1>8. CASE stuck # 0 \/ Key[m] \in leaked
  BY <1>3, <1>8 DEF Receive, TableInv, TypeOK
<1> QED
  BY <1>4, <1>5, <1>6, <1>7, <1>8 DEF Receive

\* message_delete takes the first message of the record message_travel is at.
LEMMA HandleTable == ASSUME TableInv, Handle PROVE TableInv'
<1> DEFINE q == queue[pos]
<1>1. q \in Seq(1 .. Len(sent)) /\ q \in Seq(1 .. MaxMsgs) /\ q # << >> /\ pos \in Record
  BY DEF TableInv, TypeOK, Handle, Record
<1>2. \A S : q \in Seq(S) => Head(q) \in S /\ Tail(q) \in Seq(S)
  <2> HIDE DEF q
  <2> QED
    BY <1>1
<1>3. Head(q) \in 1 .. Len(sent) /\ Tail(q) \in Seq(1 .. Len(sent)) /\ Tail(q) \in Seq(1 .. MaxMsgs)
  BY <1>1, <1>2
<1>4. queue' = [queue EXCEPT ![pos] = Tail(q)] /\ done' = done \cup {Head(q)}
  BY DEF Handle
<1> HIDE DEF q
<1>5. /\ queue' \in [Record -> Seq(1 .. MaxMsgs)]
      /\ \A r \in Record : queue'[r] \in Seq(1 .. Len(sent))
  BY <1>1, <1>3, <1>4 DEF TableInv, TypeOK
<1> QED
  BY <1>3, <1>4, <1>5 DEF Handle, table, TableInv, TypeOK

\* The next bucket, after the last one the first.
LEMMA AdvanceTable == ASSUME TableInv, Advance PROVE TableInv'
<1>1. pos \in Bucket /\ pos \in Record /\ apnext[pos] = NULL
  BY DEF TableInv, TypeOK, Record
<1>2. pos' = (BucketOf(pos) + 1) % MaxBucket
  BY <1>1 DEF Advance
<1>3. BucketOf(pos) \in Nat
  BY <1>1, BucketOfBucket DEF Bucket
<1>4. pos' \in Bucket
  BY <1>2, <1>3 DEF Bucket
<1> QED
  BY <1>4 DEF Advance, table, TableInv, TypeOK, Record

LEMMA NextTable == TableInv /\ [Next]_vars => TableInv'
<1> SUFFICES ASSUME TableInv, [Next]_vars PROVE TableInv'
  OBVIOUS
<1>1. CASE UNCHANGED vars
  BY <1>1 DEF vars, table, TableInv, TypeOK
<1> QED
  BY <1>1, ReceiveTable, HandleTable, AdvanceTable DEF Next, Travel

-----------------------------------------------------------------------------
\* The inductive invariant of the AP table: only records that no chain reaches are
\* their own successor (hash_ap, ac/aphash.c:101).
THEOREM Invariance == Spec => []TableInv
  BY InitTable, NextTable, PTL DEF Spec

\* The table, its queues and message_travel's place in it are well typed: the place is
\* always a record that exists (message_travel, ac/aphash.c:179-204).
THEOREM TypeCorrect == Spec => []TypeOK
<1>1. TableInv => TypeOK
  BY DEF TableInv
<1> QED
  BY <1>1, Invariance, PTL

\* Every chain of the table ends, for any hash and any number of colliding APs, though
\* a new record is its own successor: hash_ap and message_travel never loop
\* (ac/aphash.c:86-105, 188-202).
THEOREM ChainTheorem == Spec => []ChainsEnd
<1>1. TableInv => ChainsEnd
  <2> SUFFICES ASSUME TableInv, NEW k \in Bucket
               PROVE  \E i \in DOMAIN Chain(k) : Chain(k)[i] = NULL
    BY DEF ChainsEnd
  <2>1. Cardinality(Record) \in Nat \ {0}
    BY RecordFinite
  <2>2. Chain(k) = [i \in 0 .. Cardinality(Record) |-> IF i = 0 THEN k ELSE NULL]
    BY BucketsAlone
  <2>3. 1 \in DOMAIN Chain(k) /\ Chain(k)[1] = NULL
    BY <2>1, <2>2
  <2> QED
    BY <2>3
<1> QED
  BY <1>1, Invariance, PTL

-----------------------------------------------------------------------------
(* The APs that share their bucket with no other.                          *)

\* Their messages are handled or wait in the bucket's record: no new record comes to
\* the bucket, and its list is not begun anew.
Waiting(n) ==
    LET q == queue[Key[sent[n]]] IN n \in done \/ \E i \in DOMAIN q : q[i] = n

\* A bucket's record names an AP of that bucket that has sent a message, as soon as it
\* is in use.
Named == \A k \in Bucket \ idle : Key[mac[k]] = k /\ \E i \in 1 .. Len(sent) : mac[k] = sent[i]

\* net_recv has kept a bucket's lock only after two APs collided there and calloc failed.
Collided(k) ==
    /\ made = Extra
    /\ \E i, j \in 1 .. Len(sent) :
        Key[sent[i]] = k /\ Key[sent[j]] = k /\ Text[sent[i]] # Text[sent[j]]
Leaks == (\A k \in leaked : Collided(k)) /\ (stuck # 0 => TooLate(stuck))

Served ==
    \A n \in 1 .. Len(sent) :
        Alone(sent[n]) => TooLate(n) \/ (Key[sent[n]] \notin idle /\ Waiting(n))

ServeInv == TableInv /\ Named /\ Leaks /\ Served

\* The messages sent keep their numbers.
LEMMA SentKeeps ==
    ASSUME TableInv, NEW m \in Mac, sent' = Append(sent, m)
    PROVE  /\ Len(sent) \in Nat /\ Len(sent') = Len(sent) + 1 /\ sent'[Len(sent) + 1] = m
           /\ \A n \in 1 .. Len(sent) : sent'[n] = sent[n] /\ sent[n] \in Mac
  BY DEF TableInv, TypeOK

\* What each AP alone in its bucket has sent, in the steps that queue for bucket k.
LEMMA Serving ==
    ASSUME ServeInv, NEW m \in Mac, sent' = Append(sent, m), done' = done,
           idle' \subseteq idle, stuck = 0,
           NEW r \in Record, Enqueue(r) \/ (EnqueueFirst(r) /\ r \in idle \cup Extra),
           Alone(m) => r = Key[m] /\ Key[m] \notin idle'
    PROVE  Served'
<1>1. /\ Len(sent) \in Nat /\ sent \in Seq(Mac) /\ queue \in [Record -> Seq(1 .. MaxMsgs)]
      /\ Bucket \subseteq Record /\ Extra \cap Bucket = {}
  BY DEF ServeInv, TableInv, TypeOK, Record
<1>2. /\ Len(sent') = Len(sent) + 1 /\ sent'[Len(sent) + 1] = m
      /\ \A n \in 1 .. Len(sent) : sent'[n] = sent[n] /\ sent[n] \in Mac
  BY SentKeeps DEF ServeInv
<1>3. /\ \A q \in Record \ {r} : queue'[q] = queue[q]
      /\ queue'[r] = Append(queue[r], Len(sent) + 1) \/ queue'[r] = <<Len(sent) + 1>>
      /\ r \notin idle \cup Extra => queue'[r] = Append(queue[r], Len(sent) + 1)
  BY <1>1 DEF Enqueue, EnqueueFirst
<1>4. ASSUME NEW s \in Seq(1 .. MaxMsgs), NEW x, NEW t, t = Append(s, x)
      PROVE  /\ \E i \in DOMAIN t : t[i] = x
             /\ \A i \in DOMAIN s : i \in DOMAIN t /\ t[i] = s[i]
  <2>1. Len(s) + 1 \in DOMAIN t /\ t[Len(s) + 1] = x
    BY <1>4
  <2> QED
    BY <1>4, <2>1
<1>5. ASSUME NEW x, NEW t, t = <<x>> PROVE \E i \in DOMAIN t : t[i] = x
  <2>1. 1 \in DOMAIN t /\ t[1] = x
    BY <1>5
  <2> QED
    BY <2>1
<1>6. ASSUME NEW n \in 1 .. Len(sent'), Alone(sent'[n])
      PROVE  Key[sent'[n]] \notin idle' /\ Waiting(n)'
  <2>1. CASE n = Len(sent) + 1
    <3>1. sent'[n] = m /\ r = Key[m] /\ Key[m] \notin idle'
      BY <1>2, <1>6, <2>1
    <3>2. queue[r] \in Seq(1 .. MaxMsgs)
      BY <1>1
    <3>3. queue'[r] = Append(queue[r], n) \/ queue'[r] = <<n>>
      BY <1>3, <2>1
    <3>4. \E i \in DOMAIN queue'[r] : queue'[r][i] = n
      <4>1. CASE queue'[r] = Append(queue[r], n)
        BY <1>4, <3>2, <4>1, Zenon
      <4>2. CASE queue'[r] = <<n>>
        BY <1>5, <4>2, Zenon
      <4> QED
        BY <3>3, <4>1, <4>2, Zenon
    <3> QED
      BY <3>1, <3>4 DEF Waiting
  <2>2. CASE n # Len(sent) + 1
    <3>1. n \in 1 .. Len(sent) /\ sent'[n] = sent[n] /\ sent[n] \in Mac
      BY <1>1, <1>2, <2>2
    <3> DEFINE k == Key[sent[n]]
    <3>2. k \in Bucket /\ k \notin idle /\ Waiting(n)
      BY <1>6, <3>1 DEF ServeInv, Served, TooLate
    <3>3. k \in Record /\ k \notin idle \cup Extra
      BY <1>1, <3>2
    <3> HIDE DEF k
    <3>4. queue'[k] = queue[k] \/ queue'[k] = Append(queue[k], Len(sent) + 1)
      BY <1>3, <3>3
    <3>5. queue[k] \in Seq(1 .. MaxMsgs)
      BY <1>1, <3>3
    <3>6. \A i \in DOMAIN queue[k] : i \in DOMAIN queue'[k] /\ queue'[k][i] = queue[k][i]
      <4>1. CASE queue'[k] = queue[k]
        BY <4>1
      <4>2. CASE queue'[k] = Append(queue[k], Len(sent) + 1)
        BY <1>4, <3>5, <4>2
      <4> QED
        BY <3>4, <4>1, <4>2, Zenon
    <3> QED
      BY <3>1, <3>2, <3>6 DEF Waiting, k
  <2> QED
    BY <2>1, <2>2
<1> QED
  BY <1>6 DEF Served, Alone

\* In a bucket in use, hash_ap finds an AP that is alone there.
LEMMA AloneFound ==
    ASSUME ServeInv, NEW m \in Mac, Alone(m), Key[m] \notin idle PROVE Match(m) # {}
<1>1. Key[m] \in Bucket /\ TableInv
  BY DEF ServeInv
<1>2. Text[mac[Key[m]]] = Text[m] /\ Key[m] # NULL
  <2>1. mac[Key[m]] \in Mac /\ Key[mac[Key[m]]] = Key[m]
    BY <1>1 DEF ServeInv, Named, TableInv, TypeOK
  <2> QED
    BY <1>1, <2>1 DEF Alone, Record
<1>3. Cardinality(Record) \in Nat
  BY RecordFinite
<1> DEFINE c == Chain(Key[m])
           hits == {i \in DOMAIN c : c[i] # NULL /\ Text[mac[c[i]]] = Text[m]}
<1>4. c = [i \in 0 .. Cardinality(Record) |-> IF i = 0 THEN Key[m] ELSE NULL]
  BY <1>1, BucketsAlone
<1>5. hits = {0}
  BY <1>2, <1>3, <1>4
<1>6. c[0] \in {c[i] : i \in {i \in hits : \A j \in hits : i <= j}}
  <2> HIDE DEF c, hits
  <2> QED
    BY <1>5
<1> QED
  BY <1>6, Zenon DEF Match

\* Where calloc fails, the record of the bucket names another AP that has sent.
LEMMA NoneMatches ==
    ASSUME ServeInv, NEW m \in Mac, Key[m] \notin idle, Match(m) = {},
           made = Extra, sent' = Append(sent, m), made' = made
    PROVE  Collided(Key[m])'
<1> DEFINE k == Key[m]
<1>1. /\ k \in Bucket /\ k # NULL /\ TableInv
      /\ Key[mac[k]] = k /\ \E i \in 1 .. Len(sent) : mac[k] = sent[i]
  BY DEF ServeInv, Named, Record
<1>2. Text[mac[k]] # Text[m]
  <2> SUFFICES ASSUME Text[mac[k]] = Text[m] PROVE FALSE
    OBVIOUS
  <2>1. Cardinality(Record) \in Nat
    BY RecordFinite
  <2>2. Chain(k) = [i \in 0 .. Cardinality(Record) |-> IF i = 0 THEN k ELSE NULL]
    BY <1>1, BucketsAlone
  <2>3. k \in Match(m)
    <3> DEFINE c == Chain(k)
               hits == {i \in DOMAIN c : c[i] # NULL /\ Text[mac[c[i]]] = Text[m]}
    <3>1. hits = {0} /\ c[0] = k
      BY <1>1, <2>1, <2>2
    <3>2. k \in {c[i] : i \in {i \in hits : \A j \in hits : i <= j}}
      <4> HIDE DEF c, hits
      <4> QED
        BY <3>1
    <3> QED
      BY <3>2, Zenon DEF Match
  <2> QED
    BY <2>3
<1>3. PICK i \in 1 .. Len(sent) : mac[k] = sent[i]
  BY <1>1
<1>4. /\ i \in 1 .. Len(sent') /\ sent'[i] = sent[i]
      /\ Len(sent) + 1 \in 1 .. Len(sent') /\ sent'[Len(sent) + 1] = m
  BY <1>1, <1>3, SentKeeps
<1>5. Key[sent'[i]] = k /\ Text[sent'[i]] # Text[m]
  BY <1>1, <1>2, <1>3, <1>4
<1> QED
  BY <1>4, <1>5 DEF Collided

\* APs that have collided stay so.
LEMMA CollidedKept ==
    ASSUME TableInv, NEW m \in Mac, sent' = Append(sent, m), made' = made \/ made # Extra,
           NEW k, Collided(k)
    PROVE  Collided(k)'
<1>1. made' = Extra
  BY DEF Collided
<1>2. PICK i, j \in 1 .. Len(sent) :
          Key[sent[i]] = k /\ Key[sent[j]] = k /\ Text[sent[i]] # Text[sent[j]]
  BY DEF Collided
<1>3. i \in 1 .. Len(sent') /\ j \in 1 .. Len(sent') /\ sent'[i] = sent[i] /\ sent'[j] = sent[j]
  BY <1>2, SentKeeps
<1> QED
  BY <1>1, <1>2, <1>3 DEF Collided

\* What is known of the buckets net_recv has kept stays true as messages come.
LEMMA LeaksKept ==
    ASSUME ServeInv, NEW m \in Mac, sent' = Append(sent, m), made' = made \/ made # Extra,
           stuck' = stuck, \A k \in leaked' : k \in leaked \/ Collided(k)'
    PROVE  Leaks'
<1>1. /\ Len(sent) \in Nat /\ Len(sent') = Len(sent) + 1
      /\ \A n \in 1 .. Len(sent) : sent'[n] = sent[n] /\ n \in 1 .. Len(sent')
  BY SentKeeps DEF ServeInv
<1>2. ASSUME NEW k \in leaked PROVE Collided(k)'
  <2>1. Collided(k)
    BY DEF ServeInv, Leaks
  <2> QED
    BY <2>1, CollidedKept DEF ServeInv
<1>3. ASSUME stuck # 0 PROVE TooLate(stuck)'
  <2>1. TooLate(stuck) /\ stuck \in 1 .. Len(sent)
    BY <1>3 DEF ServeInv, Leaks, TableInv, TypeOK
  <2>2. \A i \in 1 .. stuck : i \in 1 .. Len(sent) /\ sent'[i] = sent[i]
    BY <1>1, <2>1
  <2>3. \A i \in 1 .. stuck - 1 : i \in 1 .. stuck
    BY <2>1
  <2> QED
    BY <2>1, <2>2, <2>3 DEF TooLate
<1> QED
  BY <1>2, <1>3 DEF Leaks

\* The wait for a lock that net_recv itself has kept.
LEMMA StuckServed ==
    ASSUME ServeInv, NEW m \in Mac, sent' = Append(sent, m),
           stuck # 0 \/ Key[m] \in leaked,
           stuck' = IF stuck = 0 THEN Len(sent) + 1 ELSE stuck,
           UNCHANGED <<idle, mac, made, leaked, queue, done>>
    PROVE  Leaks' /\ Served'
<1>1. /\ Len(sent) \in Nat /\ Len(sent') = Len(sent) + 1 /\ sent'[Len(sent) + 1] = m
      /\ stuck \in 0 .. Len(sent) /\ stuck' \in 1 .. Len(sent')
      /\ \A n \in 1 .. Len(sent) : sent'[n] = sent[n] /\ n \in 1 .. Len(sent')
  <2>1. stuck \in 0 .. Len(sent)
    BY DEF ServeInv, TableInv, TypeOK
  <2> QED
    BY <2>1, SentKeeps DEF ServeInv
<1>2. Leaks'
  <2>1. CASE stuck # 0
    BY <2>1, LeaksKept
  <2>2. CASE stuck = 0
    <3>1. \A k \in leaked : Collided(k)'
      <4>1. \A k \in leaked : Collided(k)
        BY DEF ServeInv, Leaks
      <4> QED
        BY <4>1, CollidedKept DEF ServeInv
    <3>2. Collided(Key[m])'
      BY <2>2, <3>1
    <3>3. /\ stuck' = Len(sent) + 1 /\ stuck' - 1 = Len(sent) /\ sent'[stuck'] = m
          /\ made = Extra
      BY <1>1, <2>2, <3>2 DEF Collided
    <3>4. PICK i, j \in 1 .. Len(sent) :
              Key[sent[i]] = Key[m] /\ Key[sent[j]] = Key[m] /\ Text[sent[i]] # Text[sent[j]]
      BY <2>2 DEF ServeInv, Leaks, Collided
    <3>5. TooLate(stuck)'
      BY <1>1, <3>3, <3>4 DEF TooLate
    <3> QED
      BY <3>1, <3>5 DEF Leaks
  <2> QED
    BY <2>1, <2>2
<1>3. ASSUME NEW n \in 1 .. Len(sent'), n >= stuck' PROVE TooLate(n)'
  <2>1. TooLate(stuck)'
    BY <1>1, <1>2 DEF Leaks
  <2> QED
    BY <1>3, <2>1 DEF TooLate
<1>4. ASSUME NEW n \in 1 .. Len(sent'), ~(n >= stuck'), Alone(sent'[n])
      PROVE  Key[sent'[n]] \notin idle' /\ Waiting(n)'
  <2>1. n \in 1 .. Len(sent) /\ sent'[n] = sent[n] /\ (stuck = 0 \/ n < stuck)
    BY <1>1, <1>4
  <2>2. ~TooLate(n)
    BY <1>1, <2>1 DEF TooLate
  <2>3. Key[sent[n]] \notin idle /\ Waiting(n)
    BY <1>4, <2>1, <2>2 DEF ServeInv, Served
  <2> QED
    BY <2>1, <2>3 DEF Waiting
<1> QED
  BY <1>2, <1>3, <1>4 DEF Served, Alone

\* net_recv.
LEMMA ReceiveServed ==
    ASSUME ServeInv, NEW m \in Mac, NEW eth \in BOOLEAN, Receive(m, eth)
    PROVE  Named' /\ Leaks' /\ Served'
<1>1. /\ TableInv /\ Key[m] \in Bucket /\ Bucket \subseteq Record /\ Extra \subseteq Record
      /\ mac \in [Record -> Mac \cup {NoMac}] /\ done' = done /\ idle \subseteq Bucket
      /\ Extra \cap Bucket = {} /\ sent' = Append(sent, m)
  BY DEF ServeInv, Receive, Record, TableInv, TypeOK
<1>2. ASSUME \A k \in Bucket \ idle' :
                \/ mac'[k] = mac[k] /\ k \notin idle
                \/ mac'[k] = m /\ k = Key[m]
      PROVE  Named'
  <2>1. /\ Len(sent) + 1 \in 1 .. Len(sent') /\ sent'[Len(sent) + 1] = m
        /\ \A n \in 1 .. Len(sent) : n \in 1 .. Len(sent') /\ sent'[n] = sent[n]
    BY <1>1, SentKeeps
  <2> QED
    BY <1>2, <2>1 DEF ServeInv, Named
<1>3. CASE stuck = 0 /\ Key[m] \notin leaked /\ NewHead(m, eth)
  <2>1. /\ Key[m] \in idle /\ idle' = idle \ {Key[m]} /\ UNCHANGED <<made, leaked, stuck>>
        /\ mac' = [mac EXCEPT ![Key[m]] = m] /\ EnqueueFirst(Key[m])
    BY <1>1, <1>3 DEF NewHead, Insert, Receive
  <2>2. Named'
    BY <1>1, <1>2, <2>1
  <2>3. Served'
    BY <1>1, <1>3, <2>1, Serving
  <2> QED
    BY <1>1, <2>1, <2>2, <2>3, LeaksKept
<1>4. CASE stuck = 0 /\ Key[m] \notin leaked /\ Found(m, eth)
  <2>1. PICK r \in Match(m) : Insert(m, r, eth, mac) /\ Enqueue(r)
    BY <1>4 DEF Found
  <2>2. r = Key[m] /\ r \notin idle /\ UNCHANGED <<idle, made, leaked, stuck>>
    BY <1>1, <1>4, <2>1, MatchIsBucket DEF Found, Receive
  <2>3. mac' \in {mac, [mac EXCEPT ![Key[m]] = m]}
    BY <2>1, <2>2 DEF Insert
  <2>4. Named'
    BY <1>1, <1>2, <2>2, <2>3
  <2>5. r \in Record
    BY <1>1, <2>2
  <2>6. Alone(m) => r = Key[m] /\ Key[m] \notin idle'
    BY <2>2
  <2>7. idle' \subseteq idle
    BY <2>2
  <2>8. Served'
    BY <1>1, <1>4, <2>1, <2>5, <2>6, <2>7, Serving, Zenon
  <2> QED
    BY <1>1, <2>2, <2>4, <2>8, LeaksKept
<1>5. CASE stuck = 0 /\ Key[m] \notin leaked /\ NewRecord(m, eth)
  <2>1. PICK r \in Extra \ made :
            Insert(m, r, eth, [mac EXCEPT ![Key[m]] = m]) /\ EnqueueFirst(r)
    BY <1>5 DEF NewRecord
  <2>2. Match(m) = {} /\ Key[m] \notin idle /\ UNCHANGED <<idle, leaked, stuck>>
    BY <1>5 DEF NewRecord, Receive
  <2>3. ~Alone(m)
    BY <2>2, AloneFound
  <2>4. r \in Record /\ \A k \in Bucket : mac'[k] = IF k = Key[m] THEN m ELSE mac[k]
    BY <1>1, <2>1 DEF Insert
  <2>5. Named'
    BY <1>2, <2>2, <2>4
  <2>6. Served'
    BY <1>1, <1>5, <2>1, <2>2, <2>3, <2>4, Serving
  <2>7. made # Extra
    BY <2>1
  <2> QED
    BY <1>1, <2>2, <2>5, <2>6, <2>7, LeaksKept
<1>6. CASE stuck = 0 /\ Key[m] \notin leaked /\ NoRecord(m)
  <2>1. /\ Key[m] \notin idle /\ Match(m) = {} /\ Extra = made /\ leaked' = leaked \cup {Key[m]}
        /\ UNCHANGED <<idle, mac, made, queue, stuck>>
    BY <1>6 DEF NoRecord, Receive
  <2>2. Named'
    BY <1>2, <2>1
  <2>3. ~Alone(m)
    BY <2>1, AloneFound
  <2>4. Collided(Key[m])'
    BY <1>1, <2>1, NoneMatches
  <2>5. Leaks'
    BY <1>1, <2>1, <2>4, LeaksKept
  <2>6. ASSUME NEW n \in 1 .. Len(sent'), Alone(sent'[n])
        PROVE  Key[sent'[n]] \notin idle' /\ Waiting(n)'
    <3>1. n \in 1 .. Len(sent) /\ sent'[n] = sent[n]
      BY <1>1, <2>3, <2>6, SentKeeps
    <3>2. Key[sent[n]] \notin idle /\ Waiting(n)
      BY <1>6, <2>6, <3>1 DEF ServeInv, Served, TooLate
    <3> QED
      BY <1>1, <2>1, <3>1, <3>2 DEF Waiting
  <2>7. Served'
    BY <2>6 DEF Served, Alone
  <2> QED
    BY <2>2, <2>5, <2>7
<1>7. CASE stuck # 0 \/ Key[m] \in leaked
  <2>1. /\ UNCHANGED <<idle, mac, made, leaked, queue>>
        /\ stuck' = IF stuck = 0 THEN Len(sent) + 1 ELSE stuck
    BY <1>7 DEF Receive
  <2>2. Named'
    BY <1>2, <2>1
  <2> QED
    BY <1>1, <1>7, <2>1, <2>2, StuckServed
<1> QED
  BY <1>3, <1>4, <1>5, <1>6, <1>7 DEF Receive

\* message_travel: a message that leaves a queue is handled.
LEMMA TravelServed == ASSUME ServeInv, Travel PROVE Named' /\ Leaks' /\ Served'
<1>1. CASE Handle
  <2>1. /\ TypeOK /\ pos \in Record /\ queue[pos] # << >>
        /\ queue' = [queue EXCEPT ![pos] = Tail(queue[pos])]
        /\ done' = done \cup {Head(queue[pos])}
        /\ UNCHANGED <<idle, mac, made, leaked, stuck, sent>>
    BY <1>1 DEF Handle, table, ServeInv, TableInv, TypeOK
  <2>2. \A s \in Seq(1 .. MaxMsgs) : s # << >> =>
            \A i \in DOMAIN s : s[i] = Head(s) \/ \E j \in DOMAIN Tail(s) : Tail(s)[j] = s[i]
    <3>1. ASSUME NEW s \in Seq(1 .. MaxMsgs), s # << >>, NEW i \in DOMAIN s, i # 1
          PROVE  i - 1 \in DOMAIN Tail(s) /\ Tail(s)[i - 1] = s[i]
      BY <3>1
    <3>2. ASSUME NEW s \in Seq(1 .. MaxMsgs), s # << >> PROVE s[1] = Head(s)
      BY <3>2
    <3> QED
      BY <3>1, <3>2, Zenon
  <2>3. ASSUME NEW n \in 1 .. Len(sent), Key[sent[n]] \in Record, Waiting(n) PROVE Waiting(n)'
    <3> DEFINE k == Key[sent[n]]
    <3>1. queue[k] \in Seq(1 .. MaxMsgs) /\ k \in Record
      BY <2>1, <2>3 DEF TypeOK
    <3> HIDE DEF k
    <3>2. CASE k # pos
      <4>1. queue'[k] = queue[k]
        BY <2>1, <3>1, <3>2 DEF TypeOK
      <4> QED
        BY <2>1, <2>3, <4>1 DEF Waiting, k
    <3>3. CASE k = pos
      <4>1. queue'[k] = Tail(queue[k]) /\ done' = done \cup {Head(queue[k])} /\ queue[k] # << >>
        BY <2>1, <3>1, <3>3 DEF TypeOK
      <4>2. \A i \in DOMAIN queue[k] :
                \/ queue[k][i] = Head(queue[k])
                \/ \E j \in DOMAIN Tail(queue[k]) : Tail(queue[k])[j] = queue[k][i]
        BY <2>2, <3>1, <4>1, Zenon
      <4>3. n \in done' \/ \E j \in DOMAIN queue'[k] : queue'[k][j] = n
        BY <2>3, <4>1, <4>2, Zenon DEF Waiting, k
      <4> QED
        BY <2>1, <4>3 DEF Waiting, k
    <3> QED
      BY <3>2, <3>3
  <2>4. \A n \in 1 .. Len(sent) : Key[sent[n]] \in Record
    <3>1. \A n \in 1 .. Len(sent) : sent[n] \in Mac
      BY <2>1 DEF TypeOK
    <3> QED
      BY <3>1 DEF Record
  <2> QED
    BY <2>1, <2>3, <2>4 DEF ServeInv, Named, Leaks, Collided, TooLate, Served, Alone
<1>2. CASE Advance
  BY <1>2 DEF Advance, table, ServeInv, Named, Leaks, Collided, TooLate, Served, Waiting
<1> QED
  BY <1>1, <1>2 DEF Travel

LEMMA NextServed == ServeInv /\ [Next]_vars => ServeInv'
<1> SUFFICES ASSUME ServeInv, [Next]_vars PROVE ServeInv'
  OBVIOUS
<1>1. TableInv'
  BY NextTable DEF ServeInv
<1>2. CASE UNCHANGED vars
  BY <1>1, <1>2 DEF vars, table, ServeInv, Named, Leaks, Collided, TooLate, Served, Waiting
<1> QED
  BY <1>1, <1>2, ReceiveServed, TravelServed DEF Next, ServeInv

\* A message of an AP alone in its bucket is handled or waits in the record that
\* message_travel visits, for any hash, unless it came after net_recv had stopped; and
\* net_recv stops only at a bucket two APs have collided in, once calloc has failed
\* (hash_ap, message_insert, ac/aphash.c:63-149). It is what AloneServed needs besides
\* a fair message_travel.
THEOREM AloneTheorem == Spec => []Served
<1>1. Init => ServeInv
  BY InitTable DEF Init, ServeInv, Named, Leaks, Served
<1>2. ServeInv => Served
  BY DEF ServeInv
<1> QED
  BY <1>1, <1>2, NextServed, PTL DEF Spec
=============================================================================
