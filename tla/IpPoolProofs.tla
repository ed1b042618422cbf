---------------------------- MODULE IpPoolProofs ----------------------------
(***************************************************************************)
(* Proofs about IpPool, for any memory, APs, addresses and rows of the     *)
(* database.                                                               *)
(***************************************************************************)
EXTENDS IpPool, FiniteSetTheorems, TLAPS

-----------------------------------------------------------------------------
(* The rings of include/list.h.                                            *)

Memory == [nxt : [Node -> Node], prv : [Node -> Node]]

\* S are the nodes on the ring of head h: the pointers stay among them and h, and no
\* part of S is a ring of its own.
Ring(l, h, S) ==
    /\ h \in Node /\ S \subseteq Node \ {h}
    /\ \A n \in S \cup {h} : l.nxt[n] \in S \cup {h} /\ l.prv[n] \in S \cup {h}
    /\ \A T \in SUBSET S : T # {} => \E n \in T : l.nxt[n] \notin T

\* All but n is sound and has nothing to do with n.
Alone(l, n) ==
    \A m \in Node \ {n} : /\ l.nxt[m] # n /\ l.prv[m] # n
                          /\ l.prv[l.nxt[m]] = m /\ l.nxt[l.prv[m]] = m

\* A non-empty set of naturals has a least element.
LEMMA LeastIsIn == ASSUME NEW js \in SUBSET Nat, js # {}
                   PROVE  \E x \in js : \A y \in js : x <= y
<1> DEFINE Less == {ss \in Nat \X Nat : ss[1] < ss[2]}
<1>1. IsWellFoundedOn(Less, Nat)
  BY NatLessThanWellFounded DEF OpToRel
<1> HIDE DEF Less
<1>2. PICK x \in js : \A y \in js : <<y, x>> \notin Less
  BY <1>1, WFMin
<1>3. ASSUME NEW y \in js PROVE x <= y
  <2>1. <<y, x>> \in Nat \X Nat /\ <<y, x>>[1] = y /\ <<y, x>>[2] = x
    OBVIOUS
  <2>2. ~ (y < x)
    BY <1>2, <2>1, Zenon DEF Less
  <2> QED
    BY <2>2
<1> QED
  BY <1>3

\* A walk goes from each node to the next.
LEMMA WalkIs ==
    ASSUME NEW l, NEW h, NEW K \in Nat, K = Cardinality(DOMAIN l.nxt)
    PROVE  /\ Walk(l, h) = [i \in 0 .. K |-> Walk(l, h)[i]]
           /\ Walk(l, h)[0] = l.nxt[h]
           /\ \A i \in 1 .. K : Walk(l, h)[i] = l.nxt[Walk(l, h)[i - 1]]
<1> DEFINE IsWalk(g) == g = [i \in 0 .. Cardinality(DOMAIN l.nxt) |->
                                IF i = 0 THEN l.nxt[h] ELSE l.nxt[g[i - 1]]]
           IsStart(k, g) == g = [i \in 0 .. k |-> IF i = 0 THEN l.nxt[h] ELSE l.nxt[g[i - 1]]]
           bad == {k \in 0 .. K : ~ \E g : IsStart(k, g)}
<1>1. bad = {}
  <2> SUFFICES ASSUME bad # {} PROVE FALSE
    OBVIOUS
  <2>1. bad \in SUBSET Nat
    OBVIOUS
  <2>2. PICK k \in bad : \A j \in bad : k <= j
    <3> HIDE DEF bad
    <3> QED
      BY <2>1, LeastIsIn
  <2>3. k \in 0 .. K /\ ~ \E g : IsStart(k, g)
    BY <2>2
  <2>4. CASE k = 0
    <3>1. IsStart(0, [i \in 0 .. 0 |-> l.nxt[h]])
      OBVIOUS
    <3> QED
      BY <2>3, <2>4, <3>1
  <2>5. CASE k # 0
    <3>1. k - 1 \in 0 .. K /\ k - 1 \notin bad
      BY <2>2, <2>5
    <3>2. PICK g : IsStart(k - 1, g)
      BY <3>1
    <3> DEFINE f == [i \in 0 .. k |-> IF i = k THEN l.nxt[g[k - 1]] ELSE g[i]]
    <3>3. \A i \in 0 .. k - 1 : f[i] = g[i] /\ g[i] = IF i = 0 THEN l.nxt[h] ELSE l.nxt[g[i - 1]]
      BY <2>3, <2>5, <3>2
    <3>4. \A i \in 0 .. k : f[i] = IF i = 0 THEN l.nxt[h] ELSE l.nxt[f[i - 1]]
      <4> SUFFICES ASSUME NEW i \in 0 .. k
                   PROVE  f[i] = IF i = 0 THEN l.nxt[h] ELSE l.nxt[f[i - 1]]
        OBVIOUS
      <4>1. CASE i = k
        <5>1. f[k] = l.nxt[g[k - 1]] /\ f[k - 1] = g[k - 1]
          BY <2>3, <2>5, <3>3
        <5> HIDE DEF f
        <5> QED
          BY <2>5, <4>1, <5>1
      <4>2. CASE i # k /\ i # 0
        <5>1. i \in 0 .. k - 1 /\ i - 1 \in 0 .. k - 1
          BY <2>3, <4>2
        <5>2. f[i] = g[i] /\ f[i - 1] = g[i - 1] /\ g[i] = l.nxt[g[i - 1]]
          BY <3>3, <4>2, <5>1
        <5> HIDE DEF f
        <5> QED
          BY <4>2, <5>2
      <4>3. CASE i # k /\ i = 0
        <5>1. 0 \in 0 .. k - 1
          BY <2>3, <2>5
        <5>2. f[0] = l.nxt[h]
          BY <3>3, <5>1
        <5> HIDE DEF f
        <5> QED
          BY <4>3, <5>2
      <4> QED
        BY <4>1, <4>2, <4>3
    <3>5. f = [i \in 0 .. k |-> f[i]]
      OBVIOUS
    <3>6. IsStart(k, f)
      <4> HIDE DEF f
      <4> QED
        BY <3>4, <3>5
    <3> QED
      BY <2>3, <3>6
  <2> QED
    BY <2>4, <2>5
<1>2. PICK g : IsStart(K, g)
  BY <1>1
<1>3. IsWalk(g)
  BY <1>2
<1>4. Walk(l, h) = CHOOSE at : at = [i \in 0 .. Cardinality(DOMAIN l.nxt) |->
                                        IF i = 0 THEN l.nxt[h] ELSE l.nxt[at[i - 1]]]
  BY Zenon DEF Walk
<1>5. Walk(l, h) = CHOOSE at : IsWalk(at)
  BY <1>4, Zenon
<1>6. IsWalk(Walk(l, h))
  <2> HIDE DEF IsWalk
  <2> QED
    BY <1>3, <1>5, Zenon
<1> DEFINE w == Walk(l, h)
<1>7. w = [i \in 0 .. K |-> IF i = 0 THEN l.nxt[h] ELSE l.nxt[w[i - 1]]]
  BY <1>6
<1> HIDE DEF w
<1>8. w = [i \in 0 .. K |-> w[i]] /\ w[0] = l.nxt[h] /\ \A i \in 1 .. K : w[i] = l.nxt[w[i - 1]]
  BY <1>7
<1> QED
  BY <1>8 DEF w

\* A walk round a ring visits its nodes and ends: list_for_each_entry.
LEMMA RingWalk ==
    ASSUME IsFiniteSet(Node), NEW l \in Memory, Sound(l), NEW h, NEW S, Ring(l, h, S)
    PROVE  Ends(l, h) /\ Visited(l, h) = S
<1> DEFINE w == Walk(l, h)
           K == Cardinality(Node)
           V == {w[i] : i \in {j \in 0 .. K : \A k \in 0 .. j : w[k] # h}}
<1>1. DOMAIN l.nxt = Node /\ K \in Nat
  BY FS_CardinalityType DEF Memory
<1>2. w = [i \in 0 .. K |-> w[i]] /\ w[0] = l.nxt[h] /\ \A i \in 1 .. K : w[i] = l.nxt[w[i - 1]]
  BY <1>1, WalkIs
<1>3. DOMAIN w = 0 .. K
  BY <1>2
<1>4. Ends(l, h) <=> \E i \in 0 .. K : w[i] = h
  BY <1>3 DEF Ends
<1>5. Visited(l, h) = V
  BY <1>3 DEF Visited
<1> HIDE DEF w
<1>6. \A n \in S \cup {h} : l.nxt[n] \in S \cup {h}
  BY DEF Ring
<1>7. \A i \in 0 .. K : w[i] \in S \cup {h}
  <2> DEFINE out == {i \in 0 .. K : w[i] \notin S \cup {h}}
  <2> SUFFICES ASSUME out # {} PROVE FALSE
    OBVIOUS
  <2>1. out \in SUBSET Nat
    OBVIOUS
  <2>2. PICK k \in out : \A j \in out : k <= j
    <3> HIDE DEF out
    <3> QED
      BY <2>1, LeastIsIn
  <2>3. k # 0
    BY <1>2, <1>6, <2>2
  <2>4. k - 1 \in 0 .. K /\ k - 1 \notin out /\ k \in 1 .. K
    BY <1>1, <2>2, <2>3
  <2> QED
    BY <1>2, <1>6, <2>2, <2>4
<1>8. \E i \in 0 .. K : w[i] = h
  <2> SUFFICES ASSUME \A i \in 0 .. K : w[i] # h PROVE FALSE
    OBVIOUS
  <2> DEFINE f == [i \in 0 .. K |-> w[i]]
  <2>1. f \in [0 .. K -> S]
    BY <1>7
  <2>2. /\ IsFiniteSet(0 .. K) /\ Cardinality(0 .. K) = K + 1
    BY <1>1, FS_Interval
  <2>3. /\ IsFiniteSet(S) /\ Cardinality(S) < K + 1
    <3>1. S \in SUBSET Node
      BY DEF Ring
    <3> QED
      BY <1>1, <3>1, FS_Subset, FS_CardinalityType
  <2>4. \E i, j \in 0 .. K : i # j /\ f[i] = f[j]
    <3> HIDE DEF f
    <3> QED
      BY <2>1, <2>2, <2>3, FS_PigeonHole
  <2>5. PICK i, j \in 0 .. K : i < j /\ w[i] = w[j]
    BY <1>1, <2>4
  <2> DEFINE T == {w[k] : k \in i .. j - 1}
  <2>6. T \in SUBSET S /\ T # {}
    <3>1. w[i] \in T
      BY <1>1, <2>5
    <3> QED
      BY <1>1, <1>7, <2>5, <3>1
  <2>7. PICK n \in T : l.nxt[n] \notin T
    BY <2>6 DEF Ring
  <2>8. PICK k \in i .. j - 1 : n = w[k]
    OBVIOUS
  <2>9. k + 1 \in 1 .. K /\ w[k + 1] = l.nxt[n]
    <3>1. k + 1 \in 1 .. K /\ (k + 1) - 1 = k
      BY <1>1, <2>8
    <3> QED
      BY <1>2, <2>8, <3>1
  <2>10. w[k + 1] \in T
    <3>1. CASE k = j - 1
      BY <2>5, <3>1
    <3>2. CASE k # j - 1
      <4>1. k + 1 \in i .. j - 1
        BY <2>8, <3>2
      <4> QED
        BY <4>1
    <3> QED
      BY <3>1, <3>2
  <2> QED
    BY <2>7, <2>9, <2>10
<1>9. V \subseteq S
  BY <1>1, <1>7
<1>10. S \subseteq V
  <2> DEFINE T == S \ V
  <2> SUFFICES ASSUME T # {} PROVE FALSE
    OBVIOUS
  <2>1. PICK n \in T : l.nxt[n] \notin T
    BY DEF Ring
  <2>2. n \in Node /\ n # h /\ h \in Node
    BY DEF Ring
  <2>3. \A m \in Node : l.nxt[m] = l.nxt[n] => m = n
    BY <1>1, <2>2 DEF Sound
  <2>4. l.nxt[n] \in V \/ l.nxt[n] = h
    BY <1>6, <2>1
  <2>5. ASSUME NEW i \in 0 .. K, w[i] = l.nxt[n], \A k \in 0 .. i : k # i => w[k] # h
        PROVE  FALSE
    <3>1. i # 0
      BY <1>2, <2>2, <2>3, <2>5
    <3>2. i \in 1 .. K /\ i - 1 \in 0 .. K
      BY <1>1, <3>1
    <3>3. w[i] = l.nxt[w[i - 1]] /\ w[i - 1] \in Node
      BY <1>2, <1>7, <3>2 DEF Ring
    <3>4. w[i - 1] = n
      BY <2>3, <2>5, <3>3
    <3>5. \A k \in 0 .. i - 1 : w[k] # h
      BY <2>5, <3>2
    <3>6. n \in V
      BY <3>2, <3>4, <3>5
    <3> QED
      BY <3>6
  <2>6. CASE l.nxt[n] \in V
    <3>1. PICK i \in 0 .. K : w[i] = l.nxt[n] /\ \A k \in 0 .. i : w[k] # h
      BY <2>6
    <3> QED
      BY <2>5, <3>1
  <2>7. CASE l.nxt[n] = h
    <3> DEFINE at == {i \in 0 .. K : w[i] = h}
    <3>1. at \in SUBSET Nat /\ at # {}
      BY <1>8
    <3>2. PICK i \in at : \A k \in at : i <= k
      <4> HIDE DEF at
      <4> QED
        BY <3>1, LeastIsIn
    <3>3. i \in 0 .. K /\ \A k \in 0 .. i : k # i => w[k] # h
      BY <1>1, <3>2
    <3> QED
      BY <2>5, <2>7, <3>2, <3>3
  <2> QED
    BY <2>4, <2>6, <2>7
<1> QED
  BY <1>4, <1>5, <1>8, <1>9, <1>10

\* A node that points to itself is alone.
LEMMA OwnPointers ==
    ASSUME NEW l \in Memory, Sound(l), NEW n \in Node, l.nxt[n] = n, l.prv[n] = n
    PROVE  Alone(l, n)
<1>1. DOMAIN l.nxt = Node /\ \A m \in Node : l.nxt[m] \in Node /\ l.prv[m] \in Node
  BY DEF Memory
<1> QED
  BY <1>1 DEF Alone, Sound

\* __list_add of a node that is alone, behind p.
LEMMA Inserted ==
    ASSUME NEW l \in Memory, NEW n \in Node, NEW p \in Node, p # n, Alone(l, n),
           NEW k, k = InsertBetween(l, n, p, l.nxt[p])
    PROVE  /\ k \in Memory /\ Sound(k)
           /\ \A m \in Node \ {n, p, l.nxt[p]} : k.nxt[m] = l.nxt[m] /\ k.prv[m] = l.prv[m]
           /\ \A h, S : Ring(l, h, S) /\ n \notin S \cup {h} =>
                 IF p \in S \cup {h} THEN Ring(k, h, S \cup {n}) ELSE Ring(k, h, S)
<1> DEFINE s == l.nxt[p]
<1>1. /\ l.nxt \in [Node -> Node] /\ l.prv \in [Node -> Node] /\ s \in Node /\ s # n
      /\ k = InsertBetween(l, n, p, s)
  BY DEF Memory, Alone
<1> HIDE DEF s
<1>2. /\ k.nxt = [l.nxt EXCEPT ![n] = s, ![p] = n]
      /\ k.prv = [l.prv EXCEPT ![s] = n, ![n] = p]
      /\ k \in Memory
  BY <1>1 DEF InsertBetween, Memory
<1>3. /\ k.nxt[n] = s /\ k.nxt[p] = n /\ k.prv[s] = n /\ k.prv[n] = p
      /\ \A m \in Node \ {n, p} : k.nxt[m] = l.nxt[m]
      /\ \A m \in Node \ {n, s} : k.prv[m] = l.prv[m]
  BY <1>1, <1>2
<1>4. \A m \in Node \ {n} : /\ l.nxt[m] # n /\ l.prv[m] # n /\ l.prv[l.nxt[m]] = m
                             /\ l.nxt[l.prv[m]] = m /\ l.nxt[m] \in Node /\ l.prv[m] \in Node
  BY <1>1 DEF Alone
<1>5. l.prv[s] = p /\ l.nxt[p] = s
  BY <1>4 DEF s
<1>6. Sound(k)
  <2> SUFFICES ASSUME NEW m \in Node PROVE k.prv[k.nxt[m]] = m /\ k.nxt[k.prv[m]] = m
    BY <1>1, <1>2 DEF Sound
  <2>1. k.prv[k.nxt[m]] = m
    <3>1. CASE m = n \/ m = p
      BY <1>3, <3>1
    <3>2. CASE m # n /\ m # p
      <4>1. k.nxt[m] = l.nxt[m] /\ l.nxt[m] \in Node /\ l.nxt[m] # n /\ l.nxt[m] # s
        BY <1>3, <1>4, <1>5, <3>2
      <4> QED
        BY <1>3, <1>4, <3>2, <4>1
    <3> QED
      BY <3>1, <3>2
  <2>2. k.nxt[k.prv[m]] = m
    <3>1. CASE m = n \/ m = s
      BY <1>3, <3>1
    <3>2. CASE m # n /\ m # s
      <4>1. k.prv[m] = l.prv[m] /\ l.prv[m] \in Node /\ l.prv[m] # n /\ l.prv[m] # p
        BY <1>3, <1>4, <1>5, <3>2
      <4> QED
        BY <1>3, <1>4, <3>2, <4>1
    <3> QED
      BY <3>1, <3>2
  <2> QED
    BY <2>1, <2>2
<1>7. ASSUME NEW h, NEW S, Ring(l, h, S), n \notin S \cup {h}, p \in S \cup {h}
      PROVE  Ring(k, h, S \cup {n})
  <2>1. /\ h \in Node /\ S \subseteq Node \ {h}
        /\ \A m \in S \cup {h} : l.nxt[m] \in S \cup {h} /\ l.prv[m] \in S \cup {h}
        /\ \A T \in SUBSET S : T # {} => \E m \in T : l.nxt[m] \notin T
    BY <1>7 DEF Ring
  <2>2. s \in S \cup {h}
    BY <1>5, <1>7, <2>1
  <2>3. ASSUME NEW m \in S \cup {n} \cup {h}
        PROVE  k.nxt[m] \in S \cup {n} \cup {h} /\ k.prv[m] \in S \cup {n} \cup {h}
    BY <1>3, <1>7, <2>1, <2>2
  <2>4. ASSUME NEW T \in SUBSET (S \cup {n}), T # {} PROVE \E m \in T : k.nxt[m] \notin T
    <3> DEFINE U == T \ {n}
    <3>1. CASE U = {}
      <4>1. n \in T /\ s \notin T
        BY <1>1, <2>4, <3>1
      <4> QED
        BY <1>3, <4>1
    <3>2. CASE U # {}
      <4>1. PICK m \in U : l.nxt[m] \notin U
        BY <2>1, <3>2
      <4>2. m \in T /\ m # n /\ m \in Node
        BY <2>1
      <4>3. l.nxt[m] \notin T
        BY <1>4, <4>1, <4>2
      <4>4. CASE m # p
        BY <1>3, <4>2, <4>3, <4>4
      <4>5. CASE m = p
        BY <1>3, <1>5, <4>2, <4>3, <4>5
      <4> QED
        BY <4>4, <4>5
    <3> QED
      BY <3>1, <3>2
  <2> QED
    BY <1>7, <2>1, <2>3, <2>4 DEF Ring
<1>8. ASSUME NEW h, NEW S, Ring(l, h, S), n \notin S \cup {h}, p \notin S \cup {h}
      PROVE  Ring(k, h, S)
  <2>1. /\ h \in Node /\ S \subseteq Node \ {h}
        /\ \A m \in S \cup {h} : l.nxt[m] \in S \cup {h} /\ l.prv[m] \in S \cup {h}
        /\ \A T \in SUBSET S : T # {} => \E m \in T : l.nxt[m] \notin T
    BY <1>8 DEF Ring
  <2>2. s \notin S \cup {h}
    BY <1>5, <1>8, <2>1
  <2>3. \A m \in S \cup {h} : m \in Node /\ k.nxt[m] = l.nxt[m] /\ k.prv[m] = l.prv[m]
    BY <1>3, <1>8, <2>1, <2>2
  <2> QED
    BY <2>1, <2>3 DEF Ring
<1>9. \A m \in Node \ {n, p, s} : k.nxt[m] = l.nxt[m] /\ k.prv[m] = l.prv[m]
  BY <1>3
<1> QED
  BY <1>2, <1>6, <1>7, <1>8, <1>9 DEF s

\* __list_del_entry of a node on a ring.
LEMMA Deleted ==
    ASSUME NEW l \in Memory, Sound(l), NEW h, NEW S, Ring(l, h, S), NEW n \in S,
           NEW k, k = __list_del_entry(l, n)
    PROVE  /\ k \in Memory /\ Alone(k, n) /\ Ring(k, h, S \ {n})
           /\ \A g, U : Ring(l, g, U) /\ (U \cup {g}) \cap (S \cup {h}) = {} => Ring(k, g, U)
           /\ \A m \in Node \ (S \cup {h}) : k.nxt[m] = l.nxt[m] /\ k.prv[m] = l.prv[m]
<1> DEFINE p == l.prv[n]
           s == l.nxt[n]
<1>1. /\ h \in Node /\ S \subseteq Node \ {h}
      /\ \A m \in S \cup {h} : l.nxt[m] \in S \cup {h} /\ l.prv[m] \in S \cup {h}
      /\ \A T \in SUBSET S : T # {} => \E m \in T : l.nxt[m] \notin T
  BY DEF Ring
<1>2. /\ l.nxt \in [Node -> Node] /\ l.prv \in [Node -> Node]
      /\ \A m \in Node : /\ l.prv[l.nxt[m]] = m /\ l.nxt[l.prv[m]] = m
                         /\ l.nxt[m] \in Node /\ l.prv[m] \in Node
  BY DEF Memory, Sound
<1>3. n \in Node /\ n # h /\ p \in S \cup {h} /\ s \in S \cup {h} /\ p \in Node /\ s \in Node
      /\ l.nxt[p] = n /\ l.prv[s] = n /\ l.nxt[n] = s /\ l.prv[n] = p
  BY <1>1, <1>2
<1>4. s # n /\ p # n
  <2>1. l.nxt[n] \notin {n}
    BY <1>1
  <2> QED
    BY <1>3, <2>1
<1>5. k.nxt = [l.nxt EXCEPT ![p] = s] /\ k.prv = [l.prv EXCEPT ![s] = p] /\ k \in Memory
  BY <1>2, <1>3 DEF __list_del_entry, Memory
<1> HIDE DEF p, s
<1>6. /\ k.nxt[p] = s /\ k.prv[s] = p
      /\ \A m \in Node \ {p} : k.nxt[m] = l.nxt[m]
      /\ \A m \in Node \ {s} : k.prv[m] = l.prv[m]
  BY <1>2, <1>3, <1>5
<1>7. Alone(k, n)
  <2> SUFFICES ASSUME NEW m \in Node \ {n}
               PROVE  /\ k.nxt[m] # n /\ k.prv[m] # n
                      /\ k.prv[k.nxt[m]] = m /\ k.nxt[k.prv[m]] = m
    BY DEF Alone
  <2>1. k.nxt[m] # n /\ k.prv[k.nxt[m]] = m
    <3>1. CASE m = p
      BY <1>4, <1>6, <3>1
    <3>2. CASE m # p
      <4>1. k.nxt[m] = l.nxt[m] /\ l.nxt[m] # n /\ l.nxt[m] # s /\ l.nxt[m] \in Node
        BY <1>2, <1>3, <1>6, <3>2
      <4> QED
        BY <1>2, <1>6, <4>1
    <3> QED
      BY <3>1, <3>2
  <2>2. k.prv[m] # n /\ k.nxt[k.prv[m]] = m
    <3>1. CASE m = s
      BY <1>4, <1>6, <3>1
    <3>2. CASE m # s
      <4>1. k.prv[m] = l.prv[m] /\ l.prv[m] # n /\ l.prv[m] # p /\ l.prv[m] \in Node
        BY <1>2, <1>3, <1>6, <3>2
      <4> QED
        BY <1>2, <1>6, <4>1
    <3> QED
      BY <3>1, <3>2
  <2> QED
    BY <2>1, <2>2
<1>8. Ring(k, h, S \ {n})
  <2>1. ASSUME NEW m \in (S \ {n}) \cup {h}
        PROVE  k.nxt[m] \in (S \ {n}) \cup {h} /\ k.prv[m] \in (S \ {n}) \cup {h}
    <3>1. m \in Node \ {n}
      BY <1>1, <1>3
    <3>2. k.nxt[m] # n /\ k.prv[m] # n
      BY <1>7, <3>1 DEF Alone
    <3>3. k.nxt[m] \in {s, l.nxt[m]} /\ k.prv[m] \in {p, l.prv[m]}
      BY <1>6, <3>1
    <3> QED
      BY <1>1, <1>3, <3>2, <3>3
  <2>2. ASSUME NEW T \in SUBSET (S \ {n}), T # {} PROVE \E m \in T : k.nxt[m] \notin T
    <3>1. CASE p \in T /\ s \in T
      <4>1. T \cup {n} \in SUBSET S
        BY <1>1
      <4>2. PICK m \in T \cup {n} : l.nxt[m] \notin T \cup {n}
        BY <1>1, <4>1
      <4>3. m # p /\ m # n
        BY <1>3, <3>1, <4>2
      <4>4. m \in T /\ m \in Node
        BY <1>1, <4>2, <4>3
      <4>5. k.nxt[m] = l.nxt[m]
        BY <1>6, <4>3, <4>4
      <4> QED
        BY <4>2, <4>4, <4>5
    <3>2. CASE p \in T /\ s \notin T
      BY <1>6, <3>2
    <3>3. CASE p \notin T
      <4>1. PICK m \in T : l.nxt[m] \notin T
        BY <1>1, <2>2
      <4>2. m # p /\ m \in Node
        BY <1>1, <3>3
      <4> QED
        BY <1>6, <4>1, <4>2
    <3> QED
      BY <3>1, <3>2, <3>3
  <2> QED
    BY <1>1, <2>1, <2>2 DEF Ring
<1>9. ASSUME NEW g, NEW U, Ring(l, g, U), (U \cup {g}) \cap (S \cup {h}) = {}
      PROVE  Ring(k, g, U)
  <2>1. U \cup {g} \subseteq Node
    BY <1>9 DEF Ring
  <2>2. \A m \in U \cup {g} : k.nxt[m] = l.nxt[m] /\ k.prv[m] = l.prv[m]
    BY <1>3, <1>6, <1>9, <2>1
  <2> QED
    BY <1>9, <2>2 DEF Ring
<1>10. \A m \in Node \ (S \cup {h}) : k.nxt[m] = l.nxt[m] /\ k.prv[m] = l.prv[m]
  BY <1>3, <1>6
<1> QED
  BY <1>5, <1>7, <1>8, <1>9, <1>10

\* A head that points to itself has nothing on its ring.
LEMMA EmptyRing == ASSUME NEW l \in Memory, Sound(l), NEW h, NEW S, Ring(l, h, S)
                   PROVE  /\ list_empty(l, h) <=> S = {}
                          /\ ~list_empty(l, h) => list_first_entry(l, h) \in S
<1>1. ASSUME S # {}, l.nxt[h] = h PROVE FALSE
  <2>1. PICK n \in S : l.nxt[n] \notin S
    BY <1>1 DEF Ring
  <2> QED
    BY <1>1, <2>1 DEF Ring, Sound, Memory
<1> QED
  BY <1>1 DEF Ring, list_empty, list_first_entry

-----------------------------------------------------------------------------
(* The texts that res_check reads. The row of a table, made a text by      *)
(* sql_query_res and read by json_read_object, comes back as it was: its   *)
(* columns lie one behind the other in the text, and the parser goes from  *)
(* one to the next with the values of those before in their fields.        *)

Atom == Run \cup Mark
Char == Atom \cup Odd

\* What is true at the start and stays true of the next is true up to the end.
LEMMA Climbs ==
    ASSUME NEW K \in Nat, NEW P, NEW at, at[0] \in P,
           \A i \in 1 .. K : at[i - 1] \in P => at[i] \in P
    PROVE  \A i \in 0 .. K : at[i] \in P
<1> DEFINE out == {i \in 0 .. K : at[i] \notin P}
<1> SUFFICES ASSUME out # {} PROVE FALSE
  OBVIOUS
<1>1. out \in SUBSET Nat
  OBVIOUS
<1>2. PICK k \in out : \A j \in out : k <= j
  <2> HIDE DEF out
  <2> QED
    BY <1>1, LeastIsIn
<1>3. k # 0
  BY <1>2
<1>4. k - 1 \in 0 .. K /\ k - 1 \notin out /\ k \in 1 .. K
  BY <1>2, <1>3
<1> QED
  BY <1>2, <1>4

\* A run of K steps from p, one through each of the functions F.
Goes(K, p, F, f) == f[0] = p /\ \A i \in 1 .. K : f[i] = F[i][f[i - 1]]

\* There is such a run, whatever the steps are.
LEMMA Steps ==
    ASSUME NEW K \in Nat, NEW P, NEW p \in P, NEW F \in [1 .. K -> [P -> P]]
    PROVE  \E f \in [0 .. K -> P] : Goes(K, p, F, f)
<1> DEFINE bad == {k \in 0 .. K : ~ \E f \in [0 .. k -> P] : Goes(k, p, F, f)}
<1> SUFFICES ASSUME bad # {} PROVE FALSE
  OBVIOUS
<1>1. bad \in SUBSET Nat
  OBVIOUS
<1>2. PICK k \in bad : \A j \in bad : k <= j
  <2> HIDE DEF bad
  <2> QED
    BY <1>1, LeastIsIn
<1>3. CASE k = 0
  <2> DEFINE f == [i \in 0 .. 0 |-> p]
  <2>1. f \in [0 .. 0 -> P] /\ f[0] = p
    OBVIOUS
  <2>2. Goes(0, p, F, f)
    BY <2>1 DEF Goes
  <2> QED
    BY <1>2, <1>3, <2>1, <2>2
<1>4. CASE k # 0
  <2>1. k - 1 \in 0 .. K /\ k - 1 \notin bad /\ k \in 1 .. K
    <3>1. k \in 0 .. K
      BY <1>2
    <3> HIDE DEF bad
    <3> QED
      BY <1>2, <1>4, <3>1
  <2>2. PICK g \in [0 .. k - 1 -> P] : Goes(k - 1, p, F, g)
    BY <2>1
  <2> DEFINE f == [i \in 0 .. k |-> IF i = k THEN F[k][g[k - 1]] ELSE g[i]]
  <2>3. F[k][g[k - 1]] \in P
    BY <2>1, <2>2
  <2>4. f \in [0 .. k -> P]
    <3>1. ASSUME NEW i \in 0 .. k, i # k PROVE g[i] \in P
      <4>1. i \in 0 .. k - 1
        BY <2>1, <3>1
      <4> QED
        BY <4>1, <2>2
    <3> QED
      BY <2>3, <3>1
  <2>5. \A i \in 0 .. k - 1 : f[i] = g[i]
    BY <2>1
  <2>6. f[k] = F[k][g[k - 1]]
    BY <2>1
  <2> HIDE DEF f
  <2>7. Goes(k, p, F, f)
    <3>1. f[0] = p
      BY <2>1, <2>2, <2>5 DEF Goes
    <3>2. ASSUME NEW i \in 1 .. k PROVE f[i] = F[i][f[i - 1]]
      <4>1. f[i - 1] = g[i - 1] /\ i - 1 \in 0 .. k - 1
        BY <2>1, <2>5
      <4>2. CASE i = k
        BY <2>6, <4>1, <4>2
      <4>3. CASE i # k
        <5>1. i \in 0 .. k - 1 /\ i \in 1 .. k - 1
          BY <2>1, <4>3
        <5> QED
          BY <2>2, <2>5, <4>1, <5>1 DEF Goes
      <4> QED
        BY <4>2, <4>3
    <3> QED
      BY <3>1, <3>2 DEF Goes
  <2> QED
    BY <1>2, <2>4, <2>7
<1> QED
  BY <1>3, <1>4

\* The text of a row grows column by column, and is a text.
LEMMA RowTextIs ==
    ASSUME NEW r \in Table
    PROVE  /\ RowText(r) \in Seq(Atom)
           /\ \E up : /\ up[0] = JSON_ENCODE_START
                      /\ \A i \in 1 .. Len(tables) :
                            up[i] = JSON_ENCODE(up[i - 1], tables[i], Shown(r[i]))
                      /\ \A i \in 0 .. Len(tables) : up[i] \in Seq(Atom)
                      /\ RowText(r) = JSON_ENCODE_END(up[Len(tables)])
<1> DEFINE K == Len(tables)
           T == Seq(Atom)
           IsStart(at) == at = [i \in 0 .. K |-> IF i = 0 THEN JSON_ENCODE_START
                                   ELSE JSON_ENCODE(at[i - 1], tables[i], Shown(r[i]))]
           upTo == CHOOSE at : IsStart(at)
<1>1. /\ tables \in Seq(Run) /\ DOMAIN r = DOMAIN tables /\ SQL_NULL \in Run
      /\ \A i \in DOMAIN r : r[i] = NULL \/ r[i] \in T
  BY ResourceAssumption DEF Atom
<1>2. K \in Nat /\ DOMAIN tables = 1 .. K /\ \A i \in 1 .. K : tables[i] \in Run
  BY <1>1
<1>3. \A i \in 1 .. K : Shown(r[i]) \in T
  <2>1. Atom = Run \cup Mark /\ <<SQL_NULL>> \in T
    BY <1>1 DEF Atom
  <2> HIDE DEF T
  <2> QED
    BY <1>1, <1>2, <2>1 DEF Shown
<1>4. /\ JSON_ENCODE_START \in T
      /\ \A buf \in T, key \in Run, v \in T : JSON_ENCODE(buf, key, v) \in T
  <2>1. {"{", ":", ",", "quote"} \subseteq Atom /\ Run \subseteq Atom
    BY DEF Atom, Mark
  <2>2. ASSUME NEW buf \in T, NEW key \in Run, NEW v \in T PROVE JSON_ENCODE(buf, key, v) \in T
    <3>1. "quote" \in Atom /\ ":" \in Atom /\ "," \in Atom /\ key \in Atom
      BY <2>1
    <3>2. /\ \A a, b, c, d, e \in Atom : <<a, b, c, d, e>> \in Seq(Atom)
          /\ \A a, b \in Atom : <<a, b>> \in Seq(Atom)
      OBVIOUS
    <3>3. <<"quote", key, "quote", ":", "quote">> \in T /\ <<"quote", ",">> \in T
      BY <3>1, <3>2
    <3>4. \A s, u \in T : s \o u \in T
      OBVIOUS
    <3> HIDE DEF T
    <3> QED
      BY <3>3, <3>4 DEF JSON_ENCODE
  <2>3. <<"{">> \in T
    <3>1. \A a \in Atom : <<a>> \in Seq(Atom)
      OBVIOUS
    <3> QED
      BY <2>1, <3>1
  <2> QED
    BY <2>2, <2>3 DEF JSON_ENCODE_START
<1>5. RowText(r) = JSON_ENCODE_END(upTo[K])
  BY Zenon DEF RowText
<1> HIDE DEF K
<1>6. \E at : IsStart(at)
  <2> DEFINE F == [i \in 1 .. K |-> [buf \in T |-> JSON_ENCODE(buf, tables[i], Shown(r[i]))]]
  <2>1. F \in [1 .. K -> [T -> T]]
    BY <1>2, <1>3, <1>4
  <2>2. PICK f \in [0 .. K -> T] : Goes(K, JSON_ENCODE_START, F, f)
    <3>1. K \in Nat /\ JSON_ENCODE_START \in T
      BY <1>2, <1>4
    <3> HIDE DEF F, T
    <3> QED
      BY <2>1, <3>1, Steps, Zenon
  <2>3. \A i \in 1 .. K : f[i - 1] \in T
    BY <1>2, <2>2
  <2>4. \A i \in 1 .. K : f[i] = JSON_ENCODE(f[i - 1], tables[i], Shown(r[i]))
    BY <2>2, <2>3 DEF Goes
  <2>5. \A i \in 0 .. K : i # 0 => i \in 1 .. K
    BY <1>2
  <2>6. IsStart(f)
    BY <2>2, <2>4, <2>5 DEF Goes
  <2> QED
    BY <2>6
<1>7. IsStart(upTo)
  <2> HIDE DEF IsStart
  <2> QED
    BY <1>6, Zenon
<1> HIDE DEF upTo
<1>8. upTo[0] = JSON_ENCODE_START
  BY <1>2, <1>7
<1>9. ASSUME NEW i \in 1 .. K
      PROVE  upTo[i] = JSON_ENCODE(upTo[i - 1], tables[i], Shown(r[i]))
  <2>1. i \in 0 .. K /\ i # 0
    BY <1>2
  <2> QED
    BY <1>7, <2>1
<1> HIDE DEF T
<1>10. \A i \in 0 .. K : upTo[i] \in T
  <2>1. \A i \in 1 .. K : upTo[i - 1] \in T => upTo[i] \in T
    BY <1>2, <1>3, <1>4, <1>9
  <2>2. K \in Nat /\ upTo[0] \in T
    BY <1>2, <1>4, <1>8
  <2> QED
    BY <2>1, <2>2, Climbs, Zenon
<1> USE DEF T
<1>11. ASSUME NEW buf \in T PROVE JSON_ENCODE_END(buf) \in T
  <2>1. SubSeq(buf, 1, Len(buf) - 1) \in T
    <3>1. CASE Len(buf) = 0
      BY <3>1
    <3>2. CASE Len(buf) # 0
      BY <3>2
    <3> QED
      BY <3>1, <3>2
  <2>2. "}" \in Atom
    BY DEF Atom, Mark
  <2>3. \A s \in T, a \in Atom : Append(s, a) \in T
    OBVIOUS
  <2>4. CASE Seqs!Last(buf) = ","
    BY <2>1, <2>2, <2>3, <2>4 DEF JSON_ENCODE_END, Seqs!Front
  <2>5. CASE Seqs!Last(buf) # ","
    BY <2>2, <2>3, <2>5 DEF JSON_ENCODE_END
  <2> QED
    BY <2>4, <2>5
<1>12. RowText(r) \in T
  BY <1>2, <1>5, <1>10, <1>11
<1> QED
  BY <1>5, <1>8, <1>9, <1>10, <1>12 DEF K

\* What the parser knows, whatever it reads.
ParserState == {"init", "await_attr", "in_attr", "await_value", "in_val_string",
                "in_escape", "in_val_token", "post_val", "stop"}
ParserStatus == {"ok", "OBSTART", "ATTRSTART", "BADATTR", "ATTRLEN", "NOARRAY", "STRLONG",
           "TOKLONG", "BADTRAIL", "NONQSTRING"}
Parser == [st : ParserState, status : ParserStatus, attr : Seq(Atom), val : Seq(Char), n : Nat,
           quoted : BOOLEAN, field : [json_attrs -> Seq(Char)]]

\* An error ends in a state of the parser, and so does every atom (ReadAtomType).
LEMMA FailsType ==
    ASSUME NEW q \in Parser, NEW error \in ParserStatus PROVE Fails(q, error) \in Parser
  BY DEF Fails, Parser, ParserState
\* One field, or some, get another value.
LEMMA ParserSet ==
    ASSUME NEW p \in Parser
    PROVE  /\ \A s \in ParserState : [p EXCEPT !.st = s] \in Parser
           /\ \A s \in ParserState, x \in Seq(Atom), n \in Nat :
                 [p EXCEPT !.st = s, !.attr = x, !.n = n] \in Parser
           /\ \A x \in Seq(Atom), n \in Nat : [p EXCEPT !.attr = x, !.n = n] \in Parser
           /\ \A v \in Seq(Char), n \in Nat : [p EXCEPT !.val = v, !.n = n] \in Parser
           /\ \A s \in ParserState, v \in Seq(Char), n \in Nat, b \in BOOLEAN :
                 [p EXCEPT !.st = s, !.val = v, !.n = n, !.quoted = b] \in Parser
           /\ \A s \in ParserState, v \in Seq(Char), n \in Nat :
                 [p EXCEPT !.st = s, !.n = n, !.val = v] \in Parser
<1>1. \A s \in ParserState : [p EXCEPT !.st = s] \in Parser
  BY DEF Parser
<1>2. \A s \in ParserState, x \in Seq(Atom), n \in Nat :
         [p EXCEPT !.st = s, !.attr = x, !.n = n] \in Parser
  BY DEF Parser
<1>3. \A x \in Seq(Atom), n \in Nat : [p EXCEPT !.attr = x, !.n = n] \in Parser
  BY DEF Parser
<1>4. \A v \in Seq(Char), n \in Nat : [p EXCEPT !.val = v, !.n = n] \in Parser
  BY DEF Parser
<1>5. \A s \in ParserState, v \in Seq(Char), n \in Nat, b \in BOOLEAN :
         [p EXCEPT !.st = s, !.val = v, !.n = n, !.quoted = b] \in Parser
  BY DEF Parser
<1>6. \A s \in ParserState, v \in Seq(Char), n \in Nat :
         [p EXCEPT !.st = s, !.n = n, !.val = v] \in Parser
  BY DEF Parser
<1> QED
  BY <1>1, <1>2, <1>3, <1>4, <1>5, <1>6

LEMMA ReadAtomType == ASSUME NEW p \in Parser, NEW a \in Atom PROVE ReadAtom(p, a) \in Parser
<1>1. Chars(a) \in Nat \ {0}
  BY JsonAssumption DEF Chars, Atom
<1>2. a \in Char
  BY DEF Char
<1>3. p.n + Chars(a) \in Nat /\ p.attr \in Seq(Atom) /\ p.val \in Seq(Char)
  BY <1>1 DEF Parser
<1>4. /\ << >> \in Seq(Atom) /\ << >> \in Seq(Char) /\ <<a>> \in Seq(Char)
      /\ Append(p.attr, a) \in Seq(Atom) /\ Append(p.val, a) \in Seq(Char)
  BY <1>2, <1>3
<1>5. InInit(p, a) \in Parser
  BY ParserSet, FailsType DEF InInit, ParserState, ParserStatus
<1>6. AwaitAttr(p, a) \in Parser
  <2>1. [p EXCEPT !.st = "in_attr", !.attr = << >>, !.n = 0] \in Parser
    BY <1>4, ParserSet DEF ParserState
  <2> QED
    BY <2>1, FailsType DEF AwaitAttr, ParserStatus
<1>7. InAttr(p, a) \in Parser
  <2>1. [p EXCEPT !.st = "await_value"] \in Parser
    BY ParserSet DEF ParserState
  <2>2. [p EXCEPT !.attr = Append(@, a), !.n = @ + Chars(a)] \in Parser
    BY <1>3, <1>4, ParserSet
  <2> QED
    BY <2>1, <2>2, FailsType DEF InAttr, ParserStatus
<1>8. AwaitValue(p, a) \in Parser
  <2>1. [p EXCEPT !.st = "in_val_string", !.val = << >>, !.n = 0, !.quoted = TRUE] \in Parser
    BY <1>4, ParserSet DEF ParserState
  <2>2. [p EXCEPT !.st = "in_val_token", !.val = <<a>>, !.n = Chars(a), !.quoted = FALSE]
           \in Parser
    BY <1>1, <1>4, ParserSet DEF ParserState
  <2> QED
    BY <2>1, <2>2, FailsType DEF AwaitValue, ParserStatus
<1>9. [p EXCEPT !.val = Append(@, a), !.n = @ + Chars(a)] \in Parser
  BY <1>3, <1>4, ParserSet
<1>10. \A s \in ParserState : [p EXCEPT !.st = s] \in Parser
  BY DEF Parser
<1>11. InValString(p, a) \in Parser
  BY <1>9, <1>10, FailsType DEF InValString, ParserState, ParserStatus
<1>12. InEscape(p, a) \in Parser
  <2>1. Meant(a) \in Seq(Char)
    <3>1. CASE a \in DOMAIN Coded
      <4>1. Coded[a] \in Char
        BY <3>1, JsonAssumption DEF Char, Odd, Atom, Mark
      <4>2. \A c, d \in Char : <<c, d>> \in Seq(Char)
        OBVIOUS
      <4> QED
        BY <1>2, <3>1, <4>1, <4>2 DEF Meant
    <3>2. CASE a \notin DOMAIN Coded
      BY <1>4, <3>2 DEF Meant
    <3> QED
      BY <3>1, <3>2
  <2>2. p.val \o Meant(a) \in Seq(Char)
    BY <1>3, <2>1
  <2>3. [p EXCEPT !.st = "in_val_string", !.n = @ + Chars(a), !.val = @ \o Meant(a)] \in Parser
    BY <1>3, <2>2, ParserSet DEF ParserState
  <2> QED
    BY <2>3, FailsType DEF InEscape, ParserStatus
<1>13. ASSUME NEW q \in Parser PROVE PostVal(q, a) \in Parser
  <2>1. StoreString(q) \in Parser
    <3>1. q.val \in Seq(Char) /\ q.field \in [json_attrs -> Seq(Char)]
      BY DEF Parser
    <3>2. "unended" \in Char
      BY DEF Char, Odd
    <3>3. Append(q.val, "unended") \in Seq(Char)
      BY <3>1, <3>2
    <3>4. (IF q.n < IPLEN THEN q.val ELSE Append(q.val, "unended")) \in Seq(Char)
      BY <3>1, <3>3
    <3>5. \A w \in Seq(Char) : [q EXCEPT !.field[Head(q.attr)] = w] \in Parser
      BY DEF Parser
    <3> QED
      BY <3>4, <3>5 DEF StoreString
  <2>2. ASSUME NEW o \in Parser PROVE Trail(o, a) \in Parser
    <3>1. \A s \in ParserState : [o EXCEPT !.st = s] \in Parser
      BY DEF Parser
    <3> QED
      BY <3>1, FailsType DEF Trail, ParserState, ParserStatus
  <2> QED
    BY <2>1, <2>2, FailsType DEF PostVal, ParserStatus
<1>14. InValToken(p, a) \in Parser
  BY <1>9, <1>10, <1>13, FailsType DEF InValToken, ParserState, ParserStatus
<1>15. p.st \in ParserState
  BY DEF Parser
<1> QED
  BY <1>5, <1>6, <1>7, <1>8, <1>11, <1>12, <1>13, <1>14, <1>15 DEF ReadAtom, ParserState

\* The way of the parser through a text, a state before each atom and one at the end.
Reads(text, at) ==
    /\ at[0] = ReadStart
    /\ \A i \in 1 .. Len(text) : at[i] = ReadAtom(at[i - 1], text[i])
    /\ \A i \in 0 .. Len(text) : at[i] \in Parser

\* Such a way there is, and json_read_object returns what is known at its end.
LEMMA ReadIs ==
    ASSUME NEW text \in Seq(Atom)
    PROVE  \E at : /\ Reads(text, at)
                   /\ json_read_object(text) = [status |-> at[Len(text)].status,
                                                field |-> at[Len(text)].field]
<1> DEFINE K == Len(text)
           IsStart(at) == at = [i \in 0 .. K |-> IF i = 0 THEN ReadStart
                                                 ELSE ReadAtom(at[i - 1], text[i])]
           upTo == CHOOSE at : IsStart(at)
<1>1. K \in Nat /\ \A i \in 1 .. K : text[i] \in Atom
  OBVIOUS
<1>2. ReadStart \in Parser
  <2>1. \A S : << >> \in Seq(S)
    OBVIOUS
  <2>2. [f \in json_attrs |-> << >>] \in [json_attrs -> Seq(Char)]
    BY <2>1
  <2>3. "init" \in ParserState /\ "ok" \in ParserStatus
    BY DEF ParserState, ParserStatus
  <2> QED
    BY <2>1, <2>2, <2>3 DEF ReadStart, Parser
<1>3. json_read_object(text) = [status |-> upTo[K].status, field |-> upTo[K].field]
  BY Zenon DEF json_read_object
<1> HIDE DEF K
<1>4. \E at : IsStart(at)
  <2> DEFINE F == [i \in 1 .. K |-> [p \in Parser |-> ReadAtom(p, text[i])]]
  <2>1. F \in [1 .. K -> [Parser -> Parser]]
    BY <1>1, ReadAtomType
  <2>2. PICK f \in [0 .. K -> Parser] : Goes(K, ReadStart, F, f)
    <3> HIDE DEF F
    <3> QED
      BY <1>1, <1>2, <2>1, Steps, Zenon
  <2>3. \A i \in 1 .. K : f[i - 1] \in Parser
    BY <1>1, <2>2
  <2>4. \A i \in 1 .. K : f[i] = ReadAtom(f[i - 1], text[i])
    BY <2>2, <2>3 DEF Goes
  <2>5. \A i \in 0 .. K : i # 0 => i \in 1 .. K
    BY <1>1
  <2>6. IsStart(f)
    BY <2>2, <2>4, <2>5 DEF Goes
  <2> QED
    BY <2>6
<1>5. IsStart(upTo)
  <2> HIDE DEF IsStart
  <2> QED
    BY <1>4, Zenon
<1> HIDE DEF upTo
<1>6. upTo[0] = ReadStart
  BY <1>1, <1>5
<1>7. ASSUME NEW i \in 1 .. K PROVE upTo[i] = ReadAtom(upTo[i - 1], text[i])
  <2>1. i \in 0 .. K /\ i # 0
    BY <1>1
  <2> QED
    BY <1>5, <2>1
<1>8. \A i \in 0 .. K : upTo[i] \in Parser
  <2>1. \A i \in 1 .. K : upTo[i - 1] \in Parser => upTo[i] \in Parser
    BY <1>1, <1>7, ReadAtomType
  <2>2. K \in Nat /\ upTo[0] \in Parser
    BY <1>1, <1>2, <1>6
  <2> QED
    BY <2>1, <2>2, Climbs, Zenon
<1>9. Reads(text, upTo)
  BY <1>6, <1>7, <1>8 DEF Reads, K
<1> QED
  BY <1>3, <1>9 DEF K

\* The fields that are read are texts, whatever the text.
LEMMA ReadType ==
    ASSUME NEW text \in Seq(Atom)
    PROVE  json_read_object(text).field \in [json_attrs -> Seq(Char)]
<1>1. PICK at : /\ Reads(text, at)
                /\ json_read_object(text) = [status |-> at[Len(text)].status,
                                             field |-> at[Len(text)].field]
  BY ReadIs
<1>2. at[Len(text)] \in Parser
  BY <1>1 DEF Reads
<1> QED
  BY <1>1, <1>2 DEF Parser

\* What is true of 0, and of the next if of one, is true up to K.
LEMMA Counts ==
    ASSUME NEW K \in Nat, NEW good, 0 \in good, \A i \in 0 .. K - 1 : i \in good => i + 1 \in good
    PROVE  \A i \in 0 .. K : i \in good
<1> DEFINE at == [i \in 0 .. K |-> i]
<1>1. \A i \in 0 .. K : at[i] = i
  OBVIOUS
<1>2. ASSUME NEW i \in 1 .. K, at[i - 1] \in good PROVE at[i] \in good
  <2>1. i - 1 \in 0 .. K - 1 /\ i \in 0 .. K /\ i - 1 \in 0 .. K /\ i = (i - 1) + 1
    OBVIOUS
  <2> QED
    BY <1>1, <1>2, <2>1
<1>3. 0 \in 0 .. K /\ at[0] \in good
  BY <1>1
<1> HIDE DEF at
<1>4. \A i \in 0 .. K : at[i] \in good
  BY <1>2, <1>3, Climbs
<1> QED
  BY <1>1, <1>4

\* Texts, and how many atoms they have.
Text == Seq(Atom)
Size(text) == Len(text)
Comma(text) == text[Size(text)] = ","

\* From b on the text has the column key with the value v, up to the quote that ends it.
Column(text, b, key, v) ==
    /\ text[b + 1] = "quote" /\ text[b + 2] = key /\ text[b + 3] = "quote"
    /\ text[b + 4] = ":" /\ text[b + 5] = "quote"
    /\ \A j \in 1 .. Size(v) : text[b + 5 + j] = v[j]
    /\ text[b + 6 + Size(v)] = "quote"

\* How many atoms a text has is a number.
LEMMA SizeType == \A text \in Text : Size(text) \in Nat
  BY DEF Text, Size

\* What two texts make together, place by place.
LEMMA Joined ==
    ASSUME NEW S, NEW s \in Seq(S), NEW t \in Seq(S), NEW w, w = s \o t
    PROVE  /\ w \in Seq(S) /\ Len(w) = Len(s) + Len(t)
           /\ \A i \in 1 .. Len(s) : w[i] = s[i]
           /\ \A i \in 1 .. Len(t) : w[Len(s) + i] = t[i]
  OBVIOUS

\* JSON_ENCODE leaves the text as it is and puts a column and a comma behind it.
LEMMA Encoded ==
    ASSUME NEW buf \in Text, NEW key, NEW v \in Text,
           NEW new \in Text, new = JSON_ENCODE(buf, key, v)
    PROVE  /\ Size(new) = Size(buf) + Size(v) + 7
           /\ \A q \in 1 .. Size(buf) : new[q] = buf[q]
           /\ Column(new, Size(buf), key, v)
           /\ Comma(new)
<1> DEFINE S == Atom \cup {key}
           h == <<"quote", key, "quote", ":", "quote">>
           e == <<"quote", ",">>
           b == Len(buf)
           m == Len(v)
<1>1. buf \in Seq(S) /\ v \in Seq(S) /\ b \in Nat /\ m \in Nat
  BY DEF Text
<1>2. h \in Seq(S) /\ e \in Seq(S) /\ Len(h) = 5 /\ Len(e) = 2
  <2>1. "quote" \in S /\ ":" \in S /\ "," \in S /\ key \in S
    BY DEF Atom, Mark
  <2>2. /\ \A a1, a2, a3, a4, a5 \in S : <<a1, a2, a3, a4, a5>> \in Seq(S)
        /\ \A a1, a2 \in S : <<a1, a2>> \in Seq(S)
    OBVIOUS
  <2> HIDE DEF S
  <2> QED
    BY <2>1, <2>2
<1>3. /\ h[1] = "quote" /\ h[2] = key /\ h[3] = "quote" /\ h[4] = ":" /\ h[5] = "quote"
      /\ e[1] = "quote" /\ e[2] = ","
  OBVIOUS
<1>4. new = ((buf \o h) \o v) \o e
  BY DEF JSON_ENCODE
<1> HIDE DEF h, e, S
<1> DEFINE x == buf \o h
           y == x \o v
<1>5. x = buf \o h /\ y = x \o v /\ new = y \o e
  BY <1>4
<1> HIDE DEF x, y
<1>6. /\ x \in Seq(S) /\ Len(x) = b + 5
      /\ \A i \in 1 .. b : x[i] = buf[i]
      /\ \A i \in 1 .. 5 : x[b + i] = h[i]
  <2>1. /\ x \in Seq(S) /\ Len(x) = Len(buf) + Len(h)
        /\ \A i \in 1 .. Len(buf) : x[i] = buf[i]
        /\ \A i \in 1 .. Len(h) : x[Len(buf) + i] = h[i]
    <3>1. buf \in Seq(S) /\ h \in Seq(S) /\ x = buf \o h
      BY <1>1, <1>2, <1>5
    <3> QED
      BY <3>1, Joined
  <2> QED
    BY <1>2, <2>1
<1>7. /\ y \in Seq(S) /\ Len(y) = b + 5 + m
      /\ \A i \in 1 .. b + 5 : y[i] = x[i]
      /\ \A i \in 1 .. m : y[b + 5 + i] = v[i]
  <2>1. /\ y \in Seq(S) /\ Len(y) = Len(x) + Len(v)
        /\ \A i \in 1 .. Len(x) : y[i] = x[i]
        /\ \A i \in 1 .. Len(v) : y[Len(x) + i] = v[i]
    <3>1. x \in Seq(S) /\ v \in Seq(S) /\ y = x \o v
      BY <1>1, <1>5, <1>6
    <3> QED
      BY <3>1, Joined
  <2> QED
    BY <1>6, <2>1
<1>8. /\ Len(new) = b + 5 + m + 2
      /\ \A i \in 1 .. b + 5 + m : new[i] = y[i]
      /\ \A i \in 1 .. 2 : new[b + 5 + m + i] = e[i]
  <2>1. /\ Len(new) = Len(y) + Len(e)
        /\ \A i \in 1 .. Len(y) : new[i] = y[i]
        /\ \A i \in 1 .. Len(e) : new[Len(y) + i] = e[i]
    <3>1. y \in Seq(S) /\ e \in Seq(S) /\ new = y \o e
      BY <1>2, <1>5, <1>7
    <3> QED
      BY <3>1, Joined
  <2> QED
    BY <1>2, <1>7, <2>1
<1> HIDE DEF b, m
<1>9. \A i \in 1 .. b : new[i] = buf[i]
  BY <1>1, <1>6, <1>7, <1>8
<1>10. \A i \in 1 .. 5 : new[b + i] = h[i]
  <2> SUFFICES ASSUME NEW i \in 1 .. 5 PROVE new[b + i] = h[i]
    OBVIOUS
  <2>1. b + i \in 1 .. b + 5 /\ b + i \in 1 .. b + 5 + m
    BY <1>1
  <2> QED
    BY <1>6, <1>7, <1>8, <2>1
<1>11. \A i \in 1 .. m : new[b + 5 + i] = v[i]
  <2> SUFFICES ASSUME NEW i \in 1 .. m PROVE new[b + 5 + i] = v[i]
    OBVIOUS
  <2>1. b + 5 + i \in 1 .. b + 5 + m
    BY <1>1
  <2> QED
    BY <1>7, <1>8, <2>1
<1>12. new[b + 6 + m] = "quote" /\ new[b + 7 + m] = ","
  <2>1. b + 6 + m = b + 5 + m + 1 /\ b + 7 + m = b + 5 + m + 2 /\ 1 \in 1 .. 2 /\ 2 \in 1 .. 2
    BY <1>1
  <2> QED
    BY <1>3, <1>8, <2>1
<1>13. Len(new) = b + m + 7 /\ Len(new) = b + 7 + m
  BY <1>1, <1>8
<1>14. Column(new, b, key, v)
  <2>1. 1 \in 1 .. 5 /\ 2 \in 1 .. 5 /\ 3 \in 1 .. 5 /\ 4 \in 1 .. 5 /\ 5 \in 1 .. 5
    OBVIOUS
  <2> QED
    BY <1>3, <1>10, <1>11, <1>12, <2>1 DEF Column, Size, m
<1> QED
  BY <1>9, <1>12, <1>13, <1>14 DEF Comma, Size, b, m

\* A row's text: a brace, its columns with a comma between them, a brace. b are their ends.
Layout(text, r, b) ==
    /\ b[0] = 1 /\ b[Len(tables)] = Size(text)
    /\ \A i \in 1 .. Len(tables) :
          /\ b[i - 1] \in Nat /\ b[i - 1] + Size(Shown(r[i])) + 7 = b[i] /\ b[i] <= Size(text)
          /\ Column(text, b[i - 1], tables[i], Shown(r[i]))
          /\ text[b[i]] = IF i = Len(tables) THEN "}" ELSE ","
    /\ text[1] = "{"

\* JSON_ENCODE_END puts the brace where the last comma was.
LEMMA Ended ==
    ASSUME NEW buf \in Text, Comma(buf), Size(buf) # 0,
           NEW text \in Text, text = JSON_ENCODE_END(buf)
    PROVE  /\ Size(text) = Size(buf) /\ text[Size(buf)] = "}"
           /\ \A q \in 1 .. Size(buf) - 1 : text[q] = buf[q]
<1> DEFINE n == Len(buf) - 1
           f == SubSeq(buf, 1, n)
<1>1. buf \in Seq(Atom) /\ text \in Seq(Atom) /\ Len(buf) # 0
  BY DEF Text, Size
<1>2. /\ f \in Seq(Atom) /\ Len(f) = n /\ n \in Nat
      /\ \A q \in 1 .. n : f[q] = buf[q]
  <2>1. n \in Nat /\ n < Len(buf)
    BY <1>1
  <2> HIDE DEF n
  <2>2. \A m \in Nat : m < Len(buf) =>
           /\ SubSeq(buf, 1, m) \in Seq(Atom) /\ Len(SubSeq(buf, 1, m)) = m
           /\ \A q \in 1 .. m : SubSeq(buf, 1, m)[q] = buf[q]
    BY <1>1
  <2> QED
    BY <2>1, <2>2
<1>3. Seqs!Last(buf) = "," /\ Seqs!Front(buf) = f
  BY DEF Seqs!Last, Seqs!Front, Comma, Size
<1>4. text = Append(f, "}")
  BY <1>3 DEF JSON_ENCODE_END
<1> HIDE DEF n, f
<1>5. \A c \in Atom : /\ Len(Append(f, c)) = n + 1 /\ Append(f, c)[n + 1] = c
                      /\ \A q \in 1 .. n : Append(f, c)[q] = f[q]
  BY <1>2
<1>6. Len(text) = n + 1 /\ text[n + 1] = "}" /\ \A q \in 1 .. n : text[q] = f[q]
  <2>1. "}" \in Atom
    BY DEF Atom, Mark
  <2> QED
    BY <1>4, <1>5, <2>1, Zenon
<1>7. Size(buf) = n + 1 /\ n = Size(buf) - 1 /\ Size(text) = Len(text)
  BY <1>1 DEF Size, n
<1> QED
  BY <1>2, <1>6, <1>7

\* What is written of a cell is a text, NULL or not.
LEMMA ShownType ==
    ASSUME NEW r \in Table, NEW i \in 1 .. Len(tables)
    PROVE  Shown(r[i]) \in Text /\ Size(Shown(r[i])) \in Nat
<1>1. /\ tables \in Seq(Run) /\ DOMAIN r = DOMAIN tables /\ SQL_NULL \in Run
      /\ \A k \in DOMAIN r : r[k] = NULL \/ r[k] \in Seq(Run \cup Mark)
  BY ResourceAssumption
<1>2. i \in DOMAIN r
  BY <1>1
<1>3. SQL_NULL \in Atom /\ \A a \in Atom : <<a>> \in Seq(Atom)
  BY <1>1 DEF Atom
<1> QED
  <2>1. Shown(r[i]) \in Seq(Atom)
    BY <1>1, <1>2, <1>3 DEF Shown, Atom
  <2>2. \A v \in Seq(Atom) : v \in Text /\ Size(v) \in Nat
    BY DEF Text, Size
  <2> QED
    BY <2>1, <2>2

\* The text of a row has its columns one behind the other.
LEMMA RowLayout ==
    ASSUME NEW r \in Table, Len(tables) # 0
    PROVE  \E b : Layout(RowText(r), r, b)
<1> DEFINE K == Len(tables)
           text == RowText(r)
<1>1. PICK up : /\ up[0] = JSON_ENCODE_START
                /\ \A i \in 1 .. K : up[i] = JSON_ENCODE(up[i - 1], tables[i], Shown(r[i]))
                /\ \A i \in 0 .. K : up[i] \in Text
                /\ text = JSON_ENCODE_END(up[K]) /\ text \in Text
  BY RowTextIs DEF Text
<1> DEFINE b == [i \in 0 .. K |-> Size(up[i])]
<1>2. K \in Nat \ {0}
  <2>1. tables \in Seq(Run)
    BY ResourceAssumption
  <2> QED
    BY <2>1
<1> HIDE DEF K, text
<1>3. ASSUME NEW i \in 1 .. K
      PROVE  /\ i \in 0 .. K /\ i - 1 \in 0 .. K
             /\ Size(up[i]) = Size(up[i - 1]) + Size(Shown(r[i])) + 7
             /\ \A q \in 1 .. Size(up[i - 1]) : up[i][q] = up[i - 1][q]
             /\ Column(up[i], Size(up[i - 1]), tables[i], Shown(r[i]))
             /\ Comma(up[i])
  <2>1. i \in 0 .. K /\ i - 1 \in 0 .. K
    BY <1>2
  <2>2. Shown(r[i]) \in Text /\ up[i - 1] \in Text
    BY <1>1, <2>1, ShownType DEF K
  <2>3. up[i] = JSON_ENCODE(up[i - 1], tables[i], Shown(r[i]))
    BY <1>1
  <2>4. PICK u \in Text, v \in Text, w \in Text, k \in {tables[i]} :
           /\ u = up[i - 1] /\ v = Shown(r[i]) /\ w = up[i] /\ k = tables[i]
           /\ w = JSON_ENCODE(u, k, v)
    BY <1>1, <2>1, <2>2, <2>3
  <2>5. /\ Size(w) = Size(u) + Size(v) + 7
        /\ \A q \in 1 .. Size(u) : w[q] = u[q]
        /\ Column(w, Size(u), k, v)
        /\ Comma(w)
    BY <2>4, Encoded, SizeType
  <2> QED
    BY <2>1, <2>4, <2>5
<1>4. \A i \in 0 .. K : up[i] \in Text /\ Size(up[i]) \in Nat
  <2>1. \A v \in Text : Size(v) \in Nat
    BY DEF Text, Size
  <2> QED
    BY <1>1, <2>1
<1> DEFINE L(i) == Size(Shown(r[i]))
<1>5. \A i \in 0 .. K : b[i] \in Nat
  BY <1>4
<1>5b. \A i \in 0 .. K : b[i] = Size(up[i])
  OBVIOUS
<1> HIDE DEF b
<1>5a. ASSUME NEW i \in 1 .. K
       PROVE  /\ b[i] = b[i - 1] + L(i) + 7 /\ L(i) \in Nat
              /\ \A q \in 1 .. b[i - 1] : up[i][q] = up[i - 1][q]
              /\ Column(up[i], b[i - 1], tables[i], Shown(r[i]))
              /\ Comma(up[i]) /\ i \in 0 .. K /\ i - 1 \in 0 .. K
  <2>1. L(i) \in Nat
    BY ShownType DEF K
  <2>2. b[i] = Size(up[i]) /\ b[i - 1] = Size(up[i - 1])
    BY <1>3, <1>5b
  <2> QED
    BY <1>3, <2>1, <2>2
<1> HIDE DEF L
\* The text of the first columns is the beginning of the text of more of them.
<1>6. ASSUME NEW i \in 0 .. K
      PROVE  b[i] <= b[K] /\ \A q \in 1 .. b[i] : up[K][q] = up[i][q]
  <2> DEFINE good == {k \in 0 .. K : i <= k =>
                         b[i] <= b[k] /\ \A q \in 1 .. b[i] : up[k][q] = up[i][q]}
  <2>1. 0 \in good
    <3>1. 0 \in 0 .. K /\ (i <= 0 => i = 0) /\ b[i] \in Nat
      BY <1>2, <1>4, <1>5
    <3> QED
      BY <3>1
  <2>2. ASSUME NEW k \in 0 .. K - 1, k \in good PROVE k + 1 \in good
    <3>1. k + 1 \in 1 .. K /\ k + 1 \in 0 .. K /\ k = (k + 1) - 1 /\ k \in 0 .. K /\ K \in Nat
      BY <1>2
    <3> DEFINE n == k + 1
    <3>2a. n - 1 = k /\ n \in 1 .. K
      BY <3>1
    <3> HIDE DEF n
    <3>2b. /\ b[n] = b[n - 1] + L(n) + 7 /\ L(n) \in Nat
           /\ \A q \in 1 .. b[n - 1] : up[n][q] = up[n - 1][q]
      BY <1>5a, <3>2a
    <3>2. /\ b[k + 1] = b[k] + L(k + 1) + 7 /\ L(k + 1) \in Nat
          /\ \A q \in 1 .. b[k] : up[k + 1][q] = up[k][q]
      BY <3>2a, <3>2b DEF n
    <3>3. L(k + 1) \in Nat /\ b[i] \in Nat /\ b[k] \in Nat /\ b[k + 1] \in Nat
      BY <1>5, <3>1, <3>2
    <3>4. CASE i = k + 1
      BY <3>1, <3>3, <3>4
    <3>5. CASE i <= k
      <4>1. b[i] <= b[k] /\ \A q \in 1 .. b[i] : up[k][q] = up[i][q]
        BY <2>2, <3>5
      <4>2. b[i] <= b[k + 1]
        BY <3>2, <3>3, <4>1
      <4>3. \A q \in 1 .. b[i] : up[k + 1][q] = up[i][q]
        <5>1. \A q \in 1 .. b[i] : q \in 1 .. b[k]
          BY <3>3, <4>1
        <5> QED
          BY <3>2, <4>1, <5>1
      <4> QED
        BY <3>1, <4>2, <4>3
    <3>6. CASE ~ (i <= k + 1)
      BY <3>1, <3>6
    <3>7. i = k + 1 \/ i <= k \/ ~ (i <= k + 1)
      BY <3>1
    <3> QED
      BY <3>4, <3>5, <3>6, <3>7
  <2>3. \A k \in 0 .. K : k \in good
    <3> HIDE DEF good
    <3> QED
      BY <1>2, <2>1, <2>2, Counts
  <2> QED
    BY <1>2, <2>3
<1>7. /\ Size(text) = b[K] /\ text[b[K]] = "}" /\ \A q \in 1 .. b[K] - 1 : text[q] = up[K][q]
  <2>1. K \in 1 .. K /\ K \in 0 .. K
    BY <1>2
  <2>2. b[K] = b[K - 1] + L(K) + 7 /\ L(K) \in Nat /\ Comma(up[K]) /\ K - 1 \in 0 .. K
    BY <1>5a, <2>1
  <2>3. b[K] # 0
    BY <1>5, <2>2
  <2> DEFINE w == up[K]
  <2>4. w \in Text /\ Size(w) # 0 /\ Comma(w) /\ text = JSON_ENCODE_END(w) /\ b[K] = Size(w)
    <3>1. b[K] = Size(w)
      BY <1>5b, <2>1
    <3> QED
      BY <1>1, <2>1, <2>2, <2>3, <3>1
  <2> HIDE DEF w
  <2>5. /\ Size(text) = Size(w) /\ text[Size(w)] = "}"
        /\ \A q \in 1 .. Size(w) - 1 : text[q] = w[q]
    BY <1>1, <2>4, Ended
  <2> QED
    BY <2>4, <2>5 DEF w
<1>8. ASSUME NEW i \in 1 .. K
      PROVE  /\ b[i - 1] \in Nat /\ b[i - 1] + Size(Shown(r[i])) + 7 = b[i]
             /\ b[i] <= b[K]
             /\ Column(text, b[i - 1], tables[i], Shown(r[i]))
             /\ text[b[i]] = IF i = K THEN "}" ELSE ","
  <2> DEFINE s == Shown(r[i])
             m == L(i)
             a == b[i - 1]
  <2>1. /\ i \in 0 .. K /\ i - 1 \in 0 .. K /\ m \in Nat /\ a \in Nat /\ b[i] \in Nat
        /\ b[i] = a + m + 7 /\ b[i] <= b[K] /\ b[K] \in Nat /\ K \in 0 .. K
    <3>1. i \in 0 .. K /\ i - 1 \in 0 .. K /\ K \in 0 .. K
      BY <1>2
    <3>2. b[i] = a + m + 7 /\ m \in Nat
      BY <1>5a
    <3>3. a \in Nat /\ b[i] \in Nat /\ b[K] \in Nat
      BY <1>5, <3>1
    <3>4. b[i] <= b[K]
      BY <1>6, <3>1
    <3> QED
      BY <3>1, <3>2, <3>3, <3>4
  <2>2. Column(up[i], a, tables[i], s) /\ up[i][b[i]] = ","
    BY <1>5a, <1>5b, <2>1 DEF Comma
  <2>2a. m = Size(s)
    BY DEF L
  <2> HIDE DEF s, m, a
  <2>3. \A q \in 1 .. b[i] - 1 : text[q] = up[i][q]
    <3>1. \A q \in 1 .. b[i] - 1 : q \in 1 .. b[K] - 1 /\ q \in 1 .. b[i]
      BY <2>1
    <3> QED
      BY <1>6, <1>7, <2>1, <3>1
  <2>4. Column(text, a, tables[i], s)
    <3>1. /\ a + 1 \in 1 .. b[i] - 1 /\ a + 2 \in 1 .. b[i] - 1 /\ a + 3 \in 1 .. b[i] - 1
          /\ a + 4 \in 1 .. b[i] - 1 /\ a + 5 \in 1 .. b[i] - 1 /\ a + 6 + m \in 1 .. b[i] - 1
          /\ \A j \in 1 .. m : a + 5 + j \in 1 .. b[i] - 1
      BY <2>1
    <3> QED
      BY <2>2, <2>2a, <2>3, <3>1 DEF Column
  <2>5. text[b[i]] = IF i = K THEN "}" ELSE ","
    <3>1. CASE i = K
      BY <1>7, <3>1
    <3>2. CASE i # K
      <4>1. i + 1 \in 1 .. K /\ i = (i + 1) - 1 /\ i + 1 \in 0 .. K
        BY <1>2, <3>2
      <4> DEFINE n == i + 1
      <4>2. n \in 1 .. K /\ n - 1 = i /\ n \in 0 .. K
        BY <4>1
      <4> HIDE DEF n
      <4>2a. b[n] = b[n - 1] + L(n) + 7 /\ L(n) \in Nat /\ b[n] <= b[K]
        BY <1>5a, <1>6, <4>2
      <4>3. b[i] \in 1 .. b[K] - 1 /\ b[i] \in 1 .. b[i]
        BY <2>1, <4>2, <4>2a
      <4>4. text[b[i]] = up[K][b[i]]
        BY <1>7, <4>3
      <4>5. up[K][b[i]] = up[i][b[i]]
        BY <1>6, <2>1, <4>3
      <4> QED
        BY <2>2, <3>2, <4>4, <4>5
    <3> QED
      BY <3>1, <3>2
  <2> QED
    BY <2>1, <2>2a, <2>4, <2>5 DEF s, a
<1>9. b[0] = 1 /\ text[1] = "{"
  <2>1. 0 \in 0 .. K /\ K \in 0 .. K
    BY <1>2
  <2>2. up[0] = <<"{">>
    BY <1>1 DEF JSON_ENCODE_START
  <2>2a. Size(up[0]) = 1
    <3>1. Size(<<"{">>) = 1
      BY DEF Size
    <3> QED
      BY <2>2, <3>1
  <2>2b. up[0][1] = "{"
    <3>1. <<"{">>[1] = "{"
      OBVIOUS
    <3> QED
      BY <2>2, <3>1, Zenon
  <2>3. b[0] = 1 /\ 1 \in 1 .. b[0]
    BY <1>5b, <2>1, <2>2a
  <2>4. b[K] > 1 /\ b[K] \in Nat
    <3>1. 1 \in 1 .. K /\ 1 - 1 = 0 /\ 1 \in 0 .. K
      BY <1>2
    <3>2. b[1] = b[1 - 1] + L(1) + 7 /\ L(1) \in Nat
      BY <1>5a, <3>1
    <3>3. b[1] <= b[K] /\ b[K] \in Nat
      BY <1>5, <1>6, <2>1, <3>1
    <3> QED
      BY <2>3, <3>1, <3>2, <3>3
  <2>5. text[1] = up[K][1]
    <3>1. 1 \in 1 .. b[K] - 1
      BY <2>4
    <3> QED
      BY <1>7, <3>1
  <2>6. up[K][1] = up[0][1]
    BY <1>6, <2>1, <2>3
  <2> QED
    BY <2>2b, <2>3, <2>5, <2>6
<1>10. Layout(text, r, b)
  BY <1>7, <1>8, <1>9 DEF Layout, K
<1> QED
  BY <1>10 DEF text

\* No atom of a value or a name is taken for another.
LEMMA RunIsNoMark == ASSUME NEW a \in Run PROVE a \notin Mark /\ Chars(a) = Width[a]
  BY JsonAssumption DEF Chars

\* The name of a column: its quotes and the name, which is known and not too long.
LEMMA ReadName ==
    ASSUME NEW p \in Parser, p.st = "await_attr",
           NEW key \in json_attrs, key \in Run, Width[key] <= JSON_ATTR_MAX - 1,
           NEW q, q = ReadAtom(p, "quote"), NEW s, s = ReadAtom(q, key)
    PROVE  LET e == ReadAtom(s, "quote") IN
           /\ e.st = "await_value" /\ e.attr = <<key>> /\ e.status = p.status /\ e.field = p.field
           /\ ReadAtom(e, ":") = e
<1>1. q = [p EXCEPT !.st = "in_attr", !.attr = << >>, !.n = 0]
  BY DEF ReadAtom, AwaitAttr
<1>2. /\ q.st = "in_attr" /\ q.attr = << >> /\ q.n = 0
      /\ q.status = p.status /\ q.field = p.field /\ q \in Parser
  <2>1. "quote" \in Atom
    BY DEF Atom, Mark
  <2>2. q \in Parser
    BY <2>1, ReadAtomType
  <2> QED
    BY <1>1, <2>2 DEF Parser
<1>3. key # "quote" /\ Chars(key) = Width[key] /\ Width[key] \in Nat
  BY RunIsNoMark, JsonAssumption DEF Mark
<1>4. s = [q EXCEPT !.attr = Append(q.attr, key), !.n = q.n + Chars(key)]
  <2>1. ~ (q.n + Chars(key) > JSON_ATTR_MAX - 1)
    BY <1>2, <1>3 DEF JSON_ATTR_MAX
  <2>2. s = InAttr(q, key)
    BY <1>2 DEF ReadAtom
  <2> QED
    BY <1>3, <2>1, <2>2 DEF InAttr
<1>5. /\ s.st = "in_attr" /\ s.attr = <<key>> /\ s.status = p.status /\ s.field = p.field
      /\ s \in Parser
  <2>1. \A a \in Atom : Append(<< >>, a) = <<a>>
    OBVIOUS
  <2>2. key \in Atom
    BY DEF Atom
  <2>3. s \in Parser
    BY <1>2, <2>2, ReadAtomType
  <2>4. /\ s.st = q.st /\ s.attr = Append(q.attr, key) /\ s.status = q.status
        /\ s.field = q.field
    BY <1>2, <1>4 DEF Parser
  <2>5. s.attr = <<key>>
    BY <1>2, <2>1, <2>2, <2>4, Zenon
  <2> QED
    BY <1>2, <2>3, <2>4, <2>5
<1> DEFINE e == ReadAtom(s, "quote")
<1>6. e = [s EXCEPT !.st = "await_value"]
  <2>1. e = InAttr(s, "quote")
    BY <1>5 DEF ReadAtom
  <2>2. \E f \in json_attrs : s.attr = <<f>>
    BY <1>5
  <2> QED
    BY <2>1, <2>2 DEF InAttr
<1> HIDE DEF e
<1>7. e.st = "await_value" /\ e.attr = <<key>> /\ e.status = p.status /\ e.field = p.field
  BY <1>5, <1>6 DEF Parser
<1>8. ReadAtom(e, ":") = e
  BY <1>7 DEF ReadAtom, AwaitValue
<1> QED
  BY <1>7, <1>8 DEF e

\* One atom of a value that has room for it: it is behind the value in valbuf, and nothing
\* else is different.
Room(p, a) ==
    /\ p \in Parser /\ p.st = "in_val_string" /\ p.n + Chars(a) <= IPLEN
    /\ a \in Atom \ {"quote", "escape"}
Took(p, a, q) ==
    /\ q.st = "in_val_string" /\ q.val = Append(p.val, a) /\ q.n = p.n + Chars(a)
    /\ q.quoted = p.quoted /\ q.attr = p.attr /\ q.status = p.status /\ q.field = p.field

LEMMA ReadValue == ASSUME NEW p, NEW a, Room(p, a), NEW q, q = ReadAtom(p, a) PROVE Took(p, a, q)
<1>0. /\ p \in Parser /\ p.st = "in_val_string" /\ p.n + Chars(a) <= IPLEN
      /\ a \in Atom \ {"quote", "escape"}
  BY DEF Room
<1>1. q = InValString(p, a)
  BY <1>0 DEF ReadAtom
<1>2. p.n \in Nat /\ Chars(a) \in Nat
  BY <1>0, JsonAssumption DEF Chars, Parser
<1>3. ~ (p.n + Chars(a) - 1 > IPLEN - 1)
  <2> DEFINE n == p.n
             c == Chars(a)
  <2>1. n \in Nat /\ c \in Nat /\ n + c <= IPLEN /\ IPLEN \in Nat
    BY <1>0, <1>2 DEF IPLEN
  <2> HIDE DEF n, c
  <2>2. ~ (n + c - 1 > IPLEN - 1)
    BY <2>1
  <2> QED
    BY <2>2 DEF n, c
<1>4. q = [p EXCEPT !.val = Append(p.val, a), !.n = p.n + Chars(a)]
  BY <1>0, <1>1, <1>3 DEF InValString
<1> QED
  BY <1>0, <1>4 DEF Parser, Took

\* The quotes around a value.
LEMMA ReadQuotes ==
    ASSUME NEW p \in Parser, NEW q, q = ReadAtom(p, "quote")
    PROVE  /\ p.st = "await_value" =>
                /\ q.st = "in_val_string" /\ q.val = << >> /\ q.n = 0 /\ q.quoted = TRUE
                /\ q.attr = p.attr /\ q.status = p.status /\ q.field = p.field
           /\ p.st = "in_val_string" =>
                /\ q.st = "post_val" /\ q.val = p.val /\ q.quoted = p.quoted /\ q.n = p.n
                /\ q.attr = p.attr /\ q.status = p.status /\ q.field = p.field
<1>1. CASE p.st = "await_value"
  <2>1. q = [p EXCEPT !.st = "in_val_string", !.val = << >>, !.n = 0, !.quoted = TRUE]
    BY <1>1 DEF ReadAtom, AwaitValue
  <2> QED
    BY <1>1, <2>1 DEF Parser
<1>2. CASE p.st = "in_val_string"
  <2>1. q = [p EXCEPT !.st = "post_val"]
    BY <1>2 DEF ReadAtom, InValString
  <2> QED
    BY <1>2, <2>1 DEF Parser
<1> QED
  BY <1>1, <1>2

\* The name in attrbuf.
LEMMA HeadOf == ASSUME NEW a PROVE Head(<<a>>) = a
  OBVIOUS

\* The first atoms of a text.
Part(v, j) == SubSeq(v, 1, j)

\* They grow atom by atom, to the whole text.
LEMMA PartGrows ==
    ASSUME NEW v \in Text
    PROVE  /\ Part(v, 0) = << >> /\ Part(v, Size(v)) = v
           /\ \A j \in 0 .. Size(v) - 1 :
                 v[j + 1] \in Atom /\ Part(v, j + 1) = Append(Part(v, j), v[j + 1])
<1>1. v \in Seq(Atom)
  BY DEF Text
<1>2. SubSeq(v, 1, 0) = << >> /\ SubSeq(v, 1, Len(v)) = v
  BY <1>1
<1>3. ASSUME NEW j \in 0 .. Len(v) - 1
      PROVE  v[j + 1] \in Atom /\ SubSeq(v, 1, j + 1) = Append(SubSeq(v, 1, j), v[j + 1])
  BY <1>1
<1> QED
  BY <1>2, <1>3 DEF Part, Size

\* Where the value of a column at b, and the quote after it, are.
LEMMA Places ==
    ASSUME NEW b \in Nat, NEW m \in Nat
    PROVE  /\ \A j \in 0 .. m - 1 : /\ b + 5 + j \in 0 .. b + 5 + m
                                    /\ (b + 5 + j) + 1 = b + 5 + (j + 1)
           /\ b + 5 + m \in 0 .. b + 5 + m /\ (b + 5 + m) + 1 = b + 6 + m
  OBVIOUS

\* The bytes of a text, counted atom by atom, and never fewer than those of a part of it.
LEMMA LengthIs ==
    ASSUME NEW v \in Text
    PROVE  \E n \in [0 .. Size(v) -> Nat] :
              /\ n[0] = 0 /\ \A k \in 1 .. Size(v) : n[k] = n[k - 1] + Chars(v[k])
              /\ Length(v) = n[Size(v)] /\ \A k \in 0 .. Size(v) : n[k] <= Length(v)
<1> DEFINE m == Size(v)
           IsStart(at) == at = [i \in 0 .. Len(v) |-> IF i = 0 THEN 0
                                                      ELSE at[i - 1] + Chars(v[i])]
           n == CHOOSE at : IsStart(at)
<1>1. m \in Nat /\ m = Len(v) /\ \A i \in 1 .. m : Chars(v[i]) \in Nat
  <2>1. v \in Seq(Atom)
    BY DEF Text
  <2>2. \A a \in Atom : Chars(a) \in Nat
    BY JsonAssumption DEF Chars
  <2> QED
    BY <2>1, <2>2 DEF Size
<1>2. Length(v) = n[Len(v)]
  BY Zenon DEF Length
<1> HIDE DEF m
<1>3. \E at : IsStart(at)
  <2> DEFINE F == [i \in 1 .. m |-> [p \in Nat |-> p + Chars(v[i])]]
  <2>1. F \in [1 .. m -> [Nat -> Nat]]
    BY <1>1
  <2>2. PICK f \in [0 .. m -> Nat] : Goes(m, 0, F, f)
    <3>1. m \in Nat /\ 0 \in Nat
      BY <1>1
    <3> HIDE DEF F
    <3> QED
      BY <2>1, <3>1, Steps, Zenon
  <2>3. ASSUME NEW i \in 1 .. m PROVE f[i - 1] \in Nat
    <3>1. i - 1 \in 0 .. m
      BY <1>1
    <3> QED
      BY <3>1
  <2>4. \A i \in 1 .. m : f[i] = f[i - 1] + Chars(v[i])
    BY <2>2, <2>3 DEF Goes
  <2>5. \A i \in 0 .. m : i # 0 => i \in 1 .. m
    BY <1>1
  <2>6. IsStart(f)
    BY <1>1, <2>2, <2>4, <2>5 DEF Goes
  <2> QED
    BY <2>6
<1>4. IsStart(n)
  <2> HIDE DEF IsStart
  <2> QED
    BY <1>3, Zenon
<1> HIDE DEF n
<1>5. n[0] = 0
  BY <1>1, <1>4
<1>6. ASSUME NEW i \in 1 .. m PROVE n[i] = n[i - 1] + Chars(v[i])
  <2>1. i \in 0 .. m /\ i # 0
    BY <1>1
  <2> QED
    BY <1>1, <1>4, <2>1
<1>7. n \in [0 .. m -> Nat]
  <2>1. \A i \in 1 .. m : n[i - 1] \in Nat => n[i] \in Nat
    BY <1>1, <1>6
  <2>2. m \in Nat /\ n[0] \in Nat
    BY <1>1, <1>5
  <2>3. \A i \in 0 .. m : n[i] \in Nat
    BY <2>1, <2>2, Climbs, Zenon
  <2>4. n = [i \in 0 .. m |-> n[i]]
    BY <1>1, <1>4
  <2> QED
    BY <2>3, <2>4
<1>8. \A k \in 0 .. m : n[k] <= n[m]
  <2> DEFINE good == {i \in 0 .. m : n[m - i] <= n[m]}
  <2>1. 0 \in good
    BY <1>1, <1>7
  <2>2. ASSUME NEW i \in 0 .. m - 1, i \in good PROVE i + 1 \in good
    <3> DEFINE j == m - i
    <3>1. j \in 1 .. m /\ m - (i + 1) = j - 1 /\ j - 1 \in 0 .. m /\ i + 1 \in 0 .. m
          /\ j \in 0 .. m
      BY <1>1
    <3>2. n[j] <= n[m]
      BY <2>2
    <3> HIDE DEF j
    <3>3. n[j - 1] \in Nat /\ n[j] \in Nat /\ n[m] \in Nat /\ Chars(v[j]) \in Nat
      <4>1. \A h \in 0 .. m : n[h] \in Nat
        BY <1>7
      <4>2. m \in 0 .. m
        BY <1>1
      <4>3. n[j - 1] \in Nat /\ n[j] \in Nat /\ n[m] \in Nat
        BY <3>1, <4>1, <4>2, Zenon
      <4>4. Chars(v[j]) \in Nat
        BY <1>1, <3>1
      <4> QED
        BY <4>3, <4>4
    <3>4. n[j - 1] <= n[m]
      BY <1>6, <3>1, <3>2, <3>3
    <3> QED
      BY <3>1, <3>4
  <2>3. \A i \in 0 .. m : i \in good
    <3> HIDE DEF good
    <3> QED
      BY <1>1, <2>1, <2>2, Counts
  <2>4. ASSUME NEW k \in 0 .. m PROVE m - k \in 0 .. m /\ m - (m - k) = k
    BY <1>1
  <2> QED
    BY <2>3, <2>4
<1> QED
  BY <1>1, <1>2, <1>5, <1>6, <1>7, <1>8 DEF m

\* The parser on its way through a column: it knows the name and has the value.
LEMMA ReadColumn ==
    ASSUME NEW N \in Nat, NEW text, NEW at,
           \A i \in 1 .. N : at[i] = ReadAtom(at[i - 1], text[i]),
           \A i \in 0 .. N : at[i] \in Parser,
           NEW b \in Nat, NEW key \in json_attrs, key \in Run, Width[key] <= JSON_ATTR_MAX - 1,
           NEW v \in Text, Length(v) <= IPLEN,
           \A j \in 1 .. Size(v) : v[j] \notin {"quote", "escape"},
           b + 6 + Size(v) <= N, Column(text, b, key, v), at[b].st = "await_attr"
    PROVE  LET e == at[b + 6 + Size(v)] IN
           /\ e.st = "post_val" /\ e.quoted = TRUE /\ e.attr = <<key>> /\ e.val = v
           /\ e.n = Length(v)
           /\ e.status = at[b].status /\ e.field = at[b].field /\ e \in Parser
<1> DEFINE m == Size(v)
<1>1. m \in Nat /\ b + 6 + m <= N
  BY SizeType
<1>2. ASSUME NEW i \in 0 .. b + 5 + m
      PROVE  at[i + 1] = ReadAtom(at[i], text[i + 1]) /\ at[i] \in Parser /\ at[i + 1] \in Parser
  <2>1. i + 1 \in 1 .. N /\ (i + 1) - 1 = i /\ i \in 0 .. N /\ i + 1 \in 0 .. N
    BY <1>1
  <2> QED
    BY <2>1
<1>3. /\ text[b + 1] = "quote" /\ text[b + 2] = key /\ text[b + 3] = "quote"
      /\ text[b + 4] = ":" /\ text[b + 5] = "quote"
      /\ \A j \in 1 .. m : text[b + 5 + j] = v[j]
      /\ text[b + 6 + m] = "quote"
  BY DEF Column
<1> HIDE DEF m
<1> DEFINE first == at[b]
           q == at[b + 1]
           s == at[b + 2]
           e == at[b + 3]
           o == at[b + 5]
<1>4. /\ q = ReadAtom(first, "quote") /\ s = ReadAtom(q, key) /\ e = ReadAtom(s, "quote")
      /\ at[b + 4] = ReadAtom(e, ":") /\ o = ReadAtom(at[b + 4], "quote")
      /\ first \in Parser /\ e \in Parser
  <2>1. /\ b \in 0 .. b + 5 + m /\ b + 1 \in 0 .. b + 5 + m /\ b + 2 \in 0 .. b + 5 + m
        /\ b + 3 \in 0 .. b + 5 + m /\ b + 4 \in 0 .. b + 5 + m
        /\ (b + 1) + 1 = b + 2 /\ (b + 2) + 1 = b + 3 /\ (b + 3) + 1 = b + 4
        /\ (b + 4) + 1 = b + 5
    BY <1>1
  <2> QED
    BY <1>2, <1>3, <2>1
<1>5. first.st = "await_attr"
  OBVIOUS
<1> HIDE DEF first, q, s, e, o
<1>6. /\ e.st = "await_value" /\ e.attr = <<key>> /\ e.status = first.status
      /\ e.field = first.field /\ ReadAtom(e, ":") = e
  BY <1>4, <1>5, ReadName
<1>7. /\ o.st = "in_val_string" /\ o.val = << >> /\ o.n = 0 /\ o.quoted = TRUE
      /\ o.attr = <<key>> /\ o.status = first.status /\ o.field = first.field
  <2>1. o = ReadAtom(e, "quote")
    BY <1>4, <1>6, Zenon
  <2>2. e.st = "await_value" =>
          /\ o.st = "in_val_string" /\ o.val = << >> /\ o.n = 0 /\ o.quoted = TRUE
          /\ o.attr = e.attr /\ o.status = e.status /\ o.field = e.field
    BY <1>4, <2>1, ReadQuotes, Zenon
  <2> QED
    BY <1>6, <2>2, Zenon
<1>8. PICK n \in [0 .. m -> Nat] :
         /\ n[0] = 0 /\ \A k \in 1 .. m : n[k] = n[k - 1] + Chars(v[k])
         /\ Length(v) = n[m] /\ \A k \in 0 .. m : n[k] <= Length(v)
  BY LengthIs, Zenon DEF m
\* Inside the value.
<1> DEFINE Inside(j) == LET p == at[b + 5 + j] IN
               /\ p.st = "in_val_string" /\ p.val = Part(v, j) /\ p.n = n[j] /\ p.quoted = TRUE
               /\ p.attr = <<key>> /\ p.status = first.status /\ p.field = first.field
           good == {j \in 0 .. m : Inside(j)}
<1>9. 0 \in good
  <2>1. Part(v, 0) = << >> /\ b + 5 + 0 = b + 5 /\ 0 \in 0 .. m
    BY <1>1, PartGrows
  <2> QED
    BY <1>7, <1>8, <2>1 DEF o
<1>10. ASSUME NEW j \in 0 .. m - 1, j \in good PROVE j + 1 \in good
  <2> DEFINE p == at[b + 5 + j]
             x == at[b + 5 + (j + 1)]
             a == v[j + 1]
  <2>1. Inside(j)
    BY <1>10
  <2>2. /\ p.st = "in_val_string" /\ p.val = Part(v, j) /\ p.n = n[j] /\ p.quoted = TRUE
        /\ p.attr = <<key>> /\ p.status = first.status /\ p.field = first.field
    BY <2>1
  <2>3. j + 1 \in 1 .. m /\ j + 1 \in 0 .. m /\ (j + 1) - 1 = j
    BY <1>1
  <2>4. x = ReadAtom(p, a) /\ p \in Parser
    <3>1. b + 5 + j \in 0 .. b + 5 + m /\ (b + 5 + j) + 1 = b + 5 + (j + 1)
      BY <1>1, Places, Zenon
    <3> QED
      BY <1>2, <1>3, <2>3, <3>1
  <2>5. a \in Atom /\ a \notin {"quote", "escape"} /\ Part(v, j + 1) = Append(Part(v, j), a)
    BY <2>3, PartGrows DEF m
  <2>6. n[j + 1] = n[j] + Chars(a) /\ n[j + 1] <= IPLEN
    <3> DEFINE k == n[j + 1]
               l == Length(v)
    <3>1. k \in Nat /\ l \in Nat /\ k <= l /\ l <= IPLEN /\ IPLEN \in Nat
      <4>1. m \in 0 .. m
        BY <1>1
      <4> QED
        BY <1>8, <2>3, <4>1 DEF IPLEN
    <3>2. k <= IPLEN
      <4> HIDE DEF k, l
      <4> QED
        BY <3>1
    <3> QED
      BY <1>8, <2>3, <3>2
  <2> HIDE DEF p, x, a
  <2>7. /\ x.st = "in_val_string" /\ x.val = Append(p.val, a) /\ x.n = p.n + Chars(a)
        /\ x.quoted = p.quoted /\ x.attr = p.attr /\ x.status = p.status /\ x.field = p.field
    <3>1. Room(p, a)
      BY <2>2, <2>4, <2>5, <2>6 DEF Room
    <3>2. Took(p, a, x)
      BY <2>4, <3>1, ReadValue, Zenon
    <3> QED
      BY <3>2 DEF Took
  <2>8. /\ x.st = "in_val_string" /\ x.val = Part(v, j + 1) /\ x.n = n[j + 1] /\ x.quoted = TRUE
        /\ x.attr = <<key>> /\ x.status = first.status /\ x.field = first.field
    BY <2>2, <2>5, <2>6, <2>7
  <2>9. Inside(j + 1)
    BY <2>8 DEF x
  <2> QED
    BY <2>3, <2>9
<1>11. Inside(m)
  <2>1. \A j \in 0 .. m : j \in good
    <3> HIDE DEF good
    <3> QED
      BY <1>1, <1>9, <1>10, Counts
  <2>2. m \in 0 .. m
    BY <1>1
  <2> QED
    BY <2>1, <2>2
<1> DEFINE l == at[b + 5 + m]
           z == at[b + 6 + m]
<1>12. /\ l.st = "in_val_string" /\ l.val = v /\ l.quoted = TRUE /\ l.n = Length(v)
       /\ l.attr = <<key>> /\ l.status = first.status /\ l.field = first.field
  BY <1>8, <1>11, PartGrows DEF m
<1>13. z = ReadAtom(l, "quote") /\ l \in Parser /\ z \in Parser
  <2>1. b + 5 + m \in 0 .. b + 5 + m /\ (b + 5 + m) + 1 = b + 6 + m
    BY <1>1, Places, Zenon
  <2> QED
    BY <1>2, <1>3, <2>1
<1> HIDE DEF l, z
<1>14. /\ z.st = "post_val" /\ z.val = v /\ z.quoted = TRUE /\ z.n = Length(v)
       /\ z.attr = <<key>> /\ z.status = first.status /\ z.field = first.field
  BY <1>12, <1>13, ReadQuotes
<1> QED
  BY <1>13, <1>14 DEF z, m, first

\* The atom after the quote that ends a column's value.
LEMMA Behind ==
    ASSUME NEW N \in Nat, NEW b \in Nat, NEW m \in Nat, b + m + 7 <= N
    PROVE  b + 6 + m <= N /\ b + m + 7 \in 1 .. N /\ (b + m + 7) - 1 = b + 6 + m
  OBVIOUS

\* What follows a value.
After == {",", "}"}

\* What a field keeps of a value: a value that leaves no room for its NUL runs on.
Kept(v) == IF Length(v) < IPLEN THEN v ELSE Append(v, "unended")

\* The value v of key is in valbuf, or stored; besides, the parser knows what first does.
Valued(p, key, v, first) ==
    /\ p.st = "post_val" /\ p.quoted = TRUE /\ p.attr = <<key>> /\ p.val = v
    /\ p.n = Length(v) /\ p.status = first.status /\ p.field = first.field /\ p \in Parser
Stored(p, key, v, first, a) ==
    /\ p.st = IF a = "," THEN "await_attr" ELSE "stop"
    /\ p.status = first.status /\ p.field = [first.field EXCEPT ![key] = Kept(v)]

\* After a value: it is stored, and the text goes on or ends.
LEMMA ReadStored ==
    ASSUME NEW key \in json_attrs, NEW a \in After, NEW v, NEW first, NEW p, NEW q,
           Valued(p, key, v, first), q = ReadAtom(p, a)
    PROVE  Stored(q, key, v, first, a)
<1>1. /\ p.st = "post_val" /\ p.quoted = TRUE /\ p.attr = <<key>> /\ p.val = v
      /\ p.n = Length(v) /\ p.status = first.status /\ p.field = first.field /\ p \in Parser
  BY DEF Valued
<1> DEFINE s == StoreString(p)
<1>2. q = Trail(s, a)
  BY <1>1 DEF ReadAtom, PostVal
<1>3. s.status = first.status /\ s.field = [first.field EXCEPT ![key] = Kept(v)]
      /\ DOMAIN s = DOMAIN p
  <2>1. Head(p.attr) = key
    BY <1>1, HeadOf, Zenon
  <2>2. (IF p.n < IPLEN THEN p.val ELSE Append(p.val, "unended")) = Kept(v)
    BY <1>1, Zenon DEF Kept
  <2>3. s = [p EXCEPT !.field = [first.field EXCEPT ![key] = Kept(v)]]
    BY <1>1, <2>1, <2>2 DEF StoreString
  <2> QED
    BY <1>1, <2>3 DEF Parser
<1> HIDE DEF s
<1>4. CASE a = ","
  <2>1. q = [s EXCEPT !.st = "await_attr"]
    BY <1>2, <1>4 DEF Trail
  <2> QED
    BY <1>1, <1>3, <1>4, <2>1 DEF Parser, Stored
<1>5. CASE a = "}"
  <2>1. q = [s EXCEPT !.st = "stop"]
    BY <1>2, <1>5 DEF Trail
  <2> QED
    BY <1>1, <1>3, <1>5, <2>1 DEF Parser, Stored
<1> QED
  BY <1>4, <1>5 DEF After

\* A whole column with the mark after it: its value is in its field, and nothing else changed.
LEMMA ReadField ==
    ASSUME NEW N \in Nat, NEW text, NEW at,
           \A i \in 1 .. N : at[i] = ReadAtom(at[i - 1], text[i]),
           \A i \in 0 .. N : at[i] \in Parser,
           NEW b \in Nat, NEW key \in json_attrs, key \in Run, Width[key] <= JSON_ATTR_MAX - 1,
           NEW v \in Text, Length(v) <= IPLEN,
           \A j \in 1 .. Size(v) : v[j] \notin {"quote", "escape"},
           b + Size(v) + 7 <= N, Column(text, b, key, v), at[b].st = "await_attr",
           NEW a \in After, text[b + Size(v) + 7] = a
    PROVE  Stored(at[b + Size(v) + 7], key, v, at[b], a)
<1>1. Size(v) \in Nat
  BY SizeType
<1>2. /\ b + 6 + Size(v) <= N /\ b + Size(v) + 7 \in 1 .. N
      /\ (b + Size(v) + 7) - 1 = b + 6 + Size(v)
  BY <1>1, Behind, Zenon
<1>3. Valued(at[b + 6 + Size(v)], key, v, at[b])
  <2>1. LET e == at[b + 6 + Size(v)] IN
        /\ e.st = "post_val" /\ e.quoted = TRUE /\ e.attr = <<key>> /\ e.val = v
        /\ e.n = Length(v)
        /\ e.status = at[b].status /\ e.field = at[b].field /\ e \in Parser
    BY <1>2, ReadColumn, Zenon
  <2> QED
    BY <2>1, Zenon DEF Valued
<1>4. at[b + Size(v) + 7] = ReadAtom(at[b + 6 + Size(v)], a)
  BY <1>2, Zenon
<1> QED
  BY <1>3, <1>4, ReadStored, Zenon

\* What Schema, Plain and Readable say of one column.
LEMMA OneColumn ==
    ASSUME Schema, NEW r \in Table, Plain(r), Readable(r), NEW i \in 1 .. Len(tables)
    PROVE  /\ tables[i] \in json_attrs /\ tables[i] \in Run
           /\ Width[tables[i]] <= JSON_ATTR_MAX - 1
           /\ Shown(r[i]) \in Text /\ Length(Shown(r[i])) <= IPLEN
           /\ \A j \in 1 .. Size(Shown(r[i])) : Shown(r[i])[j] \notin {"quote", "escape"}
<1>1. /\ tables \in Seq(Run) /\ DOMAIN r = DOMAIN tables /\ SQL_NULL \in Run
      /\ \A k \in DOMAIN r : r[k] = NULL \/ r[k] \in Seq(Run \cup Mark)
  BY ResourceAssumption
<1>2. i \in DOMAIN tables /\ i \in DOMAIN r /\ tables[i] \in Run
  BY <1>1
<1>3. /\ tables[i] \in json_attrs /\ Width[tables[i]] <= JSON_ATTR_MAX - 1
      /\ Length(Shown(r[i])) <= IPLEN
  BY <1>2 DEF Schema, Readable
<1>4. \A j \in 1 .. Size(Shown(r[i])) : Shown(r[i])[j] \notin {"quote", "escape"}
  <2>1. CASE r[i] = NULL
    <3>1. SQL_NULL \notin {"quote", "escape"}
      BY <1>1, RunIsNoMark DEF Mark
    <3>2. \A a : Len(<<a>>) = 1 /\ <<a>>[1] = a
      OBVIOUS
    <3>3. Shown(r[i]) = <<SQL_NULL>>
      BY <2>1 DEF Shown
    <3>4. \A j \in 1 .. 1 : j = 1
      OBVIOUS
    <3> QED
      BY <3>1, <3>2, <3>3, <3>4, Zenon DEF Size
  <2>2. CASE r[i] # NULL
    <3>1. r[i] \in Seq(Atom) /\ Shown(r[i]) = r[i]
      BY <1>1, <1>2, <2>2 DEF Atom, Shown
    <3>2. DOMAIN r[i] = 1 .. Len(r[i])
      BY <3>1
    <3> QED
      BY <1>2, <2>2, <3>1, <3>2, Zenon DEF Plain, Size
  <2> QED
    BY <2>1, <2>2
<1> QED
  BY <1>2, <1>3, <1>4, ShownType

LEMMA ShownLength ==
    ASSUME NEW r \in Table, NEW i \in DOMAIN tables PROVE Length(Shown(r[i])) \in Nat
<1>1. i \in 1 .. Len(tables)
  BY ResourceAssumption
<1>2. Shown(r[i]) \in Text
  BY <1>1, ShownType
<1> DEFINE v == Shown(r[i])
<1>3. v \in Text
  BY <1>2
<1> HIDE DEF v
<1>4. Length(v) \in Nat
  <2>1. PICK n \in [0 .. Size(v) -> Nat] : Length(v) = n[Size(v)]
    BY <1>3, LengthIs, Zenon
  <2>2. Size(v) \in 0 .. Size(v)
    BY <1>3, SizeType
  <2> QED
    BY <2>1, <2>2
<1> QED
  BY <1>4 DEF v

\* What the parser p knows behind the first i columns of r.
Known(p, r, i) ==
    /\ p.status = "ok" /\ (i # Len(tables) => p.st = "await_attr")
    /\ \A j \in 1 .. i : p.field[tables[j]] = Kept(Shown(r[j]))

\* The columns are the fields, each once.
LEMMA Columns == Len(tables) \in Nat /\ DOMAIN tables = 1 .. Len(tables)
  BY ResourceAssumption
LEMMA OneOfEach ==
    ASSUME Schema
    PROVE  /\ \A j \in 1 .. Len(tables) : tables[j] \in json_attrs
           /\ \A i, j \in 1 .. Len(tables) : tables[i] = tables[j] => i = j
  BY Columns, Zenon DEF Schema
LEMMA UpTo == ASSUME NEW K \in Nat, NEW i \in 1 .. K, NEW j \in 1 .. i
              PROVE  j \in 1 .. K /\ (j # i => j \in 1 .. i - 1)
  OBVIOUS

\* Another column leaves the fields of those before it as they are.
LEMMA KnowsMore ==
    ASSUME Schema, NEW r \in Table, NEW i \in 1 .. Len(tables), NEW first \in Parser, NEW q,
           Known(first, r, i - 1),
           Stored(q, tables[i], Shown(r[i]), first, IF i = Len(tables) THEN "}" ELSE ",")
    PROVE  Known(q, r, i)
<1>1. Len(tables) \in Nat
  BY Columns
<1>2. /\ first.status = "ok"
      /\ \A j \in 1 .. i - 1 : first.field[tables[j]] = Kept(Shown(r[j]))
  BY DEF Known
<1>3. q.status = "ok" /\ q.field = [first.field EXCEPT ![tables[i]] = Kept(Shown(r[i]))]
  BY <1>2 DEF Stored
<1>4. i # Len(tables) => q.st = "await_attr"
  BY DEF Stored
<1>5. ASSUME NEW j \in 1 .. i
      PROVE  /\ tables[j] \in json_attrs
             /\ j # i => tables[j] # tables[i] /\ j \in 1 .. i - 1
  <2>1. j \in 1 .. Len(tables) /\ (j # i => j \in 1 .. i - 1)
    BY <1>1, UpTo, Zenon
  <2> QED
    BY <2>1, OneOfEach, Zenon
<1>6. DOMAIN first.field = json_attrs
  BY DEF Parser
<1>7. ASSUME NEW j \in 1 .. i PROVE q.field[tables[j]] = Kept(Shown(r[j]))
  <2>1. CASE j = i
    <3>1. tables[j] \in DOMAIN first.field
      BY <1>5, <1>6
    <3> QED
      BY <1>3, <2>1, <3>1
  <2>2. CASE j # i
    <3>1. j \in 1 .. i - 1 /\ tables[j] # tables[i] /\ tables[j] \in DOMAIN first.field
      BY <1>5, <1>6, <2>2, Zenon
    <3> QED
      BY <1>2, <1>3, <3>1
  <2> QED
    BY <2>1, <2>2
<1> QED
  BY <1>3, <1>4, <1>7, Zenon DEF Known

\* The brace that begins an object.
LEMMA ReadBrace == LET p == ReadAtom(ReadStart, "{") IN p.status = "ok" /\ p.st = "await_attr"
  BY DEF ReadAtom, ReadStart, InInit

\* A parser that knows all columns has what the fields keep of the row.
LEMMA KnowsAll ==
    ASSUME Schema, NEW r \in Table, NEW p \in Parser, Known(p, r, Len(tables))
    PROVE  p.status = "ok" /\ p.field = [f \in json_attrs |-> Kept(FieldsOf(r)[f])]
<1>1. DOMAIN tables = 1 .. Len(tables)
  BY Columns, Zenon
<1>2. ASSUME NEW f \in json_attrs
      PROVE  p.field[f] = Kept(Shown(r[CHOOSE i \in DOMAIN tables : tables[i] = f]))
  <2> DEFINE c == CHOOSE i \in DOMAIN tables : tables[i] = f
  <2>1. \E i \in DOMAIN tables : tables[i] = f
    BY DEF Schema
  <2>2. c \in DOMAIN tables /\ tables[c] = f
    BY <2>1, Zenon
  <2> HIDE DEF c
  <2>3. p.field[tables[c]] = Kept(Shown(r[c]))
    BY <1>1, <2>2, Zenon DEF Known
  <2> QED
    BY <2>2, <2>3, Zenon DEF c
<1>3. p.field \in [json_attrs -> Seq(Char)] /\ p.status = "ok"
  BY DEF Parser, Known
<1>4. p.field = [f \in json_attrs |-> p.field[f]]
  BY <1>3
<1>5. \A f \in json_attrs :
         FieldsOf(r)[f] = Shown(r[CHOOSE i \in DOMAIN tables : tables[i] = f])
  BY Zenon DEF FieldsOf
<1>6. \A f \in json_attrs : p.field[f] = Kept(FieldsOf(r)[f])
  BY <1>2, <1>5, Zenon
<1> QED
  BY <1>3, <1>4, <1>6, Zenon

\* A row of which no column is longer than its field is read without an error, every
\* column into its own field, in whatever order the columns are.
LEMMA RowRead ==
    ASSUME Schema, NEW r \in Table, Plain(r), Readable(r)
    PROVE  json_read_object(RowText(r)) =
              [status |-> "ok", field |-> [f \in json_attrs |-> Kept(FieldsOf(r)[f])]]
<1> DEFINE K == Len(tables)
           text == RowText(r)
           N == Size(text)
<1>1. K \in Nat \ {0}
  <2>1. tables \in Seq(Run) /\ DOMAIN tables = 1 .. K
    BY ResourceAssumption
  <2>2. \E i \in DOMAIN tables : tables[i] = "ip_start"
    BY DEF Schema, json_attrs
  <2> QED
    BY <2>1, <2>2
<1>2. PICK b : Layout(text, r, b)
  BY <1>1, RowLayout
<1>3. text \in Text /\ N \in Nat
  BY RowTextIs, SizeType DEF Text
<1>4. PICK at : /\ Reads(text, at)
                /\ json_read_object(text) = [status |-> at[N].status, field |-> at[N].field]
  BY <1>3, ReadIs DEF Text, Size
<1>5. /\ at[0] = ReadStart
      /\ \A i \in 1 .. N : at[i] = ReadAtom(at[i - 1], text[i])
      /\ \A i \in 0 .. N : at[i] \in Parser
  BY <1>4 DEF Reads, Size
<1>6. /\ b[0] = 1 /\ b[K] = N /\ text[1] = "{"
      /\ \A i \in 1 .. K : /\ b[i - 1] \in Nat /\ b[i - 1] + Size(Shown(r[i])) + 7 = b[i]
                           /\ b[i] <= N /\ Column(text, b[i - 1], tables[i], Shown(r[i]))
                           /\ text[b[i]] = IF i = K THEN "}" ELSE ","
  BY <1>2, Zenon DEF Layout
<1> DEFINE good == {i \in 0 .. K : Known(at[b[i]], r, i)}
<1>7. 0 \in good
  <2>1. N # 0
    <3>1. K \in 1 .. K
      BY <1>1
    <3> DEFINE n == Size(Shown(r[K]))
               c == b[K - 1]
    <3>2. n \in Nat /\ c \in Nat /\ c + n + 7 = N
      BY <1>6, <3>1, ShownType, Zenon
    <3> HIDE DEF n, c, N
    <3> QED
      BY <3>2
  <2>2. 1 \in 1 .. N /\ 1 - 1 = 0
    <3> HIDE DEF N
    <3> QED
      BY <1>3, <2>1
  <2>3. at[1] = ReadAtom(ReadStart, "{")
    BY <1>5, <1>6, <2>2, Zenon
  <2>4. at[1].status = "ok" /\ at[1].st = "await_attr"
    BY <2>3, ReadBrace, Zenon
  <2>5. \A j \in 1 .. 0 : FALSE
    OBVIOUS
  <2>6. Known(at[b[0]], r, 0)
    BY <1>6, <2>4, <2>5, Zenon DEF Known
  <2>7. 0 \in 0 .. K
    <3> HIDE DEF K
    <3> QED
      BY <1>1
  <2> QED
    BY <2>6, <2>7
<1>8. ASSUME NEW k \in 0 .. K - 1, k \in good PROVE k + 1 \in good
  <2>1. PICK i \in 1 .. K : i = k + 1 /\ i - 1 = k /\ i \in 0 .. K
    <3> HIDE DEF K
    <3> QED
      BY <1>1
  <2> DEFINE key == tables[i]
             v == Shown(r[i])
             c == b[i - 1]
             a == IF i = K THEN "}" ELSE ","
  <2>2. /\ key \in json_attrs /\ key \in Run /\ Width[key] <= JSON_ATTR_MAX - 1
        /\ v \in Text /\ Length(v) <= IPLEN
        /\ \A j \in 1 .. Size(v) : v[j] \notin {"quote", "escape"}
    BY OneColumn, Zenon
  <2>3. /\ c \in Nat /\ c + Size(v) + 7 = b[i] /\ b[i] <= N
        /\ Column(text, c, key, v) /\ text[b[i]] = a
    BY <1>6, Zenon
  <2>4. Known(at[c], r, i - 1)
    BY <1>8, <2>1, Zenon
  <2>5. at[c].st = "await_attr" /\ at[c] \in Parser
    <3>1. i - 1 # K
      <4> HIDE DEF K
      <4> QED
        BY <1>1
    <3>2. c \in 0 .. N
      <4> DEFINE n == Size(v)
                 z == b[i]
      <4>1. n \in Nat /\ N \in Nat /\ c \in Nat /\ c + n + 7 = z /\ z <= N
        BY <1>3, <2>2, <2>3, SizeType, Zenon
      <4> HIDE DEF n, N, z, c
      <4> QED
        BY <4>1
    <3> QED
      BY <1>5, <2>4, <3>1, <3>2, Zenon DEF Known
  <2>6. a \in After
    BY DEF After
  <2>7. Stored(at[c + Size(v) + 7], key, v, at[c], a)
    <3> HIDE DEF key, v, c, a, N, text
    <3>1. c + Size(v) + 7 <= N /\ text[c + Size(v) + 7] = a
      BY <2>3, Zenon
    <3> QED
      BY <1>3, <1>5, <2>2, <2>3, <2>5, <2>6, <3>1, ReadField, Zenon
  <2>8. Known(at[b[i]], r, i)
    BY <2>3, <2>4, <2>5, <2>7, KnowsMore, Zenon
  <2> QED
    BY <2>1, <2>8, Zenon
<1>9. Known(at[N], r, K)
  <2>1. \A i \in 0 .. K : i \in good
    <3> HIDE DEF good
    <3> QED
      BY <1>1, <1>7, <1>8, Counts
  <2>2. K \in 0 .. K
    <3> HIDE DEF K
    <3> QED
      BY <1>1
  <2> QED
    BY <1>6, <2>1, <2>2, Zenon
<1> QED
  <2>1. N \in 0 .. N
    <3> HIDE DEF N
    <3> QED
      BY <1>3
  <2>2. at[N] \in Parser
    BY <1>5, <2>1, Zenon
  <2> QED
    BY <1>4, <1>9, <2>2, KnowsAll, Zenon

\* A row with no quote or backslash in it, and room in its fields for a NUL behind each
\* column, comes through the text and back as it was, whatever other marks are in it:
\* what the macros write (ac/sql.c:54-74, include/mjson.h:147-165) the parser reads
\* (lib/mjson.c:179-577). A column of just IPLEN bytes is read too, but not ended.
THEOREM RoundTrip ==
    ASSUME Schema, NEW r \in Table, Plain(r), Short(r)
    PROVE  json_read_object(RowText(r)) = [status |-> "ok", field |-> FieldsOf(r)]
<1>1. \A i \in DOMAIN tables : Length(Shown(r[i])) < IPLEN
  BY DEF Short
<1>2. Readable(r)
  <2>1. ASSUME NEW i \in DOMAIN tables PROVE Length(Shown(r[i])) <= IPLEN
    <3> DEFINE l == Length(Shown(r[i]))
    <3>1. l \in Nat /\ l < IPLEN
      BY <1>1, ShownLength
    <3> HIDE DEF l
    <3>2. l <= IPLEN
      BY <3>1 DEF IPLEN
    <3> QED
      BY <3>2 DEF l
  <2> QED
    BY <2>1 DEF Readable
<1>3. ASSUME NEW f \in json_attrs PROVE Kept(FieldsOf(r)[f]) = FieldsOf(r)[f]
  <2> DEFINE c == CHOOSE i \in DOMAIN tables : tables[i] = f
  <2>1. \E i \in DOMAIN tables : tables[i] = f
    BY DEF Schema
  <2>2. c \in DOMAIN tables
    BY <2>1, Zenon
  <2>3. FieldsOf(r)[f] = Shown(r[c])
    BY Zenon DEF FieldsOf
  <2> HIDE DEF c
  <2> QED
    BY <1>1, <2>2, <2>3, Zenon DEF Kept
<1>4. FieldsOf(r) = [f \in json_attrs |-> FieldsOf(r)[f]]
  <2>1. FieldsOf(r) =
           [f \in json_attrs |-> Shown(r[CHOOSE i \in DOMAIN tables : tables[i] = f])]
    BY Zenon DEF FieldsOf
  <2> DEFINE shown(f) == Shown(r[CHOOSE i \in DOMAIN tables : tables[i] = f])
  <2>2. FieldsOf(r) = [f \in json_attrs |-> shown(f)]
    BY <2>1
  <2> HIDE DEF shown
  <2> QED
    BY <2>2
<1> DEFINE kept == [f \in json_attrs |-> Kept(FieldsOf(r)[f])]
<1>5. json_read_object(RowText(r)) = [status |-> "ok", field |-> kept]
  BY <1>2, RowRead, Zenon
<1>6. kept = FieldsOf(r)
  <2> DEFINE F == FieldsOf(r)
  <2> HIDE DEF F
  <2>1. F = [f \in json_attrs |-> F[f]]
    BY <1>4, Zenon DEF F
  <2>2. \A f \in json_attrs : kept[f] = F[f]
    BY <1>3, Zenon DEF F
  <2> QED
    BY <2>1, <2>2, Zenon DEF F
<1> HIDE DEF kept
<1> QED
  BY <1>5, <1>6, Zenon

-----------------------------------------------------------------------------
(* The two rings of the pool.                                              *)

USE IpPoolAssumption

LEMMA NodeFinite == IsFiniteSet(Node)
<1>1. IsFiniteSet(Entry \cup {Pool}) /\ IsFiniteSet((Entry \cup {Pool}) \cup {Leased})
  BY FS_AddElement
<1> QED
  BY <1>1 DEF Node

\* P hangs on pool and L on alloc, and they are all there is.
TwoRings(l, P, L) ==
    /\ l \in Memory /\ Sound(l)
    /\ Ring(l, Pool, P) /\ Ring(l, Leased, L)
    /\ P \subseteq Entry /\ L \subseteq Entry /\ P \cap L = {}
    /\ \A n \in Entry \ (P \cup L) : l.nxt[n] = n /\ l.prv[n] = n

LEMMA TwoRingsWalks ==
    ASSUME NEW l, NEW P, NEW L, TwoRings(l, P, L)
    PROVE  /\ Ends(l, Pool) /\ Visited(l, Pool) = P
           /\ Ends(l, Leased) /\ Visited(l, Leased) = L
  BY NodeFinite, RingWalk DEF TwoRings

\* An address is leased: list_move to the ring of the leased.
LEMMA MoveRings ==
    ASSUME NEW l, NEW P, NEW L, TwoRings(l, P, L), NEW n \in P
    PROVE  TwoRings(list_move(l, n, Leased), P \ {n}, L \cup {n})
<1> DEFINE d == __list_del_entry(l, n)
           k == InsertBetween(d, n, Leased, d.nxt[Leased])
<1>1. /\ l \in Memory /\ Sound(l) /\ Ring(l, Pool, P) /\ Ring(l, Leased, L)
      /\ P \subseteq Entry /\ L \subseteq Entry /\ P \cap L = {}
      /\ (L \cup {Leased}) \cap (P \cup {Pool}) = {}
      /\ n \in Node /\ Leased \in Node /\ Leased # n
  BY DEF TwoRings, Node
<1>2. /\ d \in Memory /\ Alone(d, n) /\ Ring(d, Pool, P \ {n}) /\ Ring(d, Leased, L)
      /\ \A m \in Node \ (P \cup {Pool}) : d.nxt[m] = l.nxt[m] /\ d.prv[m] = l.prv[m]
  <2>1. /\ d \in Memory /\ Alone(d, n) /\ Ring(d, Pool, P \ {n})
        /\ \A g, U : Ring(l, g, U) /\ (U \cup {g}) \cap (P \cup {Pool}) = {} => Ring(d, g, U)
        /\ \A m \in Node \ (P \cup {Pool}) : d.nxt[m] = l.nxt[m] /\ d.prv[m] = l.prv[m]
    <3>1. d = __list_del_entry(l, n)
      OBVIOUS
    <3>2. l \in Memory /\ Sound(l) /\ Ring(l, Pool, P) /\ n \in P
      BY <1>1
    <3> HIDE DEF d
    <3> QED
      BY <3>1, <3>2, Deleted
  <2> HIDE DEF d
  <2> QED
    BY <1>1, <2>1
<1> HIDE DEF d
<1>3. /\ k \in Memory /\ Sound(k)
      /\ \A m \in Node \ {n, Leased, d.nxt[Leased]} : k.nxt[m] = d.nxt[m] /\ k.prv[m] = d.prv[m]
      /\ \A h, S : Ring(d, h, S) /\ n \notin S \cup {h} =>
            IF Leased \in S \cup {h} THEN Ring(k, h, S \cup {n}) ELSE Ring(k, h, S)
  <2>1. k = InsertBetween(d, n, Leased, d.nxt[Leased])
    OBVIOUS
  <2>2. d \in Memory /\ n \in Node /\ Leased \in Node /\ Leased # n /\ Alone(d, n)
    BY <1>1, <1>2
  <2> HIDE DEF k
  <2> QED
    BY <2>1, <2>2, Inserted
<1> HIDE DEF k
<1>4. Ring(k, Pool, P \ {n}) /\ Ring(k, Leased, L \cup {n})
  BY <1>1, <1>2, <1>3
<1>5. \A m \in Entry \ (P \cup L) : k.nxt[m] = m /\ k.prv[m] = m
  <2> SUFFICES ASSUME NEW m \in Entry \ (P \cup L) PROVE k.nxt[m] = m /\ k.prv[m] = m
    OBVIOUS
  <2>1. m \in Node \ (P \cup {Pool}) /\ m # Leased /\ m # n /\ m \notin L \cup {Leased}
    BY <1>1 DEF Node
  <2>2. d.nxt[Leased] \in L \cup {Leased}
    BY <1>2 DEF Ring
  <2>3. l.nxt[m] = m /\ l.prv[m] = m
    BY DEF TwoRings
  <2> QED
    BY <1>2, <1>3, <2>1, <2>2, <2>3
<1>6. list_move(l, n, Leased) = k
  BY DEF list_move, _list_add, k, d
<1>7. (P \ {n}) \cup (L \cup {n}) = P \cup L
  OBVIOUS
<1>8. TwoRings(k, P \ {n}, L \cup {n})
  BY <1>1, <1>3, <1>4, <1>5, <1>7 DEF TwoRings
<1> QED
  BY <1>6, <1>8

\* An address comes into the pool: list_add_tail to its ring.
LEMMA AddTailRings ==
    ASSUME NEW l, NEW P, NEW L, TwoRings(l, P, L), NEW n \in Entry \ (P \cup L)
    PROVE  TwoRings(list_add_tail(l, n, Pool), P \cup {n}, L)
<1> DEFINE p == l.prv[Pool]
           k == InsertBetween(l, n, p, l.nxt[p])
<1>1. /\ l \in Memory /\ Sound(l) /\ Ring(l, Pool, P) /\ Ring(l, Leased, L)
      /\ P \subseteq Entry /\ L \subseteq Entry /\ P \cap L = {}
      /\ n \in Node /\ Pool \in Node /\ l.nxt[n] = n /\ l.prv[n] = n
  BY DEF TwoRings, Node
<1>2. p \in P \cup {Pool} /\ p \in Node /\ p # n /\ l.nxt[p] = Pool
  BY <1>1 DEF Ring, Sound, Memory
<1>3. p \notin L \cup {Leased} /\ n \notin P \cup {Pool} /\ n \notin L \cup {Leased}
  BY <1>1, <1>2
<1>4. Alone(l, n)
  BY <1>1, OwnPointers
<1> HIDE DEF p
<1>5. /\ k \in Memory /\ Sound(k)
      /\ \A m \in Node \ {n, p, l.nxt[p]} : k.nxt[m] = l.nxt[m] /\ k.prv[m] = l.prv[m]
      /\ \A h, S : Ring(l, h, S) /\ n \notin S \cup {h} =>
            IF p \in S \cup {h} THEN Ring(k, h, S \cup {n}) ELSE Ring(k, h, S)
  <2>1. k = InsertBetween(l, n, p, l.nxt[p])
    OBVIOUS
  <2>2. l \in Memory /\ n \in Node /\ p \in Node /\ p # n /\ Alone(l, n)
    BY <1>1, <1>2, <1>4
  <2> HIDE DEF k
  <2> QED
    BY <2>1, <2>2, Inserted
<1>6. list_add_tail(l, n, Pool) = k
  BY <1>2 DEF list_add_tail, p
<1> HIDE DEF k
<1>7. Ring(k, Pool, P \cup {n}) /\ Ring(k, Leased, L)
  BY <1>1, <1>2, <1>3, <1>5
<1>8. \A m \in Entry \ ((P \cup {n}) \cup L) : k.nxt[m] = m /\ k.prv[m] = m
  <2> SUFFICES ASSUME NEW m \in Entry \ ((P \cup {n}) \cup L) PROVE k.nxt[m] = m /\ k.prv[m] = m
    OBVIOUS
  <2>1. m \in Node \ {n, p, l.nxt[p]}
    BY <1>2 DEF Node
  <2>2. l.nxt[m] = m /\ l.prv[m] = m
    BY DEF TwoRings
  <2> QED
    BY <1>5, <2>1, <2>2
<1>9. TwoRings(k, P \cup {n}, L)
  BY <1>1, <1>3, <1>5, <1>7, <1>8 DEF TwoRings
<1> QED
  BY <1>6, <1>9

-----------------------------------------------------------------------------
(* The invariant.                                                          *)

USE IpRangeAssumption

Free == Visited(links, Pool)
Taken == Visited(links, Leased)

\* Types, but those of the texts that res_check reads (TextTypes).
PoolTypes ==
    /\ links \in Memory
    /\ addr \in [Node -> Word \cup {Garbage}]
    /\ apmac \in [Node -> Mac \cup {NoMac}]
    /\ used \subseteq Entry
    /\ total \in Nat /\ left \in Int
    /\ stuck \in BOOLEAN /\ broken \in BOOLEAN
    /\ dead \in {"no", "abort", "exit", "null", "overrun"}
    /\ tpc \in {"idle", "check", "alloc", "reply"}
    /\ mac \in Mac \cup {NoMac} /\ (tpc # "idle" => mac \in Mac)
    /\ ask \in Word /\ want \in Word
    /\ ip \in Node \cup {NoEntry}
    /\ rpc \in {"poll", "clear", "add"} /\ todo \in Seq(Word)
    /\ regs \in 0 .. MaxRegs /\ changes \in 0 .. MaxChanges

\* A registration overdraws the pool by one at most, when it takes its address.
Overdraft ==
    /\ left + regs >= IF tpc \in {"check", "alloc"} THEN 1 ELSE 0
    /\ tpc # "idle" => regs >= 1

\* The pool as long as it has not been overdrawn or replaced.
Whole ==
    /\ TwoRings(links, Free, Taken) /\ Free \cup Taken = used
    /\ left = Cardinality(Free) /\ total = Cardinality(used)
    /\ \A n \in used : (apmac[n] # NoMac <=> n \in Taken) /\ addr[n] \in Word
    /\ \A n, k \in used : addr[n] = addr[k] => n = k
    /\ ~stuck /\ dead # "abort"

\* The answer on its way, and the last one, are of leased addresses.
Answers ==
    /\ tpc = "reply" => ip \in Taken /\ apmac[ip] = mac
    /\ granted.mac # NoMac => \E n \in Taken : addr[n] = granted.got /\ apmac[n] = granted.mac

PoolInv == PoolTypes /\ Overdraft /\ (~broken => Whole /\ Answers)

-----------------------------------------------------------------------------
\* Heads at the start have empty rings.
LEMMA InitPoolInv == Init => PoolInv
<1> SUFFICES ASSUME Init PROVE PoolInv
  OBVIOUS
<1>1. \A n \in Node : links.nxt[n] = n /\ links.prv[n] = n
  BY DEF Init, InitHeads
<1>2. links \in Memory
  BY DEF Init, InitHeads, Memory
<1>3. Pool \in Node /\ Leased \in Node
  BY DEF Node
<1>4. TwoRings(links, {}, {})
  BY <1>1, <1>2, <1>3 DEF TwoRings, Ring, Sound, Memory, Node
<1>5. Free = {} /\ Taken = {}
  BY <1>4, TwoRingsWalks DEF Free, Taken
<1>6. 0 \in Word
  BY DEF Word
<1>7. PoolTypes
  <2>1. /\ addr \in [Node -> Word \cup {Garbage}] /\ apmac \in [Node -> Mac \cup {NoMac}]
        /\ todo \in Seq(Word)
    BY <1>6 DEF Init, NoAddr
  <2>2. /\ used \subseteq Entry /\ total \in Nat /\ left \in Int
        /\ dead \in {"no", "abort", "exit", "null", "overrun"} /\ rpc \in {"poll", "clear", "add"}
    BY DEF Init
  <2>5. stuck \in BOOLEAN /\ broken \in BOOLEAN
    BY Zenon DEF Init
  <2>3. /\ tpc \in {"idle", "check", "alloc", "reply"}
        /\ mac \in Mac \cup {NoMac} /\ (tpc # "idle" => mac \in Mac)
        /\ ip \in Node \cup {NoEntry}
        /\ ask \in Word /\ want \in Word
    BY <1>6 DEF Init, NoAddr
  <2>4. regs \in 0 .. MaxRegs /\ changes \in 0 .. MaxChanges
    BY DEF Init
  <2> QED
    BY <1>2, <2>1, <2>2, <2>3, <2>4, <2>5 DEF PoolTypes
<1>8. Whole
  BY <1>4, <1>5, FS_EmptySet DEF Init, Whole
<1>9. Answers
  BY DEF Init, Answers
<1> QED
  BY <1>7, <1>8, <1>9 DEF Init, PoolInv, Overdraft

\* A walk meets only nodes, sound or not.
LEMMA VisitedNodes == ASSUME NEW l \in Memory, NEW h \in Node PROVE Visited(l, h) \subseteq Node
<1> DEFINE w == Walk(l, h)
           K == Cardinality(Node)
<1>1. DOMAIN l.nxt = Node /\ K \in Nat /\ \A n \in Node : l.nxt[n] \in Node
  BY NodeFinite, FS_CardinalityType DEF Memory
<1>2. w = [i \in 0 .. K |-> w[i]] /\ w[0] = l.nxt[h] /\ \A i \in 1 .. K : w[i] = l.nxt[w[i - 1]]
  <2>1. K \in Nat /\ K = Cardinality(DOMAIN l.nxt)
    BY <1>1
  <2> HIDE DEF K
  <2> QED
    BY <2>1, WalkIs
<1>3. DOMAIN w = 0 .. K
  BY <1>2
<1> DEFINE out == {i \in 0 .. K : w[i] \notin Node}
<1>4. ASSUME out # {} PROVE FALSE
  <2>1. out \in SUBSET Nat
    OBVIOUS
  <2>2. PICK k \in out : \A j \in out : k <= j
    <3> HIDE DEF out
    <3> QED
      BY <1>4, <2>1, LeastIsIn
  <2> HIDE DEF w
  <2>3. k # 0
    BY <1>1, <1>2, <2>2
  <2>4. k - 1 \in 0 .. K /\ k - 1 \notin out /\ k \in 1 .. K
    BY <1>1, <2>2, <2>3
  <2> QED
    BY <1>1, <1>2, <2>2, <2>4
<1> HIDE DEF w
<1> QED
  BY <1>3, <1>4 DEF Visited, w

-----------------------------------------------------------------------------
(* The invariant is kept.                                                  *)

\* Nothing touches the rings.
LEMMA WholeFrame == ASSUME Whole, UNCHANGED <<rings, stuck>>, dead' # "abort" PROVE Whole'
  BY DEF Whole, rings, Free, Taken

\* A step under the lock does not hang before the pool is broken.
LEMMA WalksEnd == ASSUME PoolInv, ~broken PROVE Ends(links, Pool) /\ Ends(links, Leased)
  BY TwoRingsWalks DEF PoolInv, Whole

\* What a step that hangs leaves is of no use, and was so before.
LEMMA HangsInv == ASSUME PoolInv, broken, Hangs PROVE PoolInv'
<1>1. stuck' \in BOOLEAN
  BY DEF Hangs
<1>2. UNCHANGED <<rings, dead, travel, check, granted, broken, regs>>
  BY DEF Hangs
<1> QED
  BY <1>1, <1>2 DEF PoolInv, PoolTypes, Overdraft, rings, travel, check, poll

\* An address that is free becomes one that is leased, in list_move.
LEMMA TakeWhole ==
    ASSUME PoolInv, ~broken, tpc = "alloc", NEW n \in Free, Take(n), UNCHANGED stuck
    PROVE  /\ Whole' /\ Answers'
           /\ Free' = Free \ {n} /\ Taken' = Taken \cup {n}
<1>1. /\ TwoRings(links, Free, Taken) /\ Free \cup Taken = used /\ left = Cardinality(Free)
      /\ total = Cardinality(used)
      /\ \A k \in used : (apmac[k] # NoMac <=> k \in Taken) /\ addr[k] \in Word
      /\ \A j, k \in used : addr[j] = addr[k] => j = k
      /\ ~stuck /\ dead # "abort"
  BY DEF PoolInv, Whole
<1>2. mac \in Mac /\ mac # NoMac /\ n \in Node /\ apmac \in [Node -> Mac \cup {NoMac}]
      /\ used \subseteq Node
  BY <1>1 DEF PoolInv, PoolTypes, TwoRings, Node
<1>3. /\ links' = list_move(links, n, Leased) /\ apmac' = [apmac EXCEPT ![n] = mac]
      /\ left' = left - 1 /\ ip' = n /\ tpc' = "reply"
      /\ UNCHANGED <<addr, used, total, dead, mac, granted>>
  BY DEF Take, check
<1>4. TwoRings(links', Free \ {n}, Taken \cup {n})
  BY <1>1, <1>3, MoveRings
<1>5. Free' = Free \ {n} /\ Taken' = Taken \cup {n}
  BY <1>4, TwoRingsWalks DEF Free, Taken
<1>6. n \notin Taken
  BY <1>1 DEF TwoRings
<1>7. left' = Cardinality(Free')
  <2>1. IsFiniteSet(Free)
    BY <1>1, FS_Subset DEF TwoRings
  <2> QED
    BY <1>1, <1>3, <1>5, <2>1, FS_RemoveElement
<1>8. \A k \in used : apmac'[k] # NoMac <=> k \in Taken'
  BY <1>1, <1>2, <1>3, <1>5
<1>9. Whole'
  BY <1>1, <1>3, <1>4, <1>5, <1>7, <1>8 DEF Whole
<1>10. \A k \in Taken : apmac'[k] = apmac[k]
  BY <1>1, <1>2, <1>3, <1>6
<1>11. Answers'
  <2>1. tpc' = "reply" => ip' \in Taken' /\ apmac'[ip'] = mac'
    BY <1>2, <1>3, <1>5
  <2>2. granted.mac # NoMac => \E k \in Taken : addr[k] = granted.got /\ apmac[k] = granted.mac
    BY DEF PoolInv, Answers
  <2>3. granted'.mac # NoMac =>
           \E k \in Taken' : addr'[k] = granted'.got /\ apmac'[k] = granted'.mac
    BY <1>3, <1>5, <1>10, <2>2
  <2> QED
    BY <2>1, <2>3 DEF Answers
<1> QED
  BY <1>5, <1>9, <1>11

\* Types, when an entry is taken that need not be one.
LEMMA TakeTypes ==
    ASSUME PoolInv, tpc = "alloc", NEW n \in Node, Take(n), stuck' \in BOOLEAN, broken' \in BOOLEAN
    PROVE  PoolTypes' /\ Overdraft'
<1>1. links' \in Memory
  <2>1. links.nxt \in [Node -> Node] /\ links.prv \in [Node -> Node] /\ Leased \in Node
    BY DEF PoolInv, PoolTypes, Memory, Node
  <2> QED
    BY <2>1 DEF Take, list_move, _list_add, __list_del_entry, InsertBetween, Memory
<1>2. apmac' \in [Node -> Mac \cup {NoMac}] /\ left' \in Int
  BY DEF Take, PoolInv, PoolTypes
<1>3. /\ ip' = n /\ tpc' = "reply" /\ left' = left - 1
      /\ UNCHANGED <<addr, used, total, dead, mac, ask, want, check, granted, regs>>
  BY DEF Take
<1>4. Overdraft'
  BY <1>3 DEF PoolInv, PoolTypes, Overdraft
<1> QED
  BY <1>1, <1>2, <1>3, <1>4 DEF PoolInv, PoolTypes, check, poll

\* __ap_reg asks res_ip_conflict, which changes nothing.
LEMMA RegConflictInv ==
    ASSUME PoolInv, NEW m \in Mac, NEW x \in Asked \cup {NoAddr}, RegConflict(m, x)
    PROVE  PoolInv'
<1>1. CASE ~Ends(links, Leased) /\ Hangs
  BY <1>1, WalksEnd, HangsInv
<1>2. CASE /\ mac' = m /\ ask' = x /\ regs' = regs + 1 /\ tpc' = "check"
           /\ want' \in IF x = NoAddr \/ HasAddr(Leased, x) = {} THEN {x}
                        ELSE {IF apmac[n] # m THEN NoAddr ELSE x : n \in HasAddr(Leased, x)}
           /\ UNCHANGED <<rings, stuck, dead, ip, check, granted, broken>>
  <2>1. x \in Word /\ NoAddr \in Word
    BY DEF Addr, NoAddr, Word
  <2>2. want' \in {x, NoAddr}
    BY <1>2
  <2>3. tpc = "idle" /\ regs < MaxRegs
    BY DEF RegConflict
  <2>4. PoolTypes'
    <3>1. /\ mac' = m /\ ask' = x /\ regs' = regs + 1 /\ tpc' = "check"
          /\ UNCHANGED <<links, addr, apmac, used, total, left, stuck, dead, ip, broken,
                         rpc, todo, changes>>
      BY <1>2 DEF rings, check, poll
    <3>2. regs' \in 0 .. MaxRegs
      BY <2>3, <3>1, IpPoolAssumption DEF PoolInv, PoolTypes
    <3>3. ask' \in Word /\ want' \in Word /\ mac' \in Mac
      BY <2>1, <2>2, <3>1
    <3> HIDE IpPoolAssumption
    <3> QED
      BY <3>1, <3>2, <3>3 DEF PoolInv, PoolTypes
  <2>5. Overdraft'
    <3>1. left' = left /\ left \in Int /\ regs' = regs + 1 /\ regs \in Nat /\ tpc' = "check"
      BY <1>2 DEF PoolInv, PoolTypes, rings
    <3>2. left + regs >= 0
      BY <2>3 DEF PoolInv, Overdraft
    <3> QED
      BY <3>1, <3>2 DEF Overdraft
  <2>6. ~broken => Whole' /\ Answers'
    BY <1>2, WholeFrame DEF PoolInv, Answers, Whole, Taken, rings
  <2> QED
    BY <1>2, <2>4, <2>5, <2>6 DEF PoolInv
<1> QED
  BY <1>1, <1>2 DEF RegConflict

\* The first test of res_ip_alloc fails only when nothing is free.
LEMMA RegCheckInv == ASSUME PoolInv, RegCheck PROVE PoolInv'
<1>1. /\ UNCHANGED <<rings, stuck, dead, mac, ask, want, check, granted, broken, regs>>
      /\ tpc = "check"
  BY DEF RegCheck
<1>2. \/ left = 0 /\ ~list_empty(links, Pool) /\ ip' = NoEntry /\ tpc' = "reply"
      \/ tpc' = "alloc" /\ UNCHANGED ip
  BY DEF RegCheck
<1>3. ~broken => tpc' = "alloc"
  <2> SUFFICES ASSUME ~broken, left = 0, ~list_empty(links, Pool) PROVE FALSE
    BY <1>2
  <2>1. TwoRings(links, Free, Taken) /\ Cardinality(Free) = 0
    BY DEF PoolInv, Whole
  <2>2. IsFiniteSet(Free)
    BY <2>1, FS_Subset DEF TwoRings
  <2>3. Free = {}
    BY <2>1, <2>2, FS_EmptySet
  <2> QED
    BY <2>1, <2>3, EmptyRing DEF TwoRings
<1>4. PoolTypes'
  BY <1>1, <1>2 DEF PoolInv, PoolTypes, rings, check, poll
<1>5. Overdraft'
  BY <1>1, <1>2 DEF PoolInv, PoolTypes, Overdraft, rings
<1>6. ~broken => Whole' /\ Answers'
  BY <1>1, <1>3, WholeFrame DEF PoolInv, Answers, Whole, Taken, rings
<1> QED
  BY <1>1, <1>4, <1>5, <1>6 DEF PoolInv

\* res_ip_alloc with an address takes a free one, or asks on without.
LEMMA AllocNamedInv == ASSUME PoolInv, AllocNamed PROVE PoolInv'
<1>1. tpc = "alloc"
  BY DEF AllocNamed
<1>2. CASE \E n \in HasAddr(Pool, want) : Take(n) /\ UNCHANGED <<stuck, broken>>
  <2>1. PICK n \in HasAddr(Pool, want) : Take(n) /\ UNCHANGED <<stuck, broken>>
    BY <1>2
  <2>2. n \in Free /\ n \in Node
    BY VisitedNodes DEF HasAddr, Free, PoolInv, PoolTypes, Node
  <2>3. PoolTypes' /\ Overdraft'
    BY <1>1, <2>1, <2>2, TakeTypes DEF PoolInv, PoolTypes
  <2>4. ~broken => Whole' /\ Answers'
    BY <1>1, <2>1, <2>2, TakeWhole
  <2> QED
    BY <2>1, <2>3, <2>4 DEF PoolInv
<1>3. CASE /\ want' = NoAddr
           /\ UNCHANGED <<rings, stuck, dead, tpc, mac, ask, ip, check, granted, broken, regs>>
  <2>1. NoAddr \in Word
    BY DEF NoAddr, Word
  <2>2. PoolTypes'
    BY <1>3, <2>1 DEF PoolInv, PoolTypes, rings, check, poll
  <2>3. Overdraft' /\ (~broken => Answers')
    BY <1>3 DEF PoolInv, Overdraft, Answers, Taken, rings
  <2>4. ~broken => Whole'
    BY <1>3, WholeFrame DEF PoolInv, Whole
  <2> QED
    BY <1>3, <2>2, <2>3, <2>4 DEF PoolInv
<1>4. CASE ~Ends(links, Pool) /\ Hangs
  BY <1>4, WalksEnd, HangsInv
<1> QED
  BY <1>2, <1>3, <1>4 DEF AllocNamed

\* res_ip_alloc without one takes the first entry; without an entry the pool is broken.
LEMMA AllocFirstInv == ASSUME PoolInv, AllocFirst PROVE PoolInv'
<1> DEFINE n == list_first_entry(links, Pool)
<1>1. tpc = "alloc" /\ Take(n)
  BY DEF AllocFirst
<1>2. n \in Node
  BY DEF PoolInv, PoolTypes, Memory, Node, list_first_entry
<1>3. stuck' \in BOOLEAN /\ broken' \in BOOLEAN
  <2>1. CASE list_empty(links, Pool)
    BY <2>1, Zenon DEF AllocFirst
  <2>2. CASE ~list_empty(links, Pool)
    BY <2>2 DEF AllocFirst, PoolInv, PoolTypes
  <2> QED
    BY <2>1, <2>2
<1>4. PoolTypes' /\ Overdraft'
  BY <1>1, <1>2, <1>3, TakeTypes
<1>5. ASSUME ~broken' PROVE Whole' /\ Answers'
  <2>1. ~list_empty(links, Pool) /\ UNCHANGED <<broken, stuck>>
    BY <1>5 DEF AllocFirst
  <2>2. ~broken /\ TwoRings(links, Free, Taken)
    BY <1>5, <2>1 DEF PoolInv, Whole
  <2>3. n \in Free
    BY <2>1, <2>2, EmptyRing DEF TwoRings
  <2> HIDE DEF n
  <2> QED
    BY <1>1, <2>1, <2>2, <2>3, TakeWhole
<1> QED
  BY <1>4, <1>5 DEF PoolInv

\* __ap_reg answers with the address it was given, and reads it from the entry.
LEMMA RegReplyInv == ASSUME PoolInv, RegReply PROVE PoolInv'
<1>1. /\ tpc = "reply" /\ tpc' = "idle"
      /\ granted' = [mac |-> mac, got |-> IF ip = NoEntry THEN NoAddr ELSE addr[ip]]
      /\ mac' = NoMac /\ ask' = NoAddr /\ want' = NoAddr /\ ip' = NoEntry
      /\ UNCHANGED <<rings, stuck, dead, check, broken, regs>>
  BY DEF RegReply
<1>2. NoAddr \in Word
  BY DEF NoAddr, Word
<1>3. PoolTypes'
  BY <1>1, <1>2 DEF PoolInv, PoolTypes, rings, check, poll
<1>4. Overdraft'
  BY <1>1 DEF PoolInv, PoolTypes, Overdraft, rings
<1>5. ASSUME ~broken PROVE Whole' /\ Answers'
  <2>1. Whole'
    BY <1>1, <1>5, WholeFrame DEF PoolInv, Whole
  <2>2. ip \in Taken /\ apmac[ip] = mac /\ ip # NoEntry
    <3>1. Taken \subseteq Entry
      BY <1>5 DEF PoolInv, Whole, TwoRings
    <3> QED
      BY <1>1, <1>5, <3>1 DEF PoolInv, Answers
  <2>3. granted'.got = addr[ip] /\ granted'.mac = mac
    BY <1>1, <2>2
  <2>4. Taken' = Taken /\ UNCHANGED <<addr, apmac>>
    BY <1>1 DEF Taken, rings
  <2> QED
    BY <1>1, <2>1, <2>2, <2>3, <2>4 DEF Answers
<1> QED
  BY <1>1, <1>3, <1>4, <1>5 DEF PoolInv

-----------------------------------------------------------------------------
(* The arithmetic of a range.                                             *)

\* A number is that many nets and the rest.
LEMMA DivMod ==
    ASSUME NEW h \in Nat \ {0}, NEW n \in Nat
    PROVE  \E d \in Nat : n = h * d + (n % h) /\ n % h \in 0 .. h - 1
<1>1. n = h * (n \div h) + (n % h) /\ n \div h \in Nat /\ n % h \in 0 .. h - 1
  OBVIOUS
<1> QED
  BY <1>1

LEMMA ModIs ==
    ASSUME NEW h \in Nat \ {0}, NEW d \in Nat, NEW r \in 0 .. h - 1
    PROVE  (h * d + r) % h = r
  OBVIOUS

\* What can be configured, any mask.
AnyRange == [start : Word, end : Word, hosts : Nat \ {0}]

\* The size of a net is at most half the address space, and nets end where it ends.
LEMMA NetsFit ==
    ASSUME NEW c \in AnyRange, IsNetmask(c)
    PROVE  /\ c.hosts <= 2 ^ (W - 1)
           /\ \A d \in Nat : c.hosts * d < 2 ^ W => c.hosts * d + c.hosts <= 2 ^ W
<1> DEFINE h == c.hosts
           N == 2 ^ W
<1>1. h \in Nat \ {0} /\ N \in Nat \ {0} /\ h < N /\ N % h = 0
  BY DEF IsNetmask, AnyRange
<1> HIDE DEF h, N
<1>2. PICK q \in Nat : N = h * q
  <2>1. PICK q \in Nat : N = h * q + (N % h)
    BY <1>1, DivMod
  <2> QED
    BY <1>1, <2>1
<1>3. q >= 2
  <2>1. q # 0
    BY <1>1, <1>2
  <2>2. q # 1
    BY <1>1, <1>2
  <2> QED
    BY <2>1, <2>2
<1>4. h * 2 <= N
  BY <1>1, <1>2, <1>3
<1>5. ASSUME NEW d \in Nat, h * d < N PROVE h * d + h <= N
  <2>1. d < q
    BY <1>1, <1>2, <1>5
  <2>2. d + 1 <= q
    BY <2>1
  <2>3. h * (d + 1) <= h * q
    BY <1>1, <2>2
  <2> QED
    BY <1>1, <1>2, <2>3
<1> QED
  BY <1>1, <1>4, <1>5 DEF h, N

\* The count is that of the host parts, except for half the address space.
LEMMA Counted ==
    ASSUME NEW c \in AnyRange, IsNetmask(c),
           NEW n, n = (c.end % c.hosts) - (c.start % c.hosts) + 1
    PROVE  /\ n \in Int /\ n <= 2 ^ (W - 1)
           /\ Count(c) = IF n = 2 ^ (W - 1) THEN 0 - n ELSE n
<1> DEFINE h == c.hosts
           M == 2 ^ (W - 1)
           N == 2 ^ W
<1>1. h \in Nat \ {0} /\ M \in Nat \ {0} /\ N = 2 * M /\ h <= M
  BY NetsFit DEF AnyRange
<1>2. c.end % h \in 0 .. h - 1 /\ c.start % h \in 0 .. h - 1
  <2>1. c.end \in Nat /\ c.start \in Nat
    BY DEF AnyRange, Word
  <2> HIDE DEF h
  <2> QED
    BY <1>1, <2>1, DivMod
<1>3. Count(c) = LET m == n % N IN IF m >= M THEN m - N ELSE m
  BY DEF Count, ToInt
<1> HIDE DEF h, M, N
<1>4. n \in Int /\ 2 - h <= n /\ n <= h
  BY <1>1, <1>2 DEF h
<1>5. CASE n >= 0
  <2>1. n % N = n
    BY <1>1, <1>4, <1>5
  <2> QED
    BY <1>1, <1>3, <1>4, <1>5, <2>1 DEF M
<1>6. CASE n < 0
  <2>1. n % N = n + N
    <3>1. n + N \in 0 .. N - 1
      BY <1>1, <1>4, <1>6
    <3> QED
      BY <1>1, <1>4, <3>1
  <2> QED
    BY <1>1, <1>3, <1>4, <1>6, <2>1 DEF M
<1> QED
  BY <1>4, <1>5, <1>6, <1>1 DEF M

\* The addresses that res_ip_reload adds.
Loaded(c) == {Load(c)[i] : i \in DOMAIN Load(c)}

\* Each is in the net of the first, and is not the net's own nor its broadcast address.
LEMMA LoadedAre ==
    ASSUME NEW c \in AnyRange, IsNetmask(c), ~Refused(c)
    PROVE  \E d \in Nat :
              LET h == c.hosts
                  low == (c.start % h) + SkipNet(c)
                  high == (c.end % h) - SkipBroadcast(c)
              IN  /\ Loaded(c) = {h * d + r : r \in low .. high}
                  /\ c.start = h * d + (c.start % h) /\ h * d + h <= 2 ^ W
                  /\ c.start % h \in 0 .. h - 1 /\ c.end % h \in 0 .. h - 1
<1> DEFINE h == c.hosts
           s == c.start % h
           e == c.end % h
           N == 2 ^ W
           n == e - s + 1 - SkipNet(c) - SkipBroadcast(c)
           low == s + SkipNet(c)
           high == e - SkipBroadcast(c)
<1>1. h \in Nat \ {0} /\ N \in Nat \ {0} /\ c.start \in 0 .. N - 1
      /\ c.start \in Nat /\ c.end \in Nat
  BY DEF AnyRange, Word
<1>2. s \in 0 .. h - 1 /\ e \in 0 .. h - 1
  <2> HIDE DEF h
  <2> QED
    BY <1>1, DivMod
<1>3. PICK d \in Nat : c.start = h * d + s
  <2> HIDE DEF h
  <2> QED
    BY <1>1, DivMod
<1>4. h * d + h <= N
  <2>1. h * d < N
    <3> HIDE DEF h, N, s
    <3>1. h * d \in Nat
      BY <1>1
    <3> QED
      BY <1>1, <1>2, <1>3, <3>1
  <2> QED
    BY <2>1, NetsFit
<1>5. SkipNet(c) = IF s = 0 THEN 1 ELSE 0
  BY DEF SkipNet
<1>6. SkipBroadcast(c) = IF e = h - 1 THEN 1 ELSE 0
  BY DEF SkipBroadcast
<1>7. Count(c) = e - s + 1
  <2>1. e - s + 1 = 2 ^ (W - 1) => Count(c) = 0 - 2 ^ (W - 1)
    BY Counted
  <2>2. e - s + 1 # 2 ^ (W - 1) => Count(c) = e - s + 1
    BY Counted
  <2>3. Count(c) > 0
    <3>1. Count(c) \in Int
      BY <2>1, <2>2, Counted
    <3> QED
      BY <3>1 DEF Refused
  <2> QED
    BY <2>1, <2>2, <2>3
<1>8. Load(c) = [i \in 1 .. n |-> (c.start + SkipNet(c) + i - 1) % N]
  <2>1. n = Count(c) - SkipNet(c) - SkipBroadcast(c)
    <3>1. s \in Int /\ e \in Int /\ SkipNet(c) \in Int /\ SkipBroadcast(c) \in Int
      <4> HIDE DEF h, s, e
      <4> QED
        BY <1>1, <1>2, <1>5, <1>6
    <3> HIDE DEF h, s, e
    <3> QED
      BY <1>7, <3>1
  <2> HIDE DEF n
  <2> QED
    BY <2>1 DEF Load
<1> HIDE DEF h, s, e, N
<1>9. h * d \in Nat /\ n \in Int /\ low \in Nat /\ high \in Int /\ high < h
  BY <1>1, <1>2, <1>5, <1>6
<1>10. ASSUME NEW r \in low .. high PROVE h * d + r \in 0 .. N - 1
  BY <1>1, <1>4, <1>9
<1>11. \A i \in 1 .. n : (c.start + SkipNet(c) + i - 1) % N = h * d + (low + i - 1)
  <2> SUFFICES ASSUME NEW i \in 1 .. n
               PROVE  (c.start + SkipNet(c) + i - 1) % N = h * d + (low + i - 1)
    OBVIOUS
  <2>1. low + i - 1 \in low .. high
    BY <1>2, <1>5, <1>6
  <2>2. h * d + (low + i - 1) \in 0 .. N - 1
    BY <1>10, <2>1
  <2>3. c.start + SkipNet(c) + i - 1 = h * d + (low + i - 1)
    BY <1>2, <1>3, <1>5, <1>9
  <2> QED
    BY <1>1, <2>2, <2>3
<1>12. Loaded(c) = {h * d + (low + i - 1) : i \in 1 .. n}
  BY <1>8, <1>11 DEF Loaded
<1>13. {h * d + (low + i - 1) : i \in 1 .. n} = {h * d + r : r \in low .. high}
  <2>1. ASSUME NEW i \in 1 .. n PROVE low + i - 1 \in low .. high
    BY <1>2, <1>5, <1>6
  <2>2. ASSUME NEW r \in low .. high PROVE r - low + 1 \in 1 .. n /\ low + (r - low + 1) - 1 = r
    BY <1>2, <1>5, <1>6
  <2> HIDE DEF low, high, n
  <2> QED
    BY <2>1, <2>2
<1> QED
  BY <1>2, <1>3, <1>4, <1>12, <1>13 DEF h, s, e, N

\* The arithmetic of res_ip_reload, for addresses of any width: in no case is a net or
\* broadcast address loaded, or one outside the net of the first address; and if first
\* and last address are in one net and the count fits an int, what is loaded is what
\* is usable, and it is refused only if nothing is (ac/resource.c:224-258).
THEOREM LoadTheorem ==
    ASSUME NEW c \in AnyRange, IsNetmask(c)
    PROVE  /\ ~Refused(c) => Loaded(c) \subseteq Hosts(c) \ {0}
           /\ OneNet(c) /\ CountFits(c) =>
                 IF Refused(c) THEN Usable(c) = {} ELSE Loaded(c) = Usable(c)
<1> DEFINE h == c.hosts
           s == c.start % h
           e == c.end % h
           N == 2 ^ W
           low == s + SkipNet(c)
           high == e - SkipBroadcast(c)
<1>1. h \in Nat \ {0} /\ N \in Nat \ {0} /\ Word = 0 .. N - 1
      /\ c.start \in Nat /\ c.end \in Nat /\ c.end \in Word
  BY DEF AnyRange, Word
<1>2. SkipNet(c) = (IF s = 0 THEN 1 ELSE 0) /\ SkipBroadcast(c) = (IF e = h - 1 THEN 1 ELSE 0)
  BY DEF SkipNet, SkipBroadcast
<1>3. CASE ~Refused(c)
  <2>1. PICK b \in Nat : /\ Loaded(c) = {b + r : r \in low .. high}
                         /\ c.start = b + s /\ b + h <= N
                         /\ s \in 0 .. h - 1 /\ e \in 0 .. h - 1
                         /\ \A r \in 0 .. h - 1 : (b + r) % h = r
    <3>1. PICK d \in Nat : /\ Loaded(c) = {h * d + r : r \in low .. high}
                           /\ c.start = h * d + s /\ h * d + h <= N
                           /\ s \in 0 .. h - 1 /\ e \in 0 .. h - 1
      BY <1>3, LoadedAre
    <3> HIDE DEF h, s, e, N, low, high
    <3>2. h * d \in Nat /\ \A r \in 0 .. h - 1 : (h * d + r) % h = r
      BY <1>1, ModIs
    <3> QED
      BY <3>1, <3>2
  <2>2. Net(c, c.start) = c.start - s /\ Net(c, c.end) = c.end - e
    BY DEF Net
  <2>3. \A x : Net(c, x) = x - (x % h)
    BY DEF Net
  <2> HIDE DEF h, s, e, N
  <2>4. low \in 0 .. h /\ high \in -1 .. h - 1
    BY <1>1, <1>2, <2>1
  <2>5. b \in Nat /\ s \in Nat /\ e \in Nat /\ c.start = b + s /\ c.end \in Nat
    BY <1>1, <2>1
  <2>6. \A r \in low .. high : r \in 0 .. h - 1 /\ r # 0 /\ r # h - 1
    BY <1>1, <1>2, <2>1
  <2>7. ASSUME NEW x \in Loaded(c)
        PROVE  /\ x \in Word /\ x # 0
               /\ Net(c, x) = Net(c, c.start) /\ x % h \notin {0, h - 1}
    <3>1. PICK r \in low .. high : x = b + r
      BY <2>1
    <3>2. x % h = r /\ r \in 0 .. h - 1 /\ r # 0 /\ r # h - 1
      BY <2>1, <2>6, <3>1
    <3>3. Net(c, x) = Net(c, c.start)
      BY <2>1, <2>2, <2>3, <2>4, <3>1, <3>2
    <3> QED
      BY <1>1, <2>1, <2>4, <3>1, <3>2, <3>3
  <2>8. ASSUME OneNet(c) PROVE Loaded(c) = Usable(c)
    <3>1. c.end = b + e
      BY <2>2, <2>5, <2>8 DEF OneNet
    <3>2. ASSUME NEW x \in Loaded(c) PROVE x \in Usable(c)
      <4>1. PICK r \in low .. high : x = b + r
        BY <2>1
      <4>2. c.start <= x /\ x <= c.end
        <5>1. r \in Int /\ s <= r /\ r <= e
          BY <1>2, <2>5
        <5> QED
          BY <2>5, <3>1, <4>1, <5>1
      <4> QED
        BY <2>7, <4>2 DEF Usable, Hosts, h
    <3>3. ASSUME NEW x \in Usable(c) PROVE x \in Loaded(c)
      <4>1. /\ x \in Word /\ x \in Nat /\ x - (x % h) = b /\ c.start <= x /\ x <= c.end
            /\ x % h # 0 /\ x % h # h - 1
        <5>1. x \in Word /\ Net(c, x) = Net(c, c.start) /\ c.start <= x /\ x <= c.end
              /\ x % h # 0 /\ x % h # h - 1
          BY DEF Usable, Hosts, h
        <5> QED
          BY <1>1, <2>1, <2>2, <2>3, <2>4, <5>1
      <4>2. x % h \in 0 .. h - 1
        BY <1>1, <4>1, DivMod
      <4>3. x = b + (x % h)
        BY <2>4, <4>1, <4>2
      <4>4. x % h \in low .. high
        <5>1. s <= x % h /\ x % h <= e
          BY <2>1, <2>4, <3>1, <4>1, <4>2, <4>3
        <5> QED
          BY <1>1, <1>2, <2>1, <4>1, <4>2, <5>1
      <4> HIDE DEF low, high
      <4> QED
        BY <2>1, <4>3, <4>4
    <3> QED
      BY <3>2, <3>3
  <2> QED
    BY <1>3, <2>7, <2>8 DEF h, Hosts
<1>4. CASE Refused(c) /\ OneNet(c) /\ CountFits(c)
  <2>1. e - s + 1 = c.end - c.start + 1 /\ c.end - c.start + 1 < 2 ^ (W - 1)
    <3>1. c.start - s = c.end - e
      BY <1>4 DEF OneNet, Net
    <3>2. s \in Int /\ e \in Int
      <4> HIDE DEF h
      <4> QED
        BY <1>1
    <3> HIDE DEF s, e, h
    <3> QED
      BY <1>1, <1>4, <3>1, <3>2 DEF CountFits
  <2>2. Count(c) = e - s + 1
    <3>1. 2 ^ (W - 1) \in Int
      OBVIOUS
    <3>2. e - s + 1 # 2 ^ (W - 1)
      BY <1>1, <2>1, <3>1
    <3> QED
      BY <3>2, Counted
  <2>3. c.end < c.start
    BY <1>1, <1>4, <2>1, <2>2 DEF Refused
  <2>4. \A x \in Usable(c) : x \in Int /\ c.start <= x /\ x <= c.end
    BY <1>1 DEF Usable, Hosts
  <2> HIDE DEF h, s, e, N
  <2>5. Usable(c) = {}
    BY <1>1, <2>3, <2>4
  <2> QED
    BY <1>4, <2>5
<1> QED
  BY <1>3, <1>4

\* The addresses of a range are words.
LEMMA LoadType ==
    ASSUME NEW c, c.start \in Word, c.end \in Word, c.hosts \in Nat \ {0}
    PROVE  Load(c) \in Seq(Word)
<1> DEFINE n == Count(c) - SkipNet(c) - SkipBroadcast(c)
<1>1. ASSUME NEW m \in Int PROVE ToInt(m) \in Int
  BY DEF ToInt
<1>2. c.start \in Nat /\ c.end \in Nat
  BY DEF Word
<1>3. Count(c) \in Int
  BY <1>1, <1>2 DEF Count
<1>4. n \in Int /\ SkipNet(c) \in Int
  BY <1>3 DEF SkipNet, SkipBroadcast
<1>5. \A i \in 1 .. n : (c.start + SkipNet(c) + i - 1) % 2 ^ W \in Word
  <2> SUFFICES ASSUME NEW i \in 1 .. n PROVE (c.start + SkipNet(c) + i - 1) % 2 ^ W \in Word
    OBVIOUS
  <2>1. c.start + SkipNet(c) + i - 1 \in Int
    BY <1>2, <1>4
  <2> QED
    BY <2>1 DEF Word
<1>6. Load(c) = [i \in 1 .. n |-> (c.start + SkipNet(c) + i - 1) % 2 ^ W]
  BY DEF Load
<1> HIDE DEF n
<1>7. CASE n >= 0
  BY <1>4, <1>5, <1>6, <1>7
<1>8. CASE n < 0
  <2>1. 1 .. n = {}
    BY <1>4, <1>8
  <2>2. Load(c) = << >>
    BY <1>6, <2>1
  <2> QED
    BY <2>2
<1> QED
  BY <1>4, <1>7, <1>8

\* The range that res_ip_reload makes of its fields, once they are addresses.
LEMMA RangeType ==
    ASSUME NEW field, ~ResourceIpError(field)
    PROVE  LET c == RangeOf(field)
           IN  c.start \in Word /\ c.end \in Word /\ c.hosts \in Nat \ {0}
<1>1. \A f \in json_attrs : Head(field[f]) \in DOMAIN Dotted
  BY DEF ResourceIpError, Address
<1>2. \A f \in json_attrs : Dotted[Head(field[f])] \in Word
  BY <1>1, ResourceAssumption
<1>3. Dotted[Head(field["ip_mask"])] \in Word
  BY <1>2 DEF json_attrs
<1>4. 2 ^ W - Dotted[Head(field["ip_mask"])] \in Nat \ {0}
  BY <1>3 DEF Word
<1> QED
  BY <1>2, <1>4 DEF RangeOf, json_attrs

\* A poll touches no ring; what it loads are addresses.
LEMMA ResPollInv == ASSUME PoolInv, NEW r, ResPoll(r) PROVE PoolInv'
<1>1. /\ UNCHANGED <<rings, stuck, travel, granted, broken, regs>> /\ rpc = "poll"
      /\ changes' = changes + (IF row' = row THEN 0 ELSE 1) /\ changes' <= MaxChanges
  BY DEF ResPoll
<1>2. dead' \in {dead, "exit", "overrun"}
  BY DEF ResPoll, Reload
<1>3. rpc' \in {"poll", "clear"} /\ todo' \in Seq(Word)
  <2>1. UNCHANGED <<rpc, todo>> \/ \E field : Reload(field)
    BY DEF ResPoll
  <2>2. ASSUME NEW field, Reload(field) PROVE rpc' \in {"poll", "clear"} /\ todo' \in Seq(Word)
    <3>1. UNCHANGED <<rpc, todo>> \/ (~ResourceIpError(field) /\ rpc' = "clear"
                                     /\ todo' = Load(RangeOf(field)))
      BY <2>2 DEF Reload, StartLoad
    <3> QED
      BY <1>1, <3>1, RangeType, LoadType DEF PoolInv, PoolTypes
  <2> QED
    BY <1>1, <2>1, <2>2 DEF PoolInv, PoolTypes
<1>4. changes' \in 0 .. MaxChanges
  BY <1>1 DEF PoolInv, PoolTypes
<1>5. PoolTypes'
  BY <1>1, <1>2, <1>3, <1>4 DEF PoolInv, PoolTypes, rings, travel
<1>6. Overdraft' /\ (~broken => Answers')
  BY <1>1 DEF PoolInv, Overdraft, Answers, Taken, rings, travel
<1>7. ~broken => Whole'
  BY <1>1, <1>2, WholeFrame DEF PoolInv, Whole
<1> QED
  BY <1>1, <1>5, <1>6, <1>7 DEF PoolInv

\* res_ip_clear frees what is there, if anything is; before that nothing is broken.
LEMMA ResClearInv == ASSUME PoolInv, ResClear PROVE PoolInv'
<1> DEFINE out == Free \cup Taken
<1>1. UNCHANGED <<links, stuck, travel, todo, poll, loads, granted, regs>>
  BY DEF ResClear
<1>2. CASE /\ used' = used \ out
           /\ apmac' = [n \in Node |-> IF n \in out THEN NoMac ELSE apmac[n]]
           /\ \E scrambled \in BOOLEAN : addr' =
                 [n \in Node |-> IF n \in out /\ scrambled THEN Garbage ELSE addr[n]]
           /\ total' = 0 /\ left' = 0 /\ rpc' = "add"
           /\ broken' = (broken \/ out # {}) /\ UNCHANGED dead
  <2>1. addr' \in [Node -> Word \cup {Garbage}] /\ apmac' \in [Node -> Mac \cup {NoMac}]
    BY <1>2 DEF PoolInv, PoolTypes
  <2>2. broken' \in BOOLEAN
    BY <1>2, Zenon
  <2>3. PoolTypes'
    BY <1>1, <1>2, <2>1, <2>2 DEF PoolInv, PoolTypes, travel, poll
  <2>4. Overdraft'
    BY <1>1, <1>2 DEF PoolInv, PoolTypes, Overdraft, travel
  <2>5. ASSUME ~broken' PROVE Whole' /\ Answers'
    <3>1. ~broken /\ Free = {} /\ Taken = {} /\ used = {}
      BY <1>2, <2>5 DEF PoolInv, Whole
    <3>2. UNCHANGED used /\ Free' = {} /\ Taken' = {} /\ left' = 0 /\ total' = 0
      BY <1>1, <1>2, <3>1 DEF Free, Taken
    <3>3. Whole'
      BY <1>1, <1>2, <3>1, <3>2, FS_EmptySet DEF PoolInv, Whole
    <3>4. Answers'
      BY <1>1, <3>1, <3>2 DEF PoolInv, Answers, travel
    <3> QED
      BY <3>3, <3>4
  <2> QED
    BY <2>3, <2>4, <2>5 DEF PoolInv
<1>3. CASE /\ dead' = "abort" /\ UNCHANGED <<addr, apmac, used, total, left, rpc, broken>>
           /\ ~(/\ Ends(links, Pool) /\ Ends(links, Leased) /\ out \subseteq used
                /\ Free \cap Taken = {})
  <2>1. broken
    <3> SUFFICES ASSUME ~broken PROVE FALSE
      OBVIOUS
    <3> QED
      BY <1>3, WalksEnd DEF PoolInv, Whole, TwoRings
  <2> QED
    BY <1>1, <1>3, <2>1 DEF PoolInv, PoolTypes, Overdraft, travel, poll
<1> QED
  BY <1>2, <1>3 DEF ResClear, Free, Taken

\* A query without a result ends the AC; the pool is as it was.
LEMMA ResNoResultInv == ASSUME PoolInv, ResNoResult PROVE PoolInv'
<1>1. /\ UNCHANGED <<rings, stuck, travel, check, granted, broken, regs>>
      /\ dead' = "null"
  BY DEF ResNoResult
<1>2. PoolTypes' /\ Overdraft' /\ (~broken => Answers')
  BY <1>1 DEF PoolInv, PoolTypes, Overdraft, Answers, Taken, rings, travel, check, poll
<1>3. ~broken => Whole'
  BY <1>1, WholeFrame DEF PoolInv, Whole
<1> QED
  BY <1>1, <1>2, <1>3 DEF PoolInv

\* res_ip_add of an address that no entry has, into memory that no ring goes through.
LEMMA AddWhole ==
    ASSUME PoolInv, ~broken, NEW x \in Word, HasAddr(Pool, x) \cup HasAddr(Leased, x) = {},
           NEW n \in Entry \ used, used' = used \cup {n}, addr' = [addr EXCEPT ![n] = x],
           apmac' = [apmac EXCEPT ![n] = NoMac], links' = list_add_tail(links, n, Pool),
           total' = total + 1, left' = left + 1, UNCHANGED <<stuck, dead, travel, granted>>
    PROVE  Whole' /\ Answers' /\ Free' = Free \cup {n} /\ Taken' = Taken
<1>1. /\ TwoRings(links, Free, Taken) /\ Free \cup Taken = used /\ left = Cardinality(Free)
      /\ total = Cardinality(used) /\ used \subseteq Entry
      /\ \A k \in used : (apmac[k] # NoMac <=> k \in Taken) /\ addr[k] \in Word
      /\ \A j, k \in used : addr[j] = addr[k] => j = k
      /\ ~stuck /\ dead # "abort"
  BY DEF PoolInv, PoolTypes, Whole
<1>2. /\ addr \in [Node -> Word \cup {Garbage}] /\ apmac \in [Node -> Mac \cup {NoMac}]
      /\ n \in Node /\ used \subseteq Node
  BY <1>1 DEF PoolInv, PoolTypes, Node
<1>3. TwoRings(links', Free \cup {n}, Taken)
  BY <1>1, AddTailRings
<1>4. Free' = Free \cup {n} /\ Taken' = Taken
  BY <1>3, TwoRingsWalks DEF Free, Taken
<1>5. left' = Cardinality(Free') /\ total' = Cardinality(used')
  <2>1. IsFiniteSet(Free) /\ IsFiniteSet(used)
    BY <1>1, FS_Subset DEF TwoRings
  <2>2. n \notin Free
    BY <1>1
  <2> QED
    BY <1>1, <1>4, <2>1, <2>2, FS_AddElement
<1>6. \A k \in used : addr[k] # x
  BY <1>1 DEF HasAddr, Free, Taken
<1>7. /\ addr'[n] = x /\ apmac'[n] = NoMac
      /\ \A k \in used : addr'[k] = addr[k] /\ apmac'[k] = apmac[k]
  BY <1>2
<1>8. Whole'
  <2>1. \A k \in used' : (apmac'[k] # NoMac <=> k \in Taken') /\ addr'[k] \in Word
    BY <1>1, <1>4, <1>7
  <2>2. \A j, k \in used' : addr'[j] = addr'[k] => j = k
    BY <1>1, <1>6, <1>7
  <2> QED
    BY <1>1, <1>3, <1>4, <1>5, <2>1, <2>2 DEF Whole
<1>9. Answers'
  BY <1>1, <1>4, <1>7 DEF PoolInv, Answers, travel
<1> QED
  BY <1>4, <1>8, <1>9

\* res_ip_add of the next address: it is there, or a new entry gets it, or none does.
LEMMA ResAddInv == ASSUME PoolInv, ResAdd PROVE PoolInv'
<1> DEFINE x == Head(todo)
<1>1. /\ rpc = "add" /\ todo # << >> /\ todo \in Seq(Word) /\ x \in Word
      /\ UNCHANGED <<dead, travel, granted, broken, regs>>
  BY DEF ResAdd, PoolInv, PoolTypes
<1> HIDE DEF x
<1>2. CASE ResAdded /\ UNCHANGED <<rings, stuck>>
  <2>1. todo' \in Seq(Word) /\ UNCHANGED <<rpc, poll>>
    BY <1>1, <1>2 DEF ResAdded
  <2>2. PoolTypes' /\ Overdraft' /\ (~broken => Answers')
    BY <1>1, <1>2, <2>1 DEF PoolInv, PoolTypes, Overdraft, Answers, Taken, rings, travel, poll
  <2>3. ~broken => Whole'
    BY <1>1, <1>2, WholeFrame DEF PoolInv, Whole
  <2> QED
    BY <1>1, <2>2, <2>3 DEF PoolInv
<1>3. CASE ~(Ends(links, Pool) /\ Ends(links, Leased)) /\ stuck' = TRUE
           /\ UNCHANGED <<rings, check>>
  <2>1. broken
    BY <1>3, WalksEnd
  <2> QED
    BY <1>1, <1>3, <2>1 DEF PoolInv, PoolTypes, Overdraft, rings, travel, check, poll
<1>4. CASE /\ HasAddr(Pool, x) \cup HasAddr(Leased, x) = {}
           /\ \E n \in Entry \ used :
                  /\ used' = used \cup {n}
                  /\ addr' = [addr EXCEPT ![n] = x]
                  /\ apmac' = [apmac EXCEPT ![n] = NoMac]
                  /\ links' = list_add_tail(links, n, Pool)
           /\ total' = total + 1 /\ left' = left + 1
           /\ ResAdded /\ UNCHANGED <<stuck, skipped>>
  <2>1. PICK n \in Entry \ used :
                  /\ used' = used \cup {n}
                  /\ addr' = [addr EXCEPT ![n] = x]
                  /\ apmac' = [apmac EXCEPT ![n] = NoMac]
                  /\ links' = list_add_tail(links, n, Pool)
    BY <1>4
  <2>2. n \in Node /\ todo' \in Seq(Word) /\ UNCHANGED <<rpc, poll>>
    BY <1>1, <1>4 DEF ResAdded, Node
  <2>3. links' \in Memory
    <3>1. links.nxt \in [Node -> Node] /\ links.prv \in [Node -> Node] /\ Pool \in Node
      BY DEF PoolInv, PoolTypes, Memory, Node
    <3> QED
      BY <2>1, <2>2, <3>1 DEF list_add_tail, InsertBetween, Memory
  <2>4. /\ addr' \in [Node -> Word \cup {Garbage}] /\ apmac' \in [Node -> Mac \cup {NoMac}]
        /\ used' \subseteq Entry /\ total' \in Nat /\ left' \in Int
    BY <1>1, <1>4, <2>1, <2>2 DEF PoolInv, PoolTypes
  <2>5. PoolTypes'
    BY <1>1, <1>4, <2>2, <2>3, <2>4 DEF PoolInv, PoolTypes, travel, poll
  <2>6. Overdraft'
    BY <1>1, <1>4 DEF PoolInv, PoolTypes, Overdraft, travel
  <2>7. ~broken => Whole' /\ Answers'
    BY <1>1, <1>4, <2>1, AddWhole
  <2> QED
    BY <1>1, <2>5, <2>6, <2>7 DEF PoolInv
<1> QED
  BY <1>2, <1>3, <1>4 DEF ResAdd, x

\* The last address is in; res_check sleeps.
LEMMA ResDoneInv == ASSUME PoolInv, ResDone PROVE PoolInv'
<1>1. /\ rpc' = "poll"
      /\ UNCHANGED <<rings, stuck, dead, travel, todo, poll, loads, granted, broken, regs>>
  BY DEF ResDone
<1>2. PoolTypes' /\ Overdraft' /\ (~broken => Answers')
  BY <1>1 DEF PoolInv, PoolTypes, Overdraft, Answers, Taken, rings, travel, poll
<1>3. ~broken => Whole'
  BY <1>1, WholeFrame DEF PoolInv, Whole
<1> QED
  BY <1>1, <1>2, <1>3 DEF PoolInv

LEMMA NextPoolInv == PoolInv /\ [Next]_vars => PoolInv'
<1> SUFFICES ASSUME PoolInv, [Next]_vars PROVE PoolInv'
  OBVIOUS
<1>1. ASSUME NEW m \in Mac, NEW x \in Asked \cup {NoAddr}, RegConflict(m, x) PROVE PoolInv'
  BY <1>1, RegConflictInv
<1>2. CASE RegCheck
  BY <1>2, RegCheckInv
<1>3. CASE AllocNamed
  BY <1>3, AllocNamedInv
<1>4. CASE AllocFirst
  BY <1>4, AllocFirstInv
<1>5. CASE RegReply
  BY <1>5, RegReplyInv
<1>6. ASSUME NEW r \in Table \cup {NoRow}, ResPoll(r) PROVE PoolInv'
  BY <1>6, ResPollInv
<1>7. CASE ResNoResult
  BY <1>7, ResNoResultInv
<1>8. CASE ResClear
  BY <1>8, ResClearInv
<1>9. CASE ResAdd
  BY <1>9, ResAddInv
<1>10. CASE ResDone
  BY <1>10, ResDoneInv
<1>11. CASE UNCHANGED vars
  <2>1. PoolTypes' /\ Overdraft' /\ (~broken => Answers')
    BY <1>11 DEF vars, PoolInv, PoolTypes, Overdraft, Answers, Taken, rings, travel, check, poll
  <2>2. ~broken => Whole'
    BY <1>11, WholeFrame DEF vars, PoolInv, Whole
  <2> QED
    BY <1>11, <2>1, <2>2 DEF vars, PoolInv
<1> QED
  BY <1>1, <1>2, <1>3, <1>4, <1>5, <1>6, <1>7, <1>8, <1>9, <1>10, <1>11 DEF Next

\* The pool of ac/resource.c, whatever its two threads do, keeps its invariant.
THEOREM Invariance == Spec => []PoolInv
<1> QED
  BY InitPoolInv, NextPoolInv, PTL DEF Spec

\* Until the pool is overdrawn or replaced its rings are rings, split the entries in use
\* between them and agree with the counters, no address is there twice, and nobody is
\* stuck on the lock (ac/resource.c:48-207).
THEOREM PoolTheorem == Spec => []PoolSound
<1>1. PoolInv => PoolSound
  <2> SUFFICES ASSUME Whole PROVE PoolSound
    BY DEF PoolInv, PoolSound
  <2>1. TwoRings(links, Free, Taken) /\ Free \cup Taken = used
    BY DEF Whole
  <2>2. Ends(links, Pool) /\ Ends(links, Leased) /\ Sound(links) /\ Free \cap Taken = {}
    BY <2>1, TwoRingsWalks DEF TwoRings
  <2> QED
    BY <2>1, <2>2 DEF Whole, PoolSound, Free, Taken
<1> QED
  BY <1>1, Invariance, PTL

-----------------------------------------------------------------------------
(* The rings implement the lease table.                                    *)

\* Holder, of a set of leased entries with the addresses a and the APs m.
HolderIn(S, a, m, x) ==
    LET held == {n \in S : a[n] = x}
    IN  IF held = {} THEN NoMac ELSE m[CHOOSE n \in held : TRUE]

\* An address is with the AP of its leased entry, or with none.
LEMMA HolderIs ==
    ASSUME NEW S, NEW a, NEW m, NEW x, \A n, k \in S : a[n] = a[k] => n = k
    PROVE  /\ \A n \in S : a[n] = x => HolderIn(S, a, m, x) = m[n]
           /\ (\A n \in S : a[n] # x) => HolderIn(S, a, m, x) = NoMac
<1> DEFINE held == {n \in S : a[n] = x}
<1>1. HolderIn(S, a, m, x) = IF held = {} THEN NoMac ELSE m[CHOOSE n \in held : TRUE]
  BY DEF HolderIn
<1>2. \A n, k \in held : n = k
  OBVIOUS
<1>3. ASSUME NEW n \in held PROVE HolderIn(S, a, m, x) = m[n]
  <2>1. (CHOOSE k \in held : TRUE) \in held
    BY <1>3
  <2>2. n = CHOOSE k \in held : TRUE
    BY <1>2, <2>1
  <2> HIDE DEF held
  <2> QED
    BY <1>1, <1>3, <2>2
<1> QED
  BY <1>1, <1>3

LEMMA Holders ==
    /\ \A x : Holder(x) = HolderIn(Taken, addr, apmac, x)
    /\ \A x : Holder(x)' = HolderIn(Taken', addr', apmac', x)
  BY DEF Holder, HolderIn, Taken

\* The table is the same after a step that leaves the rings alone.
LEMMA SameTable == ASSUME UNCHANGED <<rings, broken>> PROVE UNCHANGED LT!vars
  BY DEF LT!vars, RangeMap, LeaseMap, Holder, rings

\* A lease is made on a free address, if the entry has one.
LEMMA TakeImplements ==
    ASSUME PoolInv, ~broken, UNCHANGED <<broken, stuck>>, tpc = "alloc", NEW n \in Free, Take(n)
    PROVE  [LT!Next]_LT!vars
<1>0. PICK x : x = addr[n]
  OBVIOUS
<1>1. /\ Free \cup Taken = used /\ Free \cap Taken = {} /\ used \subseteq Node
      /\ \A j, k \in used : addr[j] = addr[k] => j = k
      /\ x \in Word /\ n \in used /\ mac \in Mac
      /\ apmac \in [Node -> Mac \cup {NoMac}]
  BY <1>0 DEF PoolInv, PoolTypes, Whole, TwoRings, Node
<1>2. Taken' = Taken \cup {n}
  BY TakeWhole
<1>3. apmac' = [apmac EXCEPT ![n] = mac] /\ UNCHANGED <<addr, used>>
  BY DEF Take
<1>4. RangeMap' = RangeMap
  BY <1>3 DEF RangeMap
<1>5. apmac'[n] = mac /\ \A k \in Taken : apmac'[k] = apmac[k] /\ k # n
  BY <1>1, <1>3
<1>6. \A j, k \in Taken : addr[j] = addr[k] => j = k
  BY <1>1
<1>7. \A j, k \in Taken' : addr'[j] = addr'[k] => j = k
  BY <1>1, <1>2, <1>3
<1>8. Holder(x) = NoMac /\ Holder(x)' = mac
  <2>1. \A k \in Taken : addr[k] # x
    BY <1>0, <1>1, <1>5
  <2>2. Holder(x) = NoMac
    BY <1>6, <2>1, HolderIs, Holders
  <2>3. n \in Taken' /\ addr'[n] = x
    BY <1>0, <1>2, <1>3
  <2>4. Holder(x)' = apmac'[n]
    BY <1>7, <2>3, HolderIs, Holders
  <2> QED
    BY <1>5, <2>2, <2>4
<1>9. ASSUME NEW y, y # x PROVE Holder(y)' = Holder(y)
  <2>1. CASE \E k \in Taken : addr[k] = y
    <3>1. PICK k \in Taken : addr[k] = y
      BY <2>1
    <3>2. k \in Taken' /\ addr'[k] = y /\ apmac'[k] = apmac[k]
      BY <1>2, <1>3, <1>5, <3>1
    <3>3. Holder(y) = apmac[k]
      BY <1>6, <3>1, HolderIs, Holders
    <3>4. Holder(y)' = apmac'[k]
      BY <1>7, <3>2, HolderIs, Holders
    <3> QED
      BY <3>2, <3>3, <3>4
  <2>2. CASE \A k \in Taken : addr[k] # y
    <3>1. \A k \in Taken' : addr'[k] # y
      BY <1>0, <1>2, <1>3, <1>9, <2>2
    <3>2. Holder(y) = NoMac
      BY <1>6, <2>2, HolderIs, Holders
    <3>3. Holder(y)' = NoMac
      BY <1>7, <3>1, HolderIs, Holders
    <3> QED
      BY <3>2, <3>3
  <2> QED
    BY <2>1, <2>2
<1>10. CASE x = NoAddr
  <2>1. LeaseMap' = LeaseMap
    BY <1>9, <1>10 DEF LeaseMap, Addr
  <2> QED
    BY <1>4, <2>1 DEF LT!vars
<1>11. CASE x # NoAddr
  <2>1. x \in Addr /\ x \in RangeMap
    BY <1>0, <1>1, <1>11 DEF Addr, RangeMap
  <2>2. LeaseMap[x] = NoMac
    BY <1>8, <2>1 DEF LeaseMap
  <2>3. LeaseMap' = [LeaseMap EXCEPT ![x] = mac]
    <3>1. LeaseMap' = [y \in Addr |-> Holder(y)']
      BY DEF LeaseMap
    <3>2. ASSUME NEW y \in Addr PROVE Holder(y)' = IF y = x THEN mac ELSE Holder(y)
      <4>1. CASE y = x
        BY <1>8, <4>1
      <4>2. CASE y # x
        BY <1>9, <4>2
      <4> QED
        BY <4>1, <4>2
    <3> QED
      BY <2>1, <3>1, <3>2 DEF LeaseMap
  <2>4. LT!Alloc(x, mac)
    BY <1>4, <2>1, <2>2, <2>3 DEF LT!Alloc
  <2> QED
    BY <1>1, <2>1, <2>4 DEF LT!Next
<1> QED
  BY <1>10, <1>11

\* An address comes in free.
LEMMA AddImplements ==
    ASSUME PoolInv, ~broken, ~broken', ResAdd PROVE [LT!Next]_LT!vars
<1> DEFINE x == Head(todo)
<1>1. x \in Word /\ UNCHANGED <<dead, travel, granted, broken>>
  BY DEF ResAdd, PoolInv, PoolTypes
<1> HIDE DEF x
<1>2. CASE UNCHANGED rings
  BY <1>1, <1>2, SameTable
<1>3. CASE /\ HasAddr(Pool, x) \cup HasAddr(Leased, x) = {}
           /\ \E n \in Entry \ used :
                  /\ used' = used \cup {n}
                  /\ addr' = [addr EXCEPT ![n] = x]
                  /\ apmac' = [apmac EXCEPT ![n] = NoMac]
                  /\ links' = list_add_tail(links, n, Pool)
           /\ total' = total + 1 /\ left' = left + 1
           /\ UNCHANGED stuck
  <2>1. PICK n \in Entry \ used :
                  /\ used' = used \cup {n}
                  /\ addr' = [addr EXCEPT ![n] = x]
                  /\ apmac' = [apmac EXCEPT ![n] = NoMac]
                  /\ links' = list_add_tail(links, n, Pool)
    BY <1>3
  <2>2. Taken' = Taken
    BY <1>1, <1>3, <2>1, AddWhole
  <2>3. /\ Taken \subseteq used /\ used = Free \cup Taken
        /\ addr \in [Node -> Word \cup {Garbage}] /\ used \subseteq Node /\ n \in Node
        /\ apmac \in [Node -> Mac \cup {NoMac}]
        /\ \A j, k \in Taken : addr[j] = addr[k] => j = k
    BY DEF PoolInv, PoolTypes, Whole, Node
  <2>4. addr'[n] = x /\ \A k \in used : addr'[k] = addr[k] /\ apmac'[k] = apmac[k]
    BY <2>1, <2>3
  <2>5. \A y : Holder(y)' = Holder(y)
    <3>1. \A k \in Taken : addr'[k] = addr[k] /\ apmac'[k] = apmac[k]
      BY <2>3, <2>4
    <3>2. \A j, k \in Taken : addr'[j] = addr'[k] => j = k
      BY <2>3, <3>1
    <3>3. ASSUME NEW y PROVE HolderIn(Taken, addr', apmac', y) = HolderIn(Taken, addr, apmac, y)
      <4>1. CASE \E k \in Taken : addr[k] = y
        <5>1. PICK k \in Taken : addr[k] = y
          BY <4>1
        <5>2. HolderIn(Taken, addr, apmac, y) = apmac[k]
          BY <2>3, <5>1, HolderIs
        <5>3. HolderIn(Taken, addr', apmac', y) = apmac'[k]
          BY <3>1, <3>2, <5>1, HolderIs
        <5> QED
          BY <3>1, <5>2, <5>3
      <4>2. CASE \A k \in Taken : addr[k] # y
        <5>1. HolderIn(Taken, addr, apmac, y) = NoMac
          BY <2>3, <4>2, HolderIs
        <5>2. HolderIn(Taken, addr', apmac', y) = NoMac
          BY <3>1, <3>2, <4>2, HolderIs
        <5> QED
          BY <5>1, <5>2
      <4> QED
        BY <4>1, <4>2
    <3> QED
      BY <2>2, <3>3, Holders
  <2>6. LeaseMap' = LeaseMap
    BY <2>5 DEF LeaseMap
  <2>7. {addr'[k] : k \in used'} = {addr[k] : k \in used} \cup {x}
    BY <2>1, <2>4
  <2>8. CASE x = NoAddr
    <3>1. RangeMap' = RangeMap
      BY <2>7, <2>8 DEF RangeMap, Addr
    <3> QED
      BY <1>1, <2>6, <3>1 DEF LT!vars
  <2>9. CASE x # NoAddr
    <3>1. x \in Addr
      BY <1>1, <2>9 DEF Addr
    <3>2. x \notin RangeMap
      BY <1>3, <2>3 DEF RangeMap, HasAddr, Free, Taken
    <3>3. RangeMap' = RangeMap \cup {x}
      BY <2>7, <3>1 DEF RangeMap
    <3>4. LT!Add(x)
      BY <1>1, <2>6, <3>2, <3>3 DEF LT!Add
    <3> QED
      BY <3>1, <3>4 DEF LT!Next
  <2> QED
    BY <2>8, <2>9
<1> QED
  BY <1>2, <1>3 DEF ResAdd, x

\* Nothing is cleared unless the pool is empty, or nothing is promised any more.
LEMMA ClearImplements ==
    ASSUME PoolInv, ~broken, ~broken', ResClear PROVE [LT!Next]_LT!vars
<1>1. broken' = broken
  <2>1. broken \in BOOLEAN /\ broken' \in BOOLEAN
    BY ResClearInv DEF PoolInv, PoolTypes
  <2> QED
    BY <2>1
<1>2. CASE /\ used' = used \ (Free \cup Taken)
           /\ broken' = (broken \/ Free \cup Taken # {})
  <2>1. Free = {} /\ Taken = {} /\ used = {}
    BY <1>2 DEF PoolInv, Whole
  <2>2. UNCHANGED used /\ Taken' = {}
    BY <1>2, <2>1 DEF ResClear, Taken
  <2>3. RangeMap' = RangeMap
    BY <2>1, <2>2 DEF RangeMap
  <2>4. \A x : Holder(x) = NoMac /\ Holder(x)' = NoMac
    BY <2>1, <2>2, HolderIs, Holders
  <2>5. LeaseMap' = LeaseMap
    BY <2>4 DEF LeaseMap
  <2> QED
    BY <1>1, <2>3, <2>5 DEF LT!vars
<1>3. CASE UNCHANGED <<addr, apmac, used, links>>
  <2>1. RangeMap' = RangeMap /\ LeaseMap' = LeaseMap
    BY <1>3 DEF RangeMap, LeaseMap, Holder
  <2> QED
    BY <1>1, <2>1 DEF LT!vars
<1> QED
  BY <1>2, <1>3 DEF ResClear, Free, Taken

LEMMA StepImplements == PoolInv /\ PoolInv' /\ [Next]_vars => [LT!Next]_LT!vars
<1> SUFFICES ASSUME PoolInv, PoolInv', [Next]_vars PROVE [LT!Next]_LT!vars
  OBVIOUS
<1>1. CASE broken'
  BY <1>1 DEF LT!Next, LT!Break
<1>2. CASE UNCHANGED <<rings, broken>>
  BY <1>2, SameTable
<1>3. CASE ~broken' /\ AllocNamed
  <2>1. CASE \E n \in HasAddr(Pool, want) : Take(n) /\ UNCHANGED <<stuck, broken>>
    <3>1. PICK n \in HasAddr(Pool, want) : Take(n) /\ UNCHANGED <<stuck, broken>>
      BY <2>1
    <3>2. n \in Free
      BY DEF HasAddr, Free
    <3> QED
      BY <1>3, <3>1, <3>2, TakeImplements DEF AllocNamed
  <2>2. CASE UNCHANGED <<rings, broken>>
    BY <2>2, <1>2
  <2> QED
    BY <1>2, <1>3, <2>1, <2>2 DEF AllocNamed, Hangs
<1>4. CASE ~broken' /\ AllocFirst
  <2>1. ~list_empty(links, Pool) /\ UNCHANGED <<broken, stuck>>
    BY <1>4 DEF AllocFirst
  <2>2. ~broken /\ TwoRings(links, Free, Taken)
    BY <1>4, <2>1 DEF PoolInv, Whole
  <2> DEFINE n == list_first_entry(links, Pool)
  <2>3. n \in Free
    BY <2>1, <2>2, EmptyRing DEF TwoRings
  <2>4. Take(n) /\ tpc = "alloc"
    BY <1>4 DEF AllocFirst
  <2> HIDE DEF n
  <2> QED
    BY <1>4, <2>1, <2>2, <2>3, <2>4, TakeImplements
<1>5. CASE ~broken' /\ ResClear
  <2>1. ~broken
    BY <1>5, Zenon DEF ResClear
  <2> QED
    BY <1>5, <2>1, ClearImplements
<1>6. CASE ~broken' /\ ResAdd
  <2>1. ~broken
    BY <1>6 DEF ResAdd
  <2> QED
    BY <1>6, <2>1, AddImplements
<1>7. ASSUME NEW m \in Mac, NEW x \in Asked \cup {NoAddr}, RegConflict(m, x)
      PROVE  UNCHANGED <<rings, broken>>
  BY <1>7 DEF RegConflict, Hangs
<1>8. RegCheck \/ RegReply => UNCHANGED <<rings, broken>>
  BY DEF RegCheck, RegReply
<1>9. ASSUME NEW r \in Table \cup {NoRow}, ResPoll(r) PROVE UNCHANGED <<rings, broken>>
  BY <1>9 DEF ResPoll
<1>10. ResNoResult \/ ResDone \/ UNCHANGED vars => UNCHANGED <<rings, broken>>
  BY DEF ResNoResult, ResDone, vars
<1> QED
  BY <1>1, <1>2, <1>3, <1>4, <1>5, <1>6, <1>7, <1>8, <1>9, <1>10 DEF Next

\* Until the pool is overdrawn or replaced, the rings are a table of addresses in which a
\* lease is made on a free address and stays (ac/resource.c:27-75, 111-154).
THEOREM TableTheorem == Spec => ImplementsLeaseTable
<1>1. Init => LT!Init
  <2> SUFFICES ASSUME Init PROVE LT!Init
    OBVIOUS
  <2>1. used = {} /\ broken = FALSE /\ Whole
    BY InitPoolInv DEF Init, PoolInv
  <2>2. Taken = {}
    BY <2>1 DEF Whole
  <2>3. RangeMap = {}
    BY <2>1 DEF RangeMap
  <2>4. \A x : Holder(x) = NoMac
    BY <2>2, HolderIs, Holders
  <2> QED
    BY <2>1, <2>3, <2>4 DEF LT!Init, LT!NoLease, LeaseMap
<1> QED
  BY <1>1, Invariance, StepImplements, PTL DEF Spec, ImplementsLeaseTable, LT!Spec

-----------------------------------------------------------------------------
(* What the pool holds is what is configured.                              *)

Elems(s) == {s[i] : i \in DOMAIN s}
Once(s) == \A i, j \in DOMAIN s : s[i] = s[j] => i = j
Held == {addr[n] : n \in used}

\* Where res_check is in loading a range, which resource.bak_* then is; a range that is
\* refused leaves the pool that was there. An address is added, left out or still to come.
Adding ==
    /\ Held \cup Elems(todo) \cup skipped = Loaded(RangeOf(loaded))
    /\ skipped \cap (Held \cup Elems(todo)) = {} /\ Once(todo)
Loading ==
    /\ skipped \subseteq Word
    /\ loaded = Blank => used = {}
    /\ loaded # Blank => ~ResourceIpError(loaded) /\ ~Refused(RangeOf(loaded))
    /\ bak # Blank => ~ResourceIpError(bak)
    /\ bak # loaded => bak # Blank /\ Refused(RangeOf(bak))
    /\ rpc # "poll" => loaded # Blank /\ loaded = bak
    /\ ~broken =>
        /\ rpc = "clear" => todo = Load(RangeOf(loaded)) /\ skipped = {}
        /\ rpc = "add" => Adding
        /\ rpc = "poll" /\ loaded # Blank => Held = Loaded(RangeOf(loaded)) \ skipped

\* The addresses to add are different: there are fewer than there are addresses.
LEMMA LoadOnce ==
    ASSUME NEW c, c.start \in Word, c.end \in Word, c.hosts \in Nat \ {0}
    PROVE  Once(Load(c))
<1> DEFINE N == 2 ^ W
           n == Count(c) - SkipNet(c) - SkipBroadcast(c)
           a == c.start + SkipNet(c) - 1
<1>1. c.start \in Nat /\ c.end \in Nat /\ N \in Nat \ {0}
  BY DEF Word
<1>2. Count(c) \in Int /\ Count(c) < N
  <2>1. ASSUME NEW m \in Int PROVE ToInt(m) \in Int /\ ToInt(m) < N
    <3>1. m % N \in 0 .. N - 1
      BY <1>1
    <3> QED
      BY <1>1, <3>1 DEF ToInt
  <2>2. (c.end % c.hosts) - (c.start % c.hosts) + 1 \in Int
    BY <1>1
  <2> QED
    BY <2>1, <2>2 DEF Count
<1>3. n \in Int /\ n < N /\ a \in Int
  BY <1>1, <1>2 DEF SkipNet, SkipBroadcast
<1>4. Load(c) = [i \in 1 .. n |-> (a + i) % N]
  <2>1. \A i \in 1 .. n : c.start + SkipNet(c) + i - 1 = a + i
    BY <1>1, <1>3 DEF SkipNet
  <2> QED
    BY <2>1 DEF Load
<1> HIDE DEF N, n, a
<1>5. ASSUME NEW i \in 1 .. n, NEW j \in 1 .. n, (a + i) % N = (a + j) % N PROVE i = j
  <2> DEFINE q == (a + i) \div N
             p == (a + j) \div N
             r == (a + i) % N
  <2>1. a + i = N * q + r /\ a + j = N * p + r /\ q \in Int /\ p \in Int /\ r \in Int
    BY <1>1, <1>3, <1>5
  <2> HIDE DEF q, p, r
  <2>2. i - j = N * (q - p) /\ i - j < N /\ j - i < N
    BY <1>1, <1>3, <2>1
  <2>3. q - p < 1
    BY <1>1, <2>1, <2>2
  <2>4. p - q < 1
    BY <1>1, <2>1, <2>2
  <2>5. q = p
    BY <2>1, <2>3, <2>4
  <2> QED
    BY <1>1, <2>1, <2>2, <2>5
<1> QED
  BY <1>4, <1>5 DEF Once

\* res_ip_reload takes one address after the other.
LEMMA HeadTail ==
    ASSUME NEW S, NEW s \in Seq(S), s # << >>
    PROVE  /\ Head(s) \in S /\ Elems(s) = {Head(s)} \cup Elems(Tail(s))
           /\ Once(s) => Once(Tail(s)) /\ Head(s) \notin Elems(Tail(s))
<1>1. Len(s) \in Nat /\ Len(s) # 0 /\ DOMAIN s = 1 .. Len(s) /\ Head(s) = s[1]
  OBVIOUS
<1>2. /\ DOMAIN Tail(s) = 1 .. Len(s) - 1
      /\ \A i \in 1 .. Len(s) - 1 : Tail(s)[i] = s[i + 1]
  OBVIOUS
<1>3. ASSUME NEW i \in DOMAIN s PROVE s[i] \in {Head(s)} \cup Elems(Tail(s))
  <2>1. CASE i = 1
    BY <1>1, <2>1
  <2>2. CASE i # 1
    <3>1. i - 1 \in 1 .. Len(s) - 1 /\ (i - 1) + 1 = i
      BY <1>1, <2>2
    <3>2. Tail(s)[i - 1] = s[i]
      BY <1>2, <3>1
    <3> QED
      BY <1>2, <3>1, <3>2 DEF Elems
  <2> QED
    BY <2>1, <2>2
<1>4. ASSUME NEW i \in DOMAIN Tail(s) PROVE Tail(s)[i] \in Elems(s)
  <2>1. i + 1 \in DOMAIN s /\ Tail(s)[i] = s[i + 1]
    BY <1>1, <1>2
  <2> QED
    BY <2>1 DEF Elems
<1>5. Head(s) \in Elems(s) /\ Head(s) \in S
  <2>1. 1 \in DOMAIN s
    BY <1>1
  <2> QED
    BY <1>1, <2>1 DEF Elems
<1>6. Elems(s) \subseteq {Head(s)} \cup Elems(Tail(s))
  BY <1>3 DEF Elems
<1>7. Elems(Tail(s)) \subseteq Elems(s)
  BY <1>4 DEF Elems
<1>8. ASSUME Once(s) PROVE Once(Tail(s)) /\ Head(s) \notin Elems(Tail(s))
  <2>1. \A i \in 1 .. Len(s) - 1 : i + 1 \in 1 .. Len(s) /\ 1 \in 1 .. Len(s) /\ i + 1 # 1
    BY <1>1
  <2>2. \A i, j \in 1 .. Len(s) - 1 : s[i + 1] = s[j + 1] => i + 1 = j + 1
    BY <1>1, <1>8, <2>1, Zenon DEF Once
  <2>3. Once(Tail(s))
    BY <1>1, <1>2, <2>2 DEF Once
  <2>4. \A i \in 1 .. Len(s) - 1 : s[i + 1] # s[1]
    BY <1>1, <1>8, <2>1, Zenon DEF Once
  <2> QED
    BY <1>1, <1>2, <2>3, <2>4 DEF Elems
<1> QED
  BY <1>5, <1>6, <1>7, <1>8

LEMMA LoadingFrame ==
    ASSUME Loading, UNCHANGED <<addr, used, bak, rpc, todo, loads, broken>> PROVE Loading'
  BY DEF Loading, Adding, Held, loads

LEMMA InitLoading == Init => Loading
  BY DEF Init, Loading

\* No address has no characters.
LEMMA BlankIsNone == ResourceIpError(Blank)
<1>1. "ip_mask" \in json_attrs
  BY DEF json_attrs
<1> QED
  BY <1>1 DEF ResourceIpError, Address, Blank

\* The poll that finds a new range is the one that loads it.
LEMMA ResPollLoading == ASSUME Loading, NEW r, ResPoll(r) PROVE Loading'
<1>1. rpc = "poll" /\ UNCHANGED <<addr, used, broken>>
  BY DEF ResPoll, rings
<1>2. UNCHANGED <<rpc, bak, todo, loads>> \/ \E field : Reload(field)
  BY DEF ResPoll
<1>3. CASE UNCHANGED <<rpc, bak, todo, loads>>
  BY <1>1, <1>3, LoadingFrame
<1>4. ASSUME NEW field, Reload(field), ~UNCHANGED <<rpc, bak, todo, loads>> PROVE Loading'
  <2>1. /\ ~ResourceIpError(field) /\ bak' = field
        /\ IF Refused(RangeOf(field)) THEN UNCHANGED <<rpc, todo, loads>> ELSE StartLoad(field)
    BY <1>4 DEF Reload
  <2>2. field # Blank
    BY <2>1, BlankIsNone
  <2>3. CASE Refused(RangeOf(field))
    <3>1. UNCHANGED <<loaded, skipped>>
      BY <2>1, <2>3 DEF loads
    <3>2. bak' # loaded' => bak' # Blank /\ Refused(RangeOf(bak'))
      BY <2>1, <2>2, <2>3
    <3> QED
      BY <1>1, <2>1, <2>2, <2>3, <3>1, <3>2 DEF Loading, Held
  <2>4. CASE ~Refused(RangeOf(field))
    <3>1. /\ rpc' = "clear" /\ todo' = Load(RangeOf(field))
          /\ loaded' = field /\ skipped' = {}
      BY <2>1, <2>4 DEF StartLoad
    <3> QED
      BY <1>1, <2>1, <2>2, <2>4, <3>1 DEF Loading
  <2> QED
    BY <2>3, <2>4
<1> QED
  BY <1>2, <1>3, <1>4

\* What is cleared without breaking the pool is an empty pool.
LEMMA ResClearLoading == ASSUME PoolInv, Loading, ResClear PROVE Loading'
<1>1. UNCHANGED <<todo, bak, loaded, skipped>> /\ rpc = "clear"
  BY DEF ResClear, poll, loads
<1>2. CASE /\ used' = used \ (Free \cup Taken) /\ rpc' = "add"
           /\ broken' = (broken \/ Free \cup Taken # {})
  <2>1. ASSUME ~broken' PROVE Held' = {} /\ ~broken
    <3>1. ~broken /\ Free = {} /\ Taken = {}
      BY <1>2, <2>1, Zenon
    <3> QED
      BY <1>2, <3>1 DEF Held, PoolInv, Whole
  <2>2. ASSUME ~broken' PROVE Adding'
    <3>1. Held' = {} /\ skipped' = {} /\ todo' = Load(RangeOf(loaded')) /\ ~broken
      BY <1>1, <2>1, <2>2 DEF Loading
    <3>2. Once(todo')
      <4> DEFINE c == RangeOf(loaded)
      <4>1. c.start \in Word /\ c.end \in Word /\ c.hosts \in Nat \ {0}
        BY <1>1, RangeType DEF Loading
      <4> HIDE DEF c
      <4>2. Once(Load(c))
        BY <4>1, LoadOnce
      <4> QED
        BY <1>1, <3>1, <4>2 DEF c
    <3> QED
      BY <3>1, <3>2 DEF Adding, Loaded, Elems
  <2>3. loaded' = Blank => used' = {}
    BY <1>1, <1>2 DEF Loading
  <2> QED
    BY <1>1, <1>2, <2>2, <2>3 DEF Loading
<1>3. CASE UNCHANGED <<addr, used, rpc, broken>>
  BY <1>1, <1>3, LoadingFrame DEF loads
<1> QED
  BY <1>2, <1>3 DEF ResClear, Free, Taken

\* An address that is there already need not be added; one that is left out stays out.
LEMMA ResAddLoading == ASSUME PoolInv, Loading, ResAdd PROVE Loading'
<1> DEFINE x == Head(todo)
           rest == Tail(todo)
<1>1. /\ rpc = "add" /\ UNCHANGED broken
      /\ x \in Word /\ Elems(todo) = {x} \cup Elems(rest)
      /\ Once(todo) => Once(rest) /\ x \notin Elems(rest)
  <2>1. todo \in Seq(Word) /\ todo # << >> /\ rpc = "add" /\ UNCHANGED broken
    BY DEF ResAdd, PoolInv, PoolTypes
  <2> QED
    BY <2>1, HeadTail
<1> HIDE DEF x, rest
<1>2. CASE UNCHANGED <<rings, check>>
  BY <1>1, <1>2, LoadingFrame DEF rings, check, poll
<1>3. ASSUME ResAdded, skipped' \subseteq Word,
             ~broken => \/ Held' = Held \cup {x} /\ UNCHANGED skipped
                        \/ /\ x \notin Held /\ Held' = Held
                           /\ skipped' = skipped \cup {x}
      PROVE  Loading'
  <2>1. todo' = rest /\ UNCHANGED <<rpc, bak, loaded>>
    BY <1>3 DEF ResAdded, poll, rest
  <2>2. ASSUME ~broken PROVE Adding'
    <3>1. /\ Held \cup Elems(todo) \cup skipped = Loaded(RangeOf(loaded))
          /\ skipped \cap (Held \cup Elems(todo)) = {} /\ Once(todo)
      BY <1>1, <2>2 DEF Loading, Adding
    <3>2. CASE Held' = Held \cup {x} /\ UNCHANGED skipped
      <4>1. Held' \cup Elems(todo') \cup skipped' = Loaded(RangeOf(loaded'))
        BY <1>1, <2>1, <3>1, <3>2
      <4>2. skipped' \cap (Held' \cup Elems(todo')) = {} /\ Once(todo')
        BY <1>1, <2>1, <3>1, <3>2
      <4> QED
        BY <4>1, <4>2 DEF Adding
    <3>3. CASE x \notin Held /\ Held' = Held /\ skipped' = skipped \cup {x}
      <4>1. Held' \cup Elems(todo') \cup skipped' = Loaded(RangeOf(loaded'))
        BY <1>1, <2>1, <3>1, <3>3
      <4>2. skipped' \cap (Held' \cup Elems(todo')) = {} /\ Once(todo')
        BY <1>1, <2>1, <3>1, <3>3
      <4> QED
        BY <4>1, <4>2 DEF Adding
    <3> QED
      BY <1>3, <2>2, <3>2, <3>3
  <2>3. loaded # Blank
    BY <1>1 DEF Loading
  <2> QED
    BY <1>1, <1>3, <2>1, <2>2, <2>3 DEF Loading
<1>4. CASE /\ HasAddr(Pool, x) \cup HasAddr(Leased, x) # {}
           /\ ResAdded /\ UNCHANGED <<rings, skipped>>
  <2>1. ~broken => x \in Held
    BY <1>4 DEF HasAddr, PoolInv, Whole, Free, Taken, Held
  <2>2. Held' = Held
    BY <1>4 DEF rings, Held
  <2> QED
    BY <1>3, <1>4, <2>1, <2>2 DEF Loading
<1>5. CASE /\ \E n \in Entry \ used : used' = used \cup {n} /\ addr' = [addr EXCEPT ![n] = x]
           /\ ResAdded /\ UNCHANGED skipped
  <2>1. PICK n \in Entry \ used : used' = used \cup {n} /\ addr' = [addr EXCEPT ![n] = x]
    BY <1>5
  <2>2. addr \in [Node -> Word \cup {Garbage}] /\ n \in Node /\ used \subseteq Node
    BY DEF PoolInv, PoolTypes, Node
  <2>3. addr'[n] = x /\ \A k \in used : addr'[k] = addr[k]
    BY <2>1, <2>2
  <2>4. Held' = Held \cup {x}
    BY <2>1, <2>3 DEF Held
  <2> QED
    BY <1>3, <1>5, <2>4 DEF Loading
<1>6. CASE /\ HasAddr(Pool, x) \cup HasAddr(Leased, x) = {}
           /\ skipped' = skipped \cup {x} /\ ResAdded /\ UNCHANGED rings
  <2>1. ~broken => x \notin Held
    BY <1>6 DEF HasAddr, PoolInv, Whole, Free, Taken, Held
  <2>2. Held' = Held
    BY <1>6 DEF rings, Held
  <2>3. skipped' \subseteq Word
    BY <1>1, <1>6 DEF Loading
  <2> QED
    BY <1>3, <1>6, <2>1, <2>2, <2>3
<1> QED
  BY <1>2, <1>4, <1>5, <1>6 DEF ResAdd, x

\* Only res_check adds, frees and configures.
LEMMA Loaders ==
    ASSUME [Next]_vars
    PROVE  \/ /\ UNCHANGED <<addr, used, bak, rpc, todo, loads>>
              /\ UNCHANGED broken \/ broken'
           \/ \E r \in Table \cup {NoRow} : ResPoll(r)
           \/ ResClear \/ ResAdd \/ ResDone
<1> DEFINE Frame == /\ UNCHANGED <<addr, used, bak, rpc, todo, loads>>
                    /\ UNCHANGED broken \/ broken'
<1>1. ASSUME NEW m \in Mac, NEW x \in Asked \cup {NoAddr}, RegConflict(m, x) PROVE Frame
  BY <1>1 DEF RegConflict, Hangs, rings, check, poll
<1>2. CASE RegCheck
  BY <1>2 DEF RegCheck, rings, check, poll
<1>3. CASE AllocNamed
  BY <1>3 DEF AllocNamed, Take, Hangs, rings, check, poll
<1>4. CASE AllocFirst
  <2>1. UNCHANGED broken \/ broken'
    BY <1>4 DEF AllocFirst
  <2> QED
    BY <1>4, <2>1 DEF AllocFirst, Take, check, poll
<1>5. CASE RegReply
  BY <1>5 DEF RegReply, rings, check, poll
<1>6. CASE ResNoResult
  BY <1>6 DEF ResNoResult, rings, check, poll
<1>7. CASE UNCHANGED vars
  BY <1>7 DEF vars, rings, check, poll
<1> QED
  BY <1>1, <1>2, <1>3, <1>4, <1>5, <1>6, <1>7 DEF Next

LEMMA NextLoading == PoolInv /\ Loading /\ [Next]_vars => Loading'
<1> SUFFICES ASSUME PoolInv, Loading, [Next]_vars PROVE Loading'
  OBVIOUS
<1>1. CASE UNCHANGED <<addr, used, bak, rpc, todo, loads>> /\ (UNCHANGED broken \/ broken')
  BY <1>1 DEF Loading, Adding, Held, loads
<1>2. ASSUME NEW r \in Table \cup {NoRow}, ResPoll(r) PROVE Loading'
  BY <1>2, ResPollLoading
<1>3. CASE ResDone
  <2>1. /\ rpc = "add" /\ todo = << >> /\ rpc' = "poll"
        /\ UNCHANGED <<addr, used, bak, todo, broken, loaded, skipped>>
    BY <1>3 DEF ResDone, rings, poll, loads
  <2>2. Elems(todo) = {} /\ Held' = Held
    BY <2>1 DEF Elems, Held
  <2>3. ~broken' => Held' = Loaded(RangeOf(loaded')) \ skipped'
    <3> SUFFICES ASSUME ~broken' PROVE Held' = Loaded(RangeOf(loaded')) \ skipped'
      OBVIOUS
    <3>1. Held \cup skipped = Loaded(RangeOf(loaded)) /\ skipped \cap Held = {}
      BY <2>1, <2>2 DEF Loading, Adding
    <3>2. Held = Loaded(RangeOf(loaded)) \ skipped
      BY <3>1
    <3> QED
      BY <2>1, <2>2, <3>2
  <2> QED
    BY <2>1, <2>3 DEF Loading
<1> QED
  BY <1>1, <1>2, <1>3, ResClearLoading, ResAddLoading, Loaders

\* As long as the pool was not overdrawn, nor replaced while it had entries: whenever
\* res_check sleeps, the pool has the addresses of the range that was loaded last, less
\* those that calloc failed for; under a netmask no net or broadcast address and none of
\* another net; with both ends in one net and a count that fits an int, every usable one.
\* What is in bak_* instead was refused, and then has no usable address; before the first
\* load the pool is empty (ac/resource.c:129-154, 192-281).
THEOREM LoadedTheorem == Spec => []RangeLoaded
<1>1. PoolInv /\ Loading => RangeLoaded
  <2> SUFFICES ASSUME Loading, ~broken, rpc = "poll"
               PROVE  /\ IF loaded = Blank THEN used = {} ELSE Holds(RangeOf(loaded))
                      /\ bak # loaded /\ Sane(RangeOf(bak)) => Usable(RangeOf(bak)) = {}
    BY DEF RangeLoaded
  <2>1. ASSUME NEW field, ~ResourceIpError(field) PROVE RangeOf(field) \in AnyRange
    <3> DEFINE c == RangeOf(field)
    <3>1. c.start \in Word /\ c.end \in Word /\ c.hosts \in Nat \ {0}
      BY <2>1, RangeType
    <3> QED
      BY <3>1 DEF RangeOf, AnyRange
  <2>2. \A c : Sane(c) => OneNet(c) /\ CountFits(c) /\ IsNetmask(c)
    BY DEF Sane, CountFits
  <2>3. ASSUME loaded # Blank PROVE Holds(RangeOf(loaded))
    <3> DEFINE c == RangeOf(loaded)
    <3>1. c \in AnyRange /\ ~Refused(c) /\ Held = Loaded(c) \ skipped
      BY <2>1, <2>3 DEF Loading
    <3> HIDE DEF c
    <3>2. IsNetmask(c) => Held \subseteq Hosts(c) \ skipped
      BY <3>1, LoadTheorem
    <3>3. Sane(c) => Held = Usable(c) \ skipped
      BY <2>2, <3>1, LoadTheorem
    <3> QED
      BY <3>2, <3>3 DEF Holds, Held, c
  <2>4. ASSUME bak # loaded, Sane(RangeOf(bak)) PROVE Usable(RangeOf(bak)) = {}
    <3> DEFINE c == RangeOf(bak)
    <3>1. c \in AnyRange /\ Refused(c) /\ Sane(c)
      BY <2>1, <2>4 DEF Loading
    <3> HIDE DEF c
    <3>2. Usable(c) = {}
      BY <2>2, <3>1, LoadTheorem
    <3> QED
      BY <3>2 DEF c
  <2>5. loaded = Blank => used = {}
    BY DEF Loading
  <2> QED
    BY <2>3, <2>4, <2>5
<1>2. Spec => []Loading
  BY InitLoading, NextLoading, Invariance, PTL DEF Spec
<1> QED
  BY <1>1, <1>2, Invariance, PTL

-----------------------------------------------------------------------------
(* The answer.                                                             *)

\* What is configured has a netmask, and not 0.0.0.0.
NetmaskSet == bak # Blank => IsNetmask(RangeOf(bak))

\* 0.0.0.0 is not in the pool and will not be.
NoZero ==
    /\ rpc # "poll" => 0 \notin Elems(todo)
    /\ ~broken => 0 \notin Held

LEMMA NextNoZero ==
    PoolInv /\ Loading /\ Loading' /\ NetmaskSet' /\ NoZero /\ [Next]_vars => NoZero'
<1> SUFFICES ASSUME PoolInv, Loading, Loading', NetmaskSet', NoZero, [Next]_vars PROVE NoZero'
  OBVIOUS
<1>1. CASE UNCHANGED <<addr, used, bak, rpc, todo, loads>> /\ (UNCHANGED broken \/ broken')
  BY <1>1 DEF NoZero, Held
<1>2. ASSUME NEW r \in Table \cup {NoRow}, ResPoll(r) PROVE NoZero'
  <2>1. rpc = "poll" /\ UNCHANGED <<addr, used, broken>>
    BY <1>2 DEF ResPoll, rings
  <2>2. ASSUME rpc' # "poll" PROVE 0 \notin Elems(todo')
    <3>1. PICK field : Reload(field)
      BY <2>1, <2>2, <1>2 DEF ResPoll
    <3>2. bak' = field /\ todo' = Load(RangeOf(field))
      BY <2>1, <2>2, <3>1 DEF Reload, StartLoad
    <3> DEFINE c == RangeOf(field)
    <3>3. ~Refused(c) /\ bak' # Blank /\ ~ResourceIpError(field)
      <4>1. loaded' # Blank /\ loaded' = bak' /\ ~ResourceIpError(loaded')
            /\ ~Refused(RangeOf(loaded'))
        BY <2>2 DEF Loading
      <4> QED
        BY <3>2, <4>1
    <3>4. IsNetmask(c)
      BY <3>2, <3>3 DEF NetmaskSet
    <3>5. c \in AnyRange
      <4>1. c.start \in Word /\ c.end \in Word /\ c.hosts \in Nat \ {0}
        BY <3>3, RangeType
      <4> QED
        BY <4>1 DEF RangeOf, AnyRange
    <3> HIDE DEF c
    <3>6. 0 \notin Loaded(c)
      BY <3>3, <3>4, <3>5, LoadTheorem
    <3> QED
      BY <3>2, <3>6 DEF Elems, Loaded, c
  <2> QED
    BY <2>1, <2>2 DEF NoZero, Held
<1>3. CASE ResClear
  <2>1. CASE /\ used' = used \ (Free \cup Taken) /\ UNCHANGED todo /\ rpc = "clear"
             /\ broken' = (broken \/ Free \cup Taken # {})
    <3>1. ~broken' => Held' = {}
      <4> SUFFICES ASSUME ~broken' PROVE Held' = {}
        OBVIOUS
      <4>1. ~broken /\ Free = {} /\ Taken = {}
        BY <2>1, Zenon
      <4> QED
        BY <2>1, <4>1 DEF Held, PoolInv, Whole
    <3> QED
      BY <2>1, <3>1 DEF NoZero, Elems
  <2>2. CASE UNCHANGED <<addr, used, todo, rpc, broken>>
    BY <2>2 DEF NoZero, Held
  <2> QED
    BY <1>3, <2>1, <2>2 DEF ResClear, Free, Taken
<1>4. CASE ResAdd
  <2>1. CASE UNCHANGED <<rings, check>>
    BY <1>4, <2>1 DEF ResAdd, NoZero, Held, rings, check
  <2>2. CASE ResAdded
    <3> DEFINE x == Head(todo)
    <3>1. x \in Word /\ Elems(todo) = {x} \cup Elems(Tail(todo)) /\ todo' = Tail(todo)
          /\ UNCHANGED broken /\ rpc' = "add" /\ rpc = "add"
      BY <1>4, <2>2, HeadTail DEF ResAdd, ResAdded, PoolInv, PoolTypes
    <3>2. /\ \A k \in used' : k \in used \/ addr'[k] = x
          /\ \A k \in used : addr'[k] = addr[k] \/ addr'[k] = x
      <4>1. CASE UNCHANGED rings
        BY <4>1 DEF rings
      <4>2. CASE \E n \in Entry \ used : used' = used \cup {n} /\ addr' = [addr EXCEPT ![n] = x]
        <5>1. PICK n \in Entry \ used : used' = used \cup {n} /\ addr' = [addr EXCEPT ![n] = x]
          BY <4>2
        <5>2. addr \in [Node -> Word \cup {Garbage}] /\ n \in Node /\ used \subseteq Node
          BY DEF PoolInv, PoolTypes, Node
        <5> HIDE DEF x
        <5> QED
          BY <5>1, <5>2
      <4> QED
        BY <1>4, <4>1, <4>2 DEF ResAdd
    <3> HIDE DEF x
    <3>3. x # 0 /\ 0 \notin Elems(todo')
      BY <3>1 DEF NoZero
    <3>4. ~broken' => 0 \notin Held'
      BY <3>1, <3>2, <3>3 DEF NoZero, Held
    <3> QED
      BY <3>1, <3>3, <3>4 DEF NoZero
  <2> QED
    BY <1>4, <2>1, <2>2 DEF ResAdd
<1>5. CASE ResDone
  BY <1>5 DEF ResDone, NoZero, Held, rings
<1> QED
  BY <1>1, <1>2, <1>3, <1>4, <1>5, Loaders

\* As long as what is configured has a netmask, every answer is an address, which the
\* table has under the AP that asked, although it is read from the entry unlocked.
LEMMA AnswersHeld == Spec /\ []NetmaskSet => []AnswerHeld
<1>1. PoolInv /\ NoZero => AnswerHeld
  <2> SUFFICES ASSUME Whole, Answers, 0 \notin Held, granted.mac # NoMac
               PROVE  granted.got \in Addr /\ Holder(granted.got) = granted.mac
    BY DEF PoolInv, NoZero, AnswerHeld
  <2>1. PICK n \in Taken : addr[n] = granted.got /\ apmac[n] = granted.mac
    BY DEF Answers
  <2>2. \A j, k \in Taken : addr[j] = addr[k] => j = k
    BY DEF Whole
  <2>3. Holder(granted.got) = granted.mac
    BY <2>1, <2>2, HolderIs, Holders
  <2>4. granted.got \in Word /\ granted.got # 0
    BY <2>1 DEF Whole, Held
  <2> QED
    BY <2>3, <2>4 DEF Addr, NoAddr
<1>2. Init => NoZero
  BY DEF Init, NoZero, Held
<1>3. Spec => []Loading
  BY InitLoading, NextLoading, Invariance, PTL DEF Spec
<1> QED
  BY <1>1, <1>2, <1>3, NextNoZero, Invariance, PTL DEF Spec

-----------------------------------------------------------------------------
(* The types, and what the rows become.                                    *)

\* The text in the static buffer, the copies of the fields, and the row they are from.
TextTypes ==
    /\ buffer \in Seq(Atom) /\ row \in Table \cup {NoRow}
    /\ bak \in [json_attrs -> Seq(Char)] /\ loaded \in [json_attrs -> Seq(Char)]

LEMMA InitTextTypes == Init => TextTypes
<1>1. \A S : << >> \in Seq(S)
  OBVIOUS
<1> QED
  BY <1>1 DEF Init, TextTypes, Blank

\* Only a poll touches the buffer and the copies.
LEMMA Polled ==
    ASSUME [Next]_vars
    PROVE  UNCHANGED <<poll, loaded>> \/ \E r \in Table \cup {NoRow} : ResPoll(r)
<1>1. ASSUME NEW m \in Mac, NEW x \in Asked \cup {NoAddr}, RegConflict(m, x)
      PROVE  UNCHANGED <<poll, loaded>>
  BY <1>1 DEF RegConflict, Hangs, check, loads
<1>2. RegCheck \/ AllocNamed \/ AllocFirst \/ RegReply \/ ResNoResult => UNCHANGED <<poll, loaded>>
  BY DEF RegCheck, AllocNamed, AllocFirst, RegReply, ResNoResult, Take, Hangs, check, loads
<1>3. ResClear \/ ResAdd \/ ResDone \/ UNCHANGED vars => UNCHANGED <<poll, loaded>>
  BY DEF ResClear, ResAdd, ResAdded, ResDone, vars, check, loads
<1> QED
  BY <1>1, <1>2, <1>3 DEF Next

\* A poll reads a text.
LEMMA NextTextTypes == TextTypes /\ [Next]_vars => TextTypes'
<1> SUFFICES ASSUME TextTypes, [Next]_vars PROVE TextTypes'
  OBVIOUS
<1>1. CASE UNCHANGED <<poll, loaded>>
  BY <1>1 DEF TextTypes, poll
<1>2. ASSUME NEW r \in Table \cup {NoRow}, ResPoll(r) PROVE TextTypes'
  <2>1. row' \in Table \cup {NoRow}
    BY <1>2 DEF ResPoll, TextTypes
  <2>2. buffer' \in Seq(Atom)
    <3>1. buffer' = sql_query_res(buffer, r)
      BY <1>2 DEF ResPoll
    <3>2. CASE r = NoRow
      BY <3>1, <3>2 DEF sql_query_res, TextTypes
    <3>3. CASE r # NoRow
      BY <3>1, <3>3, RowTextIs DEF sql_query_res
    <3> QED
      BY <3>2, <3>3
  <2> DEFINE field == json_read_object(buffer').field
  <2>3. field \in [json_attrs -> Seq(Char)]
    BY <2>2, ReadType
  <2>4. UNCHANGED <<bak, loads>> \/ Reload(field)
    BY <1>2 DEF ResPoll
  <2> HIDE DEF field
  <2>5. bak' \in {bak, field} /\ loaded' \in {loaded, field}
    BY <2>4 DEF Reload, StartLoad, loads
  <2> QED
    BY <2>1, <2>2, <2>3, <2>5 DEF TextTypes
<1> QED
  BY <1>1, <1>2, Polled

\* Every reachable state is well typed, the memory behind the rings included, whatever
\* is freed and walked through; and left never falls below the number of registrations
\* that overdrew it (ac/resource.c:27-258, lib/mjson.c:179-577).
THEOREM TypeCorrect == Spec => []TypeOK
<1>1. PoolInv /\ TextTypes /\ Loading => TypeOK
  <2> SUFFICES ASSUME PoolTypes, Overdraft, TextTypes, Loading PROVE TypeOK
    BY DEF PoolInv
  <2>1. left \in Nat \cup {0 - n : n \in 0 .. MaxRegs}
    <3>1. left \in Int /\ left + regs >= 0 /\ regs \in 0 .. MaxRegs
      BY DEF PoolTypes, Overdraft
    <3>2. CASE left >= 0
      BY <3>1, <3>2
    <3>3. CASE left < 0
      <4>1. 0 - left \in 0 .. MaxRegs /\ left = 0 - (0 - left)
        BY <3>1, <3>3
      <4> QED
        BY <4>1
    <3> QED
      BY <3>1, <3>2, <3>3
  <2>2. {ask, want} \subseteq Addr \cup {NoAddr}
    BY DEF PoolTypes, Addr
  <2>3. /\ buffer \in Seq(Run \cup Mark)
        /\ {bak, loaded} \subseteq [json_attrs -> Seq(Run \cup Mark \cup Odd)]
    BY DEF TextTypes, Atom, Char
  <2>4. /\ links \in [nxt : [Node -> Node], prv : [Node -> Node]]
        /\ addr \in [Node -> Word \cup {Garbage}] /\ apmac \in [Node -> Mac \cup {NoMac}]
        /\ used \subseteq Entry /\ total \in Nat
        /\ ip \in Node \cup {NoEntry} /\ mac \in Mac \cup {NoMac}
    BY DEF PoolTypes, Memory
  <2>5. /\ stuck \in BOOLEAN /\ broken \in BOOLEAN
        /\ dead \in {"no", "abort", "exit", "null", "overrun"}
        /\ tpc \in {"idle", "check", "alloc", "reply"}
        /\ rpc \in {"poll", "clear", "add"} /\ todo \in Seq(Word)
        /\ regs \in 0 .. MaxRegs /\ changes \in 0 .. MaxChanges
    BY DEF PoolTypes
  <2>6. row \in Table \cup {NoRow} /\ skipped \subseteq Word
    BY DEF TextTypes, Loading
  <2> QED
    BY <2>1, <2>2, <2>3, <2>4, <2>5, <2>6 DEF TypeOK
<1>2. Spec => []TextTypes
  BY InitTextTypes, NextTextTypes, PTL DEF Spec
<1>3. Spec => []Loading
  BY InitLoading, NextLoading, Invariance, PTL DEF Spec
<1> QED
  BY <1>1, <1>2, <1>3, Invariance, PTL

-----------------------------------------------------------------------------
(* What res_check makes of the rows.                                       *)

\* What the buffer holds is the text of the last row.
BufferIs == buffer = IF row = NoRow THEN << >> ELSE RowText(row)

\* A failed query leaves the row and its text, another has both anew.
LEMMA NextBuffer == TextTypes /\ BufferIs /\ [Next]_vars => BufferIs'
<1> SUFFICES ASSUME TextTypes, BufferIs, [Next]_vars PROVE BufferIs'
  OBVIOUS
<1>1. ASSUME NEW r \in Table \cup {NoRow}, ResPoll(r) PROVE BufferIs'
  <2>1. row' = (IF r = NoRow THEN row ELSE r) /\ buffer' = sql_query_res(buffer, r)
    BY <1>1 DEF ResPoll
  <2>2. CASE r = NoRow
    BY <2>1, <2>2 DEF sql_query_res, BufferIs
  <2>3. CASE r # NoRow
    BY <2>1, <2>3 DEF sql_query_res, BufferIs
  <2> QED
    BY <2>2, <2>3
<1>2. UNCHANGED poll => BufferIs'
  BY DEF BufferIs, poll
<1> QED
  BY <1>1, <1>2, Polled

LEMMA BufferKept == Spec => [](TextTypes /\ BufferIs)
<1>1. Init => BufferIs
  BY DEF Init, BufferIs
<1> QED
  BY <1>1, InitTextTypes, NextTextTypes, NextBuffer, PTL DEF Spec

\* The empty buffer is read without an error, and nothing is found.
LEMMA ReadNothing == json_read_object(<< >>) = [status |-> "ok", field |-> Blank]
<1>1. << >> \in Seq(Atom) /\ Len(<< >>) = 0
  OBVIOUS
<1>2. PICK at : /\ Reads(<< >>, at)
                /\ json_read_object(<< >>) = [status |-> at[Len(<< >>)].status,
                                             field |-> at[Len(<< >>)].field]
  BY <1>1, ReadIs, Zenon
<1>3. json_read_object(<< >>) = [status |-> at[0].status, field |-> at[0].field]
  BY <1>1, <1>2, Zenon
<1>4. at[0] = ReadStart
  BY <1>2, Zenon DEF Reads
<1>5. ReadStart.status = "ok" /\ ReadStart.field = Blank
  BY DEF ReadStart, Blank
<1> QED
  BY <1>3, <1>4, <1>5, Zenon

\* The text of a plain row is read, and as the row if there is room for a NUL.
LEMMA ReadBuffer ==
    ASSUME Schema, NEW t, NEW r \in Table \cup {NoRow}, t = IF r = NoRow THEN << >> ELSE RowText(r)
    PROVE  /\ r = NoRow => json_read_object(t).status = "ok"
           /\ r # NoRow /\ Plain(r) /\ Readable(r) => json_read_object(t).status = "ok"
           /\ r # NoRow /\ Plain(r) /\ Short(r) => /\ json_read_object(t).status = "ok"
                                                 /\ json_read_object(t).field = FieldsOf(r)
<1>1. CASE r = NoRow
  BY <1>1, ReadNothing
<1>2. ASSUME r # NoRow, Plain(r), Readable(r) PROVE json_read_object(t).status = "ok"
  <2>1. \E k : json_read_object(RowText(r)) = [status |-> "ok", field |-> k]
    BY <1>2, RowRead, Zenon
  <2>2. PICK k : json_read_object(RowText(r)) = [status |-> "ok", field |-> k]
    BY <2>1
  <2>3. json_read_object(t) = [status |-> "ok", field |-> k]
    BY <1>2, <2>2, Zenon
  <2> QED
    BY <2>3
<1>3. ASSUME r # NoRow, Plain(r), Short(r)
      PROVE  json_read_object(t).status = "ok" /\ json_read_object(t).field = FieldsOf(r)
  <2>1. json_read_object(RowText(r)) = [status |-> "ok", field |-> FieldsOf(r)]
    BY <1>3, RoundTrip
  <2> QED
    BY <1>3, <2>1
<1>4. /\ r # NoRow /\ Plain(r) /\ Readable(r) => json_read_object(t).status = "ok"
      /\ r # NoRow /\ Plain(r) /\ Short(r) => /\ json_read_object(t).status = "ok"
                                            /\ json_read_object(t).field = FieldsOf(r)
  BY <1>2, <1>3
<1> QED
  BY <1>1, <1>4

\* Whatever else happens, the copies are the fields of the last row if that makes a range,
\* and the AC has ended for a row that is not plain, or too long.
RowKept ==
    /\ Alive /\ row # NoRow /\ Plain(row) /\ Short(row) /\ ~ResourceIpError(FieldsOf(row))
       => bak = FieldsOf(row)
    /\ ExitsOnBadText

\* At the start no row was read; a poll reads the row there is or the text of the last one.
LEMMA InitRowKept == Init => RowKept
  BY DEF Init, RowKept, ExitsOnBadText

\* A poll has a text that can be read, or a row that is not plain or too long; no other
\* step touches the buffer or the copies, or ends the AC for a text.
LEMMA NextRowKept == Schema /\ TextTypes /\ BufferIs' /\ RowKept /\ [Next]_vars => RowKept'
<1> SUFFICES ASSUME Schema, TextTypes, BufferIs', RowKept, [Next]_vars PROVE RowKept'
  OBVIOUS
<1>1. ASSUME UNCHANGED poll, dead' # "no" => dead' = dead \/ dead' # "exit", dead' = "no" => Alive
      PROVE  RowKept'
  BY <1>1 DEF RowKept, Alive, ExitsOnBadText, poll
<1>2. ASSUME NEW r \in Table \cup {NoRow}, ResPoll(r) PROVE RowKept'
  <2> DEFINE read == json_read_object(buffer')
  <2>1. /\ row' \in Table \cup {NoRow} /\ Alive
        /\ row' = IF r = NoRow THEN row ELSE r
        /\ IF read.status = "ok" THEN Reload(read.field) ELSE dead' = "exit"
    BY <1>2 DEF ResPoll, TextTypes
  <2>3. /\ row' = NoRow => read.status = "ok"
        /\ row' # NoRow /\ Plain(row') /\ Readable(row') => read.status = "ok"
        /\ row' # NoRow /\ Plain(row') /\ Short(row') =>
              read.status = "ok" /\ read.field = FieldsOf(row')
    <3>1. buffer' = IF row' = NoRow THEN << >> ELSE RowText(row')
      BY DEF BufferIs
    <3>2. PICK t \in {buffer'}, w \in Table \cup {NoRow} :
             /\ t = buffer' /\ w = row' /\ t = IF w = NoRow THEN << >> ELSE RowText(w)
      BY <2>1, <3>1
    <3>3. /\ w = NoRow => json_read_object(t).status = "ok"
          /\ w # NoRow /\ Plain(w) /\ Readable(w) => json_read_object(t).status = "ok"
          /\ w # NoRow /\ Plain(w) /\ Short(w) => /\ json_read_object(t).status = "ok"
                                                /\ json_read_object(t).field = FieldsOf(w)
      BY <3>2, ReadBuffer, Zenon
    <3> QED
      BY <3>2, <3>3
  <2> HIDE DEF read
  <2>4. ExitsOnBadText'
    <3>1. ASSUME NEW field, Reload(field) PROVE dead' \in {dead, "overrun"}
      BY <3>1 DEF Reload
    <3>2. dead' = "exit" => read.status # "ok"
      BY <2>1, <3>1 DEF Alive
    <3> QED
      BY <2>3, <3>2 DEF ExitsOnBadText
  <2>5. ASSUME Alive', row' # NoRow, Plain(row'), Short(row'), ~ResourceIpError(FieldsOf(row'))
        PROVE  bak' = FieldsOf(row')
    <3>1. read.field = FieldsOf(row') /\ Reload(read.field)
      BY <2>1, <2>3, <2>5
    <3>2. dead' # "overrun"
      BY <2>5 DEF Alive
    <3> QED
      BY <2>5, <3>1, <3>2 DEF Reload
  <2> QED
    BY <2>4, <2>5 DEF RowKept
<1> DEFINE Others ==
        /\ UNCHANGED poll
        /\ (dead' # "no" => dead' = dead \/ dead' # "exit") /\ (dead' = "no" => Alive)
<1>3. ASSUME NEW m \in Mac, NEW x \in Asked \cup {NoAddr}, RegConflict(m, x) PROVE Others
  BY <1>3 DEF RegConflict, Hangs, check, Locked, Alive
<1>4. RegCheck \/ AllocNamed \/ AllocFirst \/ RegReply \/ ResNoResult => Others
  BY DEF RegCheck, AllocNamed, AllocFirst, RegReply, ResNoResult, Take, Hangs, check, Locked, Alive
<1>5. ResClear \/ ResAdd \/ ResDone \/ UNCHANGED vars => Others
  BY DEF ResClear, ResAdd, ResAdded, ResDone, vars, check, Locked, Alive
<1> QED
  BY <1>1, <1>2, <1>3, <1>4, <1>5 DEF Next

\* With the installed table the last row is kept for good.
LEMMA RowsKept == ASSUME Schema PROVE Spec => []RowKept
<1>1. TextTypes /\ BufferIs' /\ RowKept /\ [Next]_vars => RowKept'
  BY NextRowKept
<1>2. Spec => [](TextTypes /\ BufferIs)
  BY BufferKept
<1> QED
  BY <1>1, <1>2, InitRowKept, PTL DEF Spec

\* With the columns the AC is installed with (scripts/ac.sql:30-34), the fields that
\* res_check keeps are those of the last row it read, if they are a range and leave room
\* for a NUL each: also if queries failed since and if the range was refused
\* (ac/sql.c:54-74, ac/resource.c:192-222, 269-275).
THEOREM TakenTheorem == ASSUME Schema PROVE Spec => []RowTaken
<1>1. RowKept => RowTaken
  BY DEF RowKept, RowTaken
<1> QED
  BY <1>1, RowsKept, PTL

\* And it ends the AC only for a row with a quote or a backslash in it, or with a column of
\* more than IPLEN bytes: every text that is made of another row can be read, and so can
\* the empty buffer (ac/resource.c:269-275).
THEOREM ExitTheorem == ASSUME Schema PROVE Spec => []ExitsOnBadText
<1>1. RowKept => ExitsOnBadText
  BY DEF RowKept
<1> QED
  BY <1>1, RowsKept, PTL

\* What is kept was read from the text of a row, and taken for a range.
LEMMA NextNetmaskSet ==
    MasksSet /\ TextTypes' /\ BufferIs' /\ NetmaskSet /\ [Next]_vars => NetmaskSet'
<1> SUFFICES ASSUME MasksSet, TextTypes', BufferIs', NetmaskSet, [Next]_vars PROVE NetmaskSet'
  OBVIOUS
<1>1. ASSUME NEW r \in Table \cup {NoRow}, ResPoll(r), ~UNCHANGED bak PROVE NetmaskSet'
  <2> DEFINE read == json_read_object(buffer')
  <2>1. read.status = "ok" /\ bak' = read.field /\ ~ResourceIpError(read.field)
    BY <1>1 DEF ResPoll, Reload, StartLoad
  <2>2. row' # NoRow
    <3> SUFFICES ASSUME row' = NoRow PROVE FALSE
      OBVIOUS
    <3>1. buffer' = << >>
      BY DEF BufferIs
    <3>2. read.field = Blank
      BY <3>1, ReadNothing
    <3> QED
      BY <2>1, <3>2, BlankIsNone
  <2>3. buffer' = RowText(row') /\ row' \in Table
    BY <2>2 DEF BufferIs, TextTypes
  <2> HIDE DEF read
  <2>4. IsNetmask(RangeOf(read.field))
    BY <2>1, <2>3 DEF MasksSet, read
  <2> QED
    BY <2>1, <2>4 DEF NetmaskSet
<1>2. UNCHANGED bak => NetmaskSet'
  BY DEF NetmaskSet, RangeOf
<1>3. UNCHANGED poll => UNCHANGED bak
  BY DEF poll
<1> QED
  BY <1>1, <1>2, <1>3, Polled

\* If the rows of the table have a netmask, every answer is an address, which the table
\* has under the AP that asked, although it is read from the entry unlocked. With 0.0.0.0
\* the pool can hold 0.0.0.0, which stands for no address (ac/process.c:143-153,
\* ac/resource.c:232-258).
THEOREM AnswerTheorem == ASSUME MasksSet PROVE Spec => []AnswerHeld
<1>1. Init => NetmaskSet
  BY DEF Init, NetmaskSet
<1>2. TextTypes' /\ BufferIs' /\ NetmaskSet /\ [Next]_vars => NetmaskSet'
  BY NextNetmaskSet
<1> QED
  BY <1>1, <1>2, BufferKept, AnswersHeld, PTL DEF Spec

=============================================================================
