------------------------------ MODULE ListHead ------------------------------
(***************************************************************************)
(* The doubly linked rings of include/list.h, pointer by pointer: a memory *)
(* l of list heads with l.nxt[n] and l.prv[n]. Nothing here checks that a  *)
(* node is where the caller thinks it is, as nothing does in the code.     *)
(***************************************************************************)
EXTENDS Integers, FiniteSets

\* INIT_LIST_HEAD on every node of S.
InitHeads(S) == [nxt |-> [n \in S |-> n], prv |-> [n \in S |-> n]]

\* __list_add: n between the nodes p and s.
InsertBetween(l, n, p, s) ==
    [nxt |-> [l.nxt EXCEPT ![n] = s, ![p] = n],
     prv |-> [l.prv EXCEPT ![s] = n, ![n] = p]]

_list_add(l, n, h) == InsertBetween(l, n, h, l.nxt[h])

AddTail_Front(l, n, h) == InsertBetween(l, n, h, h)   \* faulty: after the head

list_add_tail(l, n, h) == InsertBetween(l, n, l.prv[h], h)

\* __list_del_entry: the neighbours meet, n keeps its own pointers.
__list_del_entry(l, n) ==
    [nxt |-> [l.nxt EXCEPT ![l.prv[n]] = l.nxt[n]],
     prv |-> [l.prv EXCEPT ![l.nxt[n]] = l.prv[n]]]

list_move_Copy(l, n, h) == _list_add(l, n, h)         \* faulty: not unlinked

list_move(l, n, h) == _list_add(__list_del_entry(l, n), n, h)

list_empty(l, h) == l.nxt[h] = h

\* list_first_entry: whatever the head points to.
list_first_entry(l, h) == l.nxt[h]

\* list_for_each_entry from head h, one node after another; it ends when it
\* meets h again, which it does within as many steps as there are nodes or never.
Walk(l, h) ==
    LET at[i \in 0 .. Cardinality(DOMAIN l.nxt)] ==
            IF i = 0 THEN l.nxt[h] ELSE l.nxt[at[i - 1]]
    IN  at
Ends(l, h) == \E i \in DOMAIN Walk(l, h) : Walk(l, h)[i] = h

\* The nodes a walk visits before it ends.
Visited(l, h) ==
    LET w == Walk(l, h)
    IN  {w[i] : i \in {j \in DOMAIN w : \A k \in 0 .. j : w[k] # h}}

\* A ring is sound if the two directions agree.
Sound(l) ==
    \A n \in DOMAIN l.nxt : l.prv[l.nxt[n]] = n /\ l.nxt[l.prv[n]] = n
=============================================================================
