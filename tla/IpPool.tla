------------------------------- MODULE IpPool -------------------------------
(***************************************************************************)
(* The AC's address pool (ac/resource.c): the rings pool and alloc hung on *)
(* struct _ippool_t, worked on by two threads. message_travel leases an    *)
(* address per registration (__ap_reg); res_check polls the database for   *)
(* the range and rebuilds the pool when it changes. Ring walks and writes  *)
(* and the memory behind them are those of the code, also where the code   *)
(* takes a list head for an entry or an entry that was freed.              *)
(*                                                                         *)
(* Layout: struct _ip_t is apmac (0), ipv4 (8), list (24), and the heads   *)
(* pool and alloc follow a 40-byte mutex, so an "entry" that is really the *)
(* head pool has its apmac in the mutex and its address in zero bytes of   *)
(* the mutex; the head alloc has its address in the pointer pool.next.     *)
(***************************************************************************)
EXTENDS ListHead, Resource

CONSTANTS Entry,          \* the memory calloc can return, as struct _ip_t
          Pool, Leased,   \* the two list heads of struct _ippool_t, pool and alloc
          Asked,          \* the addresses that APs ask for
          Garbage,        \* what free() leaves where an address was
          Mac, NoMac,
          NoEntry,
          MaxRegs, MaxChanges     \* bounds: registrations, changes of the table read

NoAddr == 0             \* 0.0.0.0, which stands for "no address"
Addr == Word \ {NoAddr}

ASSUME IpPoolAssumption ==
    /\ IsFiniteSet(Entry)
    /\ Pool # Leased /\ Pool \notin Entry /\ Leased \notin Entry
    /\ NoEntry \notin Entry \cup {Pool, Leased}
    /\ Asked \subseteq Addr /\ Garbage \notin Word
    /\ NoMac \notin Mac
    /\ MaxRegs \in Nat /\ MaxChanges \in Nat

Node == Entry \cup {Pool, Leased}

VARIABLES
    links,                  \* the rings
    addr, apmac,            \* ipv4 and apmac of every node
    used,                   \* entries calloc'd and not freed
    total, left,            \* ippool->total, ippool->left
    stuck,                  \* ippool->lock is never released again
    dead,                   \* why nothing more is promised: "no", "abort" in free(),
                            \* "exit" in res_check, "null" in sql_query, "overrun" by strcpy
    tpc, mac, ask, want, ip,    \* message_travel: __ap_reg and res_ip_alloc
    rpc, buffer, bak, todo, \* res_check: its buffer, resource.bak_*, addresses to add
    granted,                \* the last answer: [mac, got]
    broken, row,            \* history: the pool overdrawn or replaced; the last row read;
    loaded, skipped,        \* the fields the pool was made of, the addresses left out then
    regs, changes           \* counts against the bounds

rings  == <<links, addr, apmac, used, total, left>>
travel == <<tpc, mac, ask, want, ip>>
poll   == <<buffer, bak, row, changes>>
loads  == <<loaded, skipped>>
check  == <<rpc, todo, poll, loads>>
vars   == <<rings, stuck, dead, travel, check, granted, broken, regs>>

\* res_ip_init; the threads start.
Init ==
    /\ links = InitHeads(Node)
    /\ addr = [n \in Node |-> IF n = Leased THEN Garbage ELSE NoAddr]
    /\ apmac = [n \in Node |-> NoMac]
    /\ used = {} /\ total = 0 /\ left = 0
    /\ stuck = FALSE /\ dead = "no"
    /\ tpc = "idle" /\ mac = NoMac /\ ask = NoAddr /\ want = NoAddr /\ ip = NoEntry
    /\ rpc = "poll" /\ buffer = << >> /\ bak = Blank /\ todo = << >>
    /\ granted = [mac |-> NoMac, got |-> NoAddr]
    /\ broken = FALSE /\ row = NoRow /\ regs = 0 /\ changes = 0
    /\ loaded = Blank /\ skipped = {}

\* A step under ippool->lock. A walk that never meets its head keeps the lock.
Alive == dead = "no"
Locked == ~stuck /\ Alive
Hangs == stuck' = TRUE /\ UNCHANGED <<rings, dead, travel, check, granted, broken, regs>>

-----------------------------------------------------------------------------
(* message_travel: one registration.                                       *)

HasAddr(h, x) == {n \in Visited(links, h) : addr[n] = x}

\* __ap_reg up to res_ip_conflict, which walks the alloc ring.
RegConflict(m, x) ==
    /\ Locked /\ tpc = "idle" /\ regs < MaxRegs
    /\ \/ /\ x # NoAddr /\ HasAddr(Leased, x) = {} /\ ~Ends(links, Leased)
          /\ Hangs
       \/ /\ x = NoAddr \/ HasAddr(Leased, x) # {} \/ Ends(links, Leased)
          /\ mac' = m /\ ask' = x
          /\ want' \in IF x = NoAddr \/ HasAddr(Leased, x) = {} THEN {x}
                       ELSE {IF apmac[n] # m THEN NoAddr ELSE x : n \in HasAddr(Leased, x)}
          /\ regs' = regs + 1 /\ tpc' = "check"
          /\ UNCHANGED <<rings, stuck, dead, ip, check, granted, broken>>

\* res_ip_alloc's first test, outside the lock.
RegCheck ==
    /\ Alive /\ tpc = "check"
    /\ IF left = 0 /\ ~list_empty(links, Pool)
       THEN ip' = NoEntry /\ tpc' = "reply"
       ELSE tpc' = "alloc" /\ UNCHANGED ip
    /\ UNCHANGED <<rings, stuck, dead, mac, ask, want, check, granted, broken, regs>>

Take_Twice(n) ==                            \* faulty: left counted down twice
    /\ links' = list_move(links, n, Leased)
    /\ apmac' = [apmac EXCEPT ![n] = mac]
    /\ left' = left - 2
    /\ ip' = n /\ tpc' = "reply"
    /\ UNCHANGED <<addr, used, total, dead, mac, ask, want, check, granted, regs>>

Take(n) ==
    /\ links' = list_move(links, n, Leased)
    /\ apmac' = [apmac EXCEPT ![n] = mac]
    /\ left' = left - 1
    /\ ip' = n /\ tpc' = "reply"
    /\ UNCHANGED <<addr, used, total, dead, mac, ask, want, check, granted, regs>>

\* res_ip_alloc with an address: take it if the pool ring has it, else forget it.
AllocNamed ==
    /\ Locked /\ tpc = "alloc" /\ want # NoAddr
    /\ \/ \E n \in HasAddr(Pool, want) : Take(n) /\ UNCHANGED <<stuck, broken>>
       \/ /\ HasAddr(Pool, want) = {}
          /\ IF Ends(links, Pool)
             THEN /\ want' = NoAddr
                  /\ UNCHANGED <<rings, stuck, dead, tpc, mac, ask, ip, check,
                                 granted, broken, regs>>
             ELSE Hangs

\* res_ip_alloc without one: the first entry. If the pool is empty that is the
\* head itself, and its apmac the mutex's kind: the lock may never open again.
AllocFirst ==
    /\ Locked /\ tpc = "alloc" /\ want = NoAddr
    /\ Take(list_first_entry(links, Pool))
    /\ IF list_empty(links, Pool)
       THEN broken' = TRUE /\ stuck' \in BOOLEAN
       ELSE UNCHANGED <<broken, stuck>>

RegReply_Asked ==                           \* faulty: answers what was asked for
    /\ Alive /\ tpc = "reply" /\ tpc' = "idle"
    /\ granted' = [mac |-> mac, got |-> IF ask # NoAddr \/ ip = NoEntry THEN ask ELSE addr[ip]]
    /\ mac' = NoMac /\ ask' = NoAddr /\ want' = NoAddr /\ ip' = NoEntry
    /\ UNCHANGED <<rings, stuck, dead, check, broken, regs>>

\* Back in __ap_reg: the answer reads ip->ipv4, outside the lock.
RegReply ==
    /\ Alive /\ tpc = "reply" /\ tpc' = "idle"
    /\ granted' = [mac |-> mac, got |-> IF ip = NoEntry THEN NoAddr ELSE addr[ip]]
    /\ mac' = NoMac /\ ask' = NoAddr /\ want' = NoAddr /\ ip' = NoEntry
    /\ UNCHANGED <<rings, stuck, dead, check, broken, regs>>

-----------------------------------------------------------------------------
(* res_check: one poll.                                                    *)

\* res_ip_reload from res_ip_equ_bak to res_ip_clear, with a range that is not refused.
StartLoad(field) ==
    /\ rpc' = "clear" /\ todo' = Load(RangeOf(field))
    /\ loaded' = field /\ skipped' = {}

Reload_Accepted(field) ==                   \* faulty: a refused range is not kept in bak_*
    IF \/ ResourceIpError(field) \/ field = bak \/ Refused(RangeOf(field))
    THEN UNCHANGED <<rpc, bak, todo, loads, dead>>
    ELSE bak' = field /\ StartLoad(field) /\ UNCHANGED dead

\* Nothing happens if the fields are no range or are those of the last poll. A range
\* that is refused takes the place of the former one in bak_*, not in the pool.
Reload(field) ==
    IF ResourceIpError(field) \/ field = bak THEN UNCHANGED <<rpc, bak, todo, loads, dead>>
    ELSE IF RunsOver(field) THEN dead' = "overrun" /\ UNCHANGED <<rpc, bak, todo, loads>>
    ELSE /\ bak' = field /\ UNCHANGED dead
         /\ IF Refused(RangeOf(field)) THEN UNCHANGED <<rpc, todo, loads>>
            ELSE StartLoad(field)

\* One poll, of a table that holds r by then. A query that fails is not noticed:
\* the text of the poll before is read again. A text that cannot be read ends the AC.
ResPoll(r) ==
    /\ Alive /\ rpc = "poll"
    /\ row' = IF r = NoRow THEN row ELSE r
    /\ changes' = changes + IF row' = row THEN 0 ELSE 1
    /\ changes' <= MaxChanges
    /\ buffer' = sql_query_res(buffer, r)
    /\ LET read == json_read_object(buffer')
       IN  IF read.status = "ok"
           THEN Reload(read.field)
           ELSE dead' = "exit" /\ UNCHANGED <<rpc, bak, todo, loads>>
    /\ UNCHANGED <<rings, stuck, travel, granted, broken, regs>>

\* sql_query takes a result that could not be stored (NULL) for one: mysql_num_rows
\* reads through it, or counts no rows (then as ResPoll(NoRow)).
ResNoResult ==
    /\ Alive /\ rpc = "poll" /\ dead' = "null"
    /\ UNCHANGED <<rings, stuck, travel, check, granted, broken, regs>>

\* res_ip_clear frees the entries of both rings and leaves the rings as they
\* are. free() writes over apmac and may write over the address; it aborts on a
\* list head and on an entry it was given before.
ResClear ==
    /\ Locked /\ rpc = "clear"
    /\ LET out == Visited(links, Pool) \cup Visited(links, Leased)
       IN  IF /\ Ends(links, Pool) /\ Ends(links, Leased) /\ out \subseteq used
              /\ Visited(links, Pool) \cap Visited(links, Leased) = {}
           THEN /\ used' = used \ out
                /\ apmac' = [n \in Node |-> IF n \in out THEN NoMac ELSE apmac[n]]
                /\ \E scrambled \in BOOLEAN : addr' =
                      [n \in Node |-> IF n \in out /\ scrambled THEN Garbage ELSE addr[n]]
                /\ total' = 0 /\ left' = 0
                /\ rpc' = "add"
                /\ broken' = (broken \/ out # {})
                /\ UNCHANGED dead
           ELSE /\ dead' = "abort"
                /\ UNCHANGED <<addr, apmac, used, total, left, rpc, broken>>
    /\ UNCHANGED <<links, stuck, travel, todo, poll, loads, granted, regs>>

ResAdded_Short ==                           \* faulty: the loop ends one early
    todo' = (IF Len(todo) = 2 THEN << >> ELSE Tail(todo)) /\ UNCHANGED <<rpc, poll, loaded>>
ResAdded == todo' = Tail(todo) /\ UNCHANGED <<rpc, poll, loaded>>

\* res_ip_add: nothing if some entry has the address (res_ip_repeat), else a new entry, in
\* memory that may have been an entry before; or none, if calloc fails, and the loop
\* goes on with the next address.
ResAdd ==
    /\ Locked /\ rpc = "add" /\ todo # << >>
    /\ LET x == Head(todo)
       IN  \/ /\ HasAddr(Pool, x) \cup HasAddr(Leased, x) # {}
              /\ ResAdded /\ UNCHANGED <<rings, stuck, skipped>>
           \/ /\ HasAddr(Pool, x) \cup HasAddr(Leased, x) = {}
              /\ ~(Ends(links, Pool) /\ Ends(links, Leased))
              /\ stuck' = TRUE /\ UNCHANGED <<rings, check>>
           \/ /\ HasAddr(Pool, x) \cup HasAddr(Leased, x) = {}
              /\ Ends(links, Pool) /\ Ends(links, Leased)
              /\ \E n \in Entry \ used :
                  /\ used' = used \cup {n}
                  /\ addr' = [addr EXCEPT ![n] = x]
                  /\ apmac' = [apmac EXCEPT ![n] = NoMac]
                  /\ links' = list_add_tail(links, n, Pool)
              /\ total' = total + 1 /\ left' = left + 1
              /\ ResAdded /\ UNCHANGED <<stuck, skipped>>
           \/ /\ HasAddr(Pool, x) \cup HasAddr(Leased, x) = {}
              /\ Ends(links, Pool) /\ Ends(links, Leased)
              /\ skipped' = skipped \cup {x}
              /\ ResAdded /\ UNCHANGED <<rings, stuck>>
    /\ UNCHANGED <<dead, travel, granted, broken, regs>>

ResDone ==
    /\ Alive /\ rpc = "add" /\ todo = << >> /\ rpc' = "poll"
    /\ UNCHANGED <<rings, stuck, dead, travel, todo, poll, loads, granted, broken, regs>>

-----------------------------------------------------------------------------
Next ==
    \/ \E m \in Mac, x \in Asked \cup {NoAddr} : RegConflict(m, x)
    \/ RegCheck \/ AllocNamed \/ AllocFirst \/ RegReply
    \/ \E r \in Table \cup {NoRow} : ResPoll(r)
    \/ ResNoResult
    \/ ResClear \/ ResAdd \/ ResDone

Spec == Init /\ [][Next]_vars

-----------------------------------------------------------------------------
TypeOK ==
    /\ links \in [nxt : [Node -> Node], prv : [Node -> Node]]
    /\ addr \in [Node -> Word \cup {Garbage}]
    /\ apmac \in [Node -> Mac \cup {NoMac}]
    /\ used \subseteq Entry
    /\ total \in Nat /\ left \in Nat \cup {0 - n : n \in 0 .. MaxRegs}
    /\ stuck \in BOOLEAN /\ broken \in BOOLEAN
    /\ dead \in {"no", "abort", "exit", "null", "overrun"}
    /\ tpc \in {"idle", "check", "alloc", "reply"} /\ mac \in Mac \cup {NoMac}
    /\ {ask, want} \subseteq Addr \cup {NoAddr}
    /\ ip \in Node \cup {NoEntry}
    /\ rpc \in {"poll", "clear", "add"} /\ todo \in Seq(Word)
    /\ buffer \in Seq(Run \cup Mark)
    /\ {bak, loaded} \subseteq [json_attrs -> Seq(Run \cup Mark \cup Odd)]
    /\ row \in Table \cup {NoRow} /\ skipped \subseteq Word
    /\ regs \in 0 .. MaxRegs /\ changes \in 0 .. MaxChanges

\* Until the pool is overdrawn or replaced: the rings are rings, they split the
\* entries in use between them, the counters count them, every leased entry has
\* its AP and no other entry has one, and no thread is stuck on the lock.
PoolSound ==
    ~broken =>
        /\ Sound(links) /\ Ends(links, Pool) /\ Ends(links, Leased)
        /\ Visited(links, Pool) \cap Visited(links, Leased) = {}
        /\ Visited(links, Pool) \cup Visited(links, Leased) = used
        /\ left = Cardinality(Visited(links, Pool)) /\ total = Cardinality(used)
        /\ \A n \in used : apmac[n] # NoMac <=> n \in Visited(links, Leased)
        /\ \A n, k \in used : addr[n] = addr[k] => n = k
        /\ ~stuck /\ dead # "abort"

\* The table the rings stand for.
Holder(x) ==
    LET held == {n \in Visited(links, Leased) : addr[n] = x}
    IN  IF held = {} THEN NoMac ELSE apmac[CHOOSE n \in held : TRUE]
LeaseMap == [x \in Addr |-> Holder(x)]
RangeMap == {addr[n] : n \in used} \cap Addr

LT == INSTANCE LeaseTable WITH range <- RangeMap, lease <- LeaseMap

\* The rings implement the lease table: a lease is made on a free address and
\* stays, whatever the other thread does in between.
ImplementsLeaseTable == LT!Spec

\* Until then every registration is answered with an address, and the table has
\* the address under the AP that asked, although the answer reads it unlocked; a clear
\* that frees the entry in between is a pool that is replaced, of which this says nothing.
AnswerHeld ==
    ~broken /\ granted.mac # NoMac =>
        granted.got \in Addr /\ Holder(granted.got) = granted.mac

\* What the database configures is what res_check works with: once a poll is over,
\* resource.bak_* is the last row read if that is a range, also if a query failed
\* since or if the range was refused (ac/sql.c:54-74, ac/resource.c:192-222, 269-275).
\* A text that leaves no room for its NUL does not come through as it was.
RowTaken ==
    /\ ~broken /\ Alive /\ rpc = "poll" /\ row # NoRow
    /\ Plain(row) /\ Short(row) /\ ~ResourceIpError(FieldsOf(row))
    => bak = FieldsOf(row)

\* And what is leased (ac/resource.c:129-154, 224-258): the addresses of the range that
\* was loaded, less those calloc failed for: every usable one if first and last address
\* are in one net and their count fits an int, otherwise some of the first one's net;
\* never a net or broadcast address. resource.bak_* is another range only if that was
\* refused, which happens, under the same conditions, only if nothing in it is usable.
\* Before anything is loaded the pool is empty. Nothing is said of a netmask 0.0.0.0, nor
\* of a pool that has been overdrawn, or replaced while it had entries (broken).
Sane(c) == OneNet(c) /\ CountFits(c)
Holds(c) ==
    LET held == {addr[n] : n \in used}
    IN  /\ IsNetmask(c) => held \subseteq Hosts(c) \ skipped
        /\ Sane(c) => held = Usable(c) \ skipped
RangeLoaded ==
    ~broken /\ Alive /\ rpc = "poll" =>
        /\ IF loaded = Blank THEN used = {} ELSE Holds(RangeOf(loaded))
        /\ bak # loaded /\ Sane(RangeOf(bak)) => Usable(RangeOf(bak)) = {}

\* res_check ends the AC only for a row with an unescaped quote or backslash in it, or
\* with more bytes in a column than a field has, not for a missing row, a failed query,
\* a NULL or a text that is no address (ac/resource.c:269-275).
ExitsOnBadText == dead = "exit" => row # NoRow /\ ~(Plain(row) /\ Readable(row))
=============================================================================
