# A TLA+ model of acctl

acctl is an access controller (`ac/`, "AC") for wireless access points (`ap/`,
"AP"). An AC and its APs are on one Ethernet segment: the AC broadcasts a probe
at layer 2, an AP answers with a registration request, and the AC leases it an
address. The AP sets the address, connects to the AC over TCP and reports its
status from then on; it may also have been configured with the address of a
remote AC, and then connects to that one until it finds a local one. This
directory holds TLA+ modules of that system, TLC configurations that check them
on small instances, and proofs that TLAPS checks for every instance.

## 1. The system

Both programs run three or four threads.

| thread | AC | AP |
| --- | --- | --- |
| `net_recv` | reads what epoll reports (`lib/link.c:85`): layer-2 frames (`__net_dllrecv`) and TCP messages (`__net_netrcv`), and queues them | the same (`net_dllrecv`, `__net_netrcv`) |
| `message_travel` | takes messages from the queues of the AP table and handles them (`ac/process.c:195`) | takes messages from its one queue (`ap/process.c:314`) |
| timer | `net_dllbrd`: a broadcast every `brditv` seconds | `report_apstatus`: a status every `reportitv` seconds |
| other | `net_netlisten`: accepts connections; `res_check`: polls the database for the address range | |

### Components

| component | state | operations | how it meets the others |
| --- | --- | --- | --- |
| Registration, `ac/process.c`, `ap/process.c`, `ac/net.c` | AC: `ac.random`, leases. AP: `sysstat` (`isreg`, `acuuid`, `server`), the NIC's address, `argument.addr` | broadcast, REG, REG_RESP, AP_RESP, each authenticated by an MD5 over packet, random and password (CHAP) | frames on the segment; takes addresses from the pool, randoms from the map; ends in `ac_reconnect` |
| Random map, `ap/process.c:124-156` | a ring of ten randoms with the MAC of the AC each was sent to, and `offset` | `new_random`, `get_random` | called by `message_travel` of the AP only |
| Database polling and JSON, `ac/sql.c`, `include/mjson.h`, `lib/mjson.c` | the static buffer of `sql_query_res`, `resource` | one query per poll, its row written as an object and parsed again | `res_check`, which ends the AC on a text that does not parse |
| Options, `lib/cmdarg.c`, `lib/arg.c` | `argument` | the intervals and their defaults | the sleeps of all threads; the NIC's address is the one a REG carries |
| Address pool, `ac/resource.c` | rings `pool` and `alloc`, counters, the range of the last poll | conflict, alloc, reload (clear and add) | `message_travel` leases, `res_check` reloads; a mutex per operation |
| Message queues, `ap/message.c`, `ac/aphash.c` | singly linked list with a pointer to its last link, a counter | insert, delete | `net_recv` inserts, `message_travel` deletes |
| AP table, `ac/aphash.c` | 2^14 buckets, each with one record and a chain | `hash_ap`, `message_travel`'s round | as above |
| Layer-2 receive path, `lib/dllayer.c`, `lib/link.c` | the packet socket, edge-triggered | one `recvfrom` per event | the kernel, `net_recv` |
| TCP connections of the AC, `lib/link.c`, `lib/netlayer.c` | list `sockarr`, epoll, `ap.sock` of each record | accept, insert, read, send, drop | all three threads |
| TCP connection of the AP, `ap/process.c` | `sysstat.sock`, `sysstat.server`, `sysstat.lock`, the same list and epoll | `ac_reconnect`, `ac_lost`, `report_apstatus`, the close in `proc_reg_resp` | all three threads |
| MD5, status contents, menu, `test/` | | | not modelled, section 8 |

### What is hard about it

* **Frames** are lost, reordered and outlive a restart of their sender or
  receiver. CHAP randoms are there to refuse the stale ones.
* **Restarts**: the AC's leases and the AP's randoms are in memory only; the
  NIC's address survives.
* **Threads** share the rings of the pool (one mutex per operation, none over a
  registration), queue pointers that are read without the lock, the list of
  sockets, and `sysstat.sock`, which is written both with and without its lock.
* **Descriptors** are numbers that are used again for the next connection, while
  the number is still in an AP's record, in a list node, or in a local variable.
* **Edge-triggered epoll**: what is not read when an event is handled is reported
  only with the next event.
* **Periods**: `brditv` and `msgitv` are independent options, and an answer that
  takes longer than `brditv` is answered to nobody.
* **Failures in the middle**: a link that goes down, a `malloc` that fails after
  the event was taken, a poll that fails, a row that does not parse.
* **Boundaries**: the ring of randoms wraps, the pool runs empty, buckets
  collide, `malloc` or `socket` fails, host parts are counted in an `int`.

`PROJECT.json` lists each of these under `hazards`, at its line.

### What makes the parts correct

* Registration: an address that an AP has set for a lease is leased to it; a
  broadcast earns at most one lease; an AP belongs only to an AC it has asked; it
  gets registered in the end.
* Random map: an answer is a random that was drawn for that AC, and recent.
* Clocks: with rounds shorter than `brditv` no request comes late.
* Polling: a row that fits its fields comes through the text as it was; only quotes
  or backslashes in it, or a text that is too long, end the AC.
* Pool: the rings are rings and split the entries between them; the counters
  count them; leases form a table; what is loaded is what is usable of the range, less
  what there was no memory for.
* Queues: first in, first out, nothing lost, handled twice or used after `free`.
* AP table: chains end; the messages of an AP that collides with no other are handled.
* Connections: a node that is dropped closes the socket it was made for; a
  connection that is not meant is hit only in the place of one that is over; no data
  waits without an event; a status is answered to the AP it came from; ended
  connections are dropped; the AP reconnects.

## 2. Modules

| module | models | used by |
| --- | --- | --- |
| `RandomMap` | the ring, as operators | `RandomMapUse`, `Registration` |
| `RandomMapUse` | the ring under the AP's use of it | `RandomMapUseProofs` |
| `Registration` | the protocol between several ACs and APs | `MCRegistration`, `RegistrationProofs` |
| `TimedRegistration` | the protocol with the sleeps of its threads | `MCTimedRegistration`, `RegistrationProofs`; it implements `Registration` |
| `LeaseTable` | abstract: what an address pool promises | `IpPool` and `Registration` implement it |
| `ListHead` | `include/list.h`, pointer by pointer | `IpPool` |
| `IpRange` | the arithmetic of `res_ip_reload` | `Resource` |
| `Json` | the macros that write a row and the parser that reads it | `Resource` |
| `Resource` | a poll: query, text, fields, range | `IpPool` |
| `IpPool` | the pool with its two threads | `MCIpPool`, `IpPoolProofs` |
| `Fifo` | abstract: what a message queue promises | `MsgQueue` implements it |
| `MsgQueue` | both programs' queues | `MsgQueueProofs` |
| `ApHash` | the AP table, with atomic queues | `MCApHash`, `ApHashProofs` |
| `DllRecv` | events and frames of the layer-2 socket | `DllRecvProofs` |
| `AcConn` | the AC's connections | `MCAcConn`, `AcConnProofs` |
| `ApConn` | the AP's connection | `ApConnProofs` |

The composition follows the code's own seams. `Registration` has leases as an
abstract table and draws its randoms from `RandomMap`'s operators; `IpPool`
shows that the pointers behind a lease implement the same `LeaseTable`, so what
`Registration` takes for granted (`Grants`: any free address) is what the pool
does until `broken`. `ApHash` has its queues atomic, which is what `MsgQueue`
shows of the pointers. `DllRecv` refines the delivery of REGs that
`Registration` has as "some frame in `net`". `TimedRegistration` takes
`Registration`'s actions as they are and adds when each may happen, so that its
safety is inherited (`Implementation`). `IpPool` reads its ranges through
`Resource`, which writes each row with the macros of `mjson.h` and reads it back
with `Json`'s parser.

### How state and actions correspond to the code

`PROJECT.json` names the lines of every definition. In outline:

* **Registration.** Each handler runs in one thread and is one action:
  `Broadcast` (`net_dllbrd`), `AcRecvReg` (`__ap_reg`; four outcomes, one
  disjunct each), `AcRecvApResp` (`is_mine`), `ApRecvBrd` (`proc_brd`),
  `ApRecvResp` (`proc_reg_resp` and `setaddr`, which may fail unnoticed).
  `AcCrash`, `AcStart`, `ApRestart` and `Lose` are the environment. An MD5 is the
  random it was computed with, so `chap` fields are compared for equality.
  `Debug` selects the build: with `-DDEBUG`, as the Makefile has it, `__ap_reg`
  prints `*addr` with `addr` NULL when the address asked for is somebody else's
  (`ac/process.c:133`) and the process dies. A REG carries `argument.addr`, the
  NIC's address at start-up, and not the one set since.
  `leased`, `asked` and `answered` are history variables; `leased[p]` says that the AP
  has set the address of its last RESP, with success, and that the AC that leased it
  still runs. A frame in flight when a process restarts may be lost with its socket or
  reach the process that follows (`Left`). `Registration` starts
  with the pool loaded. The segment does not duplicate frames.
* **RandomMap.** `get_random` starts at `offset - 1` and looks upwards; with
  `offset` 0 its first index is -1, which in C is in front of the array, in zero
  bytes of `.bss` that equal no MAC.
* **IpPool.** A critical section is one action, an unlocked read one of its own:
  `RegConflict`, `RegCheck` (the test before the lock), `AllocNamed`,
  `AllocFirst`, `RegReply` (reads the entry after the unlock), `ResPoll`,
  `ResNoResult`, `ResClear`, `ResAdd` (one address each, or none if `calloc` fails:
  `skipped`), `ResDone`. `loaded` are the fields the pool was made of; `bak` may be others
  that were refused. Walks go along the pointers as they are; one that never meets its
  head keeps the mutex (`stuck`).
  `free` may scramble an entry that is still linked, and aborts on a list head
  (`dead`). `broken` is set when the pool is overdrawn or replaced; from there on
  the code promises nothing and only its type is checked.
* **Json, Resource.** A text is a sequence of marks (the characters the parser
  looks for) and runs (pieces of other characters), one operator per state of
  `json_internal_read_object`. `buffer` of `IpPool` is the static buffer: a poll
  that fails leaves in it what the poll before wrote. `Schema` is the table as
  `scripts/ac.sql` makes it; its columns are `varchar(15)` in utf8, so a value may have
  more bytes than the field of 20: `Readable` rows are those the parser takes, `Short`
  ones those that leave room for the NUL. A value of just 20 bytes is stored without one
  and runs on into the next field (`"unended"`), which `inet_aton` does not mind if white
  space ends the address; at the last field `strcpy` writes past `resource`
  (`dead = "overrun"`). The parse failure that ends the AC is `dead = "exit"`, the NULL
  result of `sql.c:38` `dead = "null"`.
* **TimedRegistration.** `brdIn`, `acIn`, `apIn` are the seconds each thread still
  sleeps, `young` the frames of this second. `Tick` is a second; it may pass when
  nobody is awake with work to do (`Handled`). Intervals are those of
  `__check_arg` for each combination in `Options`, 0 standing for "not given".
* **MsgQueue.** `Lock`, `Link`, `Close` are the producer's steps, since the
  consumer looks at the head without the lock (`Peek`); `Take` is
  `message_delete`. `byCount` tells the two programs' consumers apart.
* **ApHash.** `NewHead`, `Found`, `NewRecord`, `NoRecord` are the four ways
  through `hash_ap`; `NewRecord` has the record that becomes its own successor
  (`ac/aphash.c:101`), `NoRecord` the return that keeps the bucket's lock. `sent` has
  every message that comes, also those that are dropped there and those that come after
  `net_recv` has stopped at such a lock (`stuck`), which nobody reads.
* **DllRecv.** `edge` is the event not yet fetched; one `DllRcv` per event.
  `LinkDown` leaves an error on the socket, which is an event too; `DllRcvFails` is
  what `dll_rcv` makes of -1 (the frame of the call before passes for a new one, and
  if there was none the lock stays locked); `NoMemory` spends an event.
* **AcConn.** `Accept`, `EpollAdd`, `Link` (`net_netlisten`), `Wait`,
  `NextEvent`, `Lost`, `NoMemory`, `ReadData`, `ReadEnd` (`net_recv`), `TravelTake`,
  `TravelNoMemory`, `TravelSend`, `TravelLost` (`message_travel`), and `CloseSock` for
  either. `ap_lost` and the send go by number: `peer[c] = "cut"` is a connection that was
  closed while its AP was up, and `reply[p]` what the status read last from `p` got.
  `Vanish` is an AP that fails without a word; the kernel's `TimesOut` follows only
  if the AC has sent to it. `Room` is how many statuses the read buffer takes (a
  status is 864 bytes and `NET_PKT_DATALEN` 2048, so 2): what is read at once is one
  message, and with a full buffer `recv` is called with size 0 and returns 0.
  Use after free, the failed assertion, SIGPIPE and the unchecked `malloc` of
  `__buildcmd` set `fault`, after which nothing moves.
* **ApConn.** `ac_reconnect` is `ReBegin` to `ReLink`, for the two threads that
  call it; `ac_lost` is `LostUnlink`, `LostClose`, `LostClear`, for the two that
  call that. `exit` on a failed `EPOLL_CTL_ADD` is a fault as well.

## 3. Runs

| run | what it asks | bounds |
| --- | --- | --- |
| `random_map` | is an answer of `get_random` recent and for the right AC, and what does the wrap cost? | ring of ten as in the code, two ACs, twelve draws: every offset, and a wrap |
| `reg_two_aps` | is an address that was set for a lease its AP's in the table, can a stale REG earn a lease? `NicsSame` makes both come up with one address. | one AC, three addresses, two frames in flight before a broadcast, one loss, one restart, seven randoms |
| `reg_two_acs` | can a late RESP make an AP belong to an AC it has not asked? One AC takes over the other's AP; a pool of two addresses that three broadcasts overdraw. | two ACs, one AP, the rest as above |
| `reg_live` | does the AP get registered after a loss and restarts, and under which intervals can a REG come late? | one AC, one AP, default intervals in units of 3 s (10, 1, 1) and `brditv` 3, one loss, one restart, up to nine frames in flight, any number of broadcasts |
| `ip_pool` | do rings, counters and answers agree while two threads work on them, is the range configured the last row (`RowTaken`) and the pool what is usable of the range loaded (`RangeLoaded`), what ends the AC? | three entries, nets of eight addresses, seven rows (from the net address on, up to the broadcast address with a text that fills its field, backwards, NULL, a quote, a mask that fills its field, a text that is too long), no row and failed queries, `calloc` failing at any address, three registrations of two APs, two changes; symmetric in entries and APs |
| `msg_queue` | are the pointers a queue? Both consumers. | four cells: three in the queue and one in hand, each used again |
| `ap_hash` | do chains end, are APs without a collision served, and what can stop that? | two buckets, four MACs (two collide, two are alike to `strncmp`), memory for one record, five messages: a collision that takes it, one that finds none, the message that stops `net_recv`, and one that comes too late |
| `dll_recv` | does each event have a frame, when is the lock left locked, is everyone registered if no two frames share an event? | three APs, a socket of four frames, two restarts, two failures of the link, one of `malloc` |
| `ac_conn` | does a dropped node close its own socket, which connections can a stale number hit, is all data read and answered to its AP, are ended and vanished connections dropped? | two connections of different APs, two descriptors, two statuses on one and one on the other, `Room` 1 so that two fill the buffer, any failures of `malloc` |
| `ac_conn_assert` | does `assert(len != 0)` hold? It does not. | as `ac_conn`, `Room` 2 as in the code |
| `ap_conn` | is a connection overwritten; does the AP get one back? | three connections at a time, two descriptors, a RESP, an end, a refusal |
| `ap_conn_local` | does the AP end at the local AC? It does not. | as above without ends |

Why the bounds are enough. The protocol's hazards need a frame of one round
that meets a frame of the next, a lost one, and a restart between them: two
frames in flight when a broadcast goes out, one loss and one restart give all of
these, and the proofs (section 5) carry the safety part to every bound. In
`ip_pool` the pool of three addresses has a first, a middle and a last entry, and
the one-address range is overdrawn by the second registration. Four cells give a
queue with a first, a middle and a last cell beside one in hand. In `ac_conn` a
descriptor is given to the second connection after the first was closed, which is
what every stale number needs (an AP that connects again, so that its record goes
from one number to another, is beyond the run; `WrongOnlyForOver` is proved for it),
and two sends are what an edge that comes between two reads needs, and a buffer that
is full. In `reg_live` the second
setting of the intervals has the least slack there is, `brditv` 3 against rounds of
one second each. Each ring, socket or descriptor table is also filled to its
limit in some run. `W` is the width of an address; the assumption `EveryRange` of
`MCIpPool`, which TLC evaluates before it runs, compares what is loaded with what
is usable for every range of five bits, where the int wraps as it does with 32.
`EveryRow` takes every row with values of up to two atoms through the text and
back: it is read if it is `Readable`, and as it was if it is `Short`. `LongValue` looks at
the bytes around the limit of a field, `OtherTexts` at texts that no row makes. `SchemaHolds` and
`MasksHold` say that the rows of the run are such as two theorems about `IpPool`
take for granted (section 5).

`CHECK_DEADLOCK FALSE` is stated where the bounds end the behaviours, or where the
process really stops (a fault). `msg_queue`, `ap_hash` and `dll_recv` check
deadlock.

## 4. Fairness

Weak fairness of each thread, and nothing else; no fairness of losses, restarts,
arrivals or the peers' actions.

* `net_dllbrd`, `message_travel` and `report_apstatus` are loops around a
  `sleep`, `net_recv` one around `epoll_wait`: each is scheduled again and again.
* `AcStart`: an AC that has died is started again, which `reg_live` assumes of the
  operator.
* Time in `reg_live`: `Tick` is weakly fair, and a thread whose sleep is over goes
  on. That the frames of a round are handled before the next broadcast is not
  assumed but follows (`RegInTime`) where `Slack` says that the AP's and the AC's
  `msgitv` are together shorter than `brditv`; `EventuallyRegistered` is stated under
  it. The defaults (3 s, 3 s, 30 s) have slack. Without it every REG may answer a
  broadcast that has been replaced.
* `reg_live` has one AP because of what `dll_recv` shows: the AC receives one
  frame per edge-triggered event, so two REGs that share an event leave it one
  frame behind for good, every later REG is read after the next broadcast and
  fails its CHAP. `RegisteredUnlessShared` is liveness under that condition.
* In `MsgQueue` the producer and the consumer are fair once a message has
  arrived; nothing obliges messages to arrive.
* `ApConn` and `AcConn`: a fault ends the process, so liveness is promised only
  until `fault`, and in `ApConn` until leaked connections hold every descriptor
  (`NoFdLeft`). `StatusAnswered` is also released where the code gives no answer: a
  `malloc` that fails, a connection that its AP ends or that the AC cuts in the place of
  another. `AcConn` has the kernel's retransmission timer fair (`TimesOut`), and
  in `DllRecv` a link that is down comes up again.

## 5. Proofs

TLAPS proves, for every value of the constants:

* **`RegistrationProofs`.** `Invariance`: `Spec => []IInv`, from which
  `TypeCorrect`, `AskedTheorem` (`OnlyIfAsked`), `LeaseTheorem` (`LeaseHeld`),
  `OneLeaseTheorem` (`OneLeasePerBroadcast`) and
  `TablesTheorem` (`LeasesAreTables`) follow. Assumption:
  `RegistrationAssumption` and `LocalAcMaxAssumption`, which only say that the
  placeholders are not in the sets they stand outside of and that bounds are
  numbers.
  Why `IInv` has its conjuncts: `OnlyIfAsked` is not inductive, as it says nothing
  about frames; `RandomsAsked` adds that a random in flight which the AP still
  has in its ring is one it asked that AC with. `LeaseHeld` needs `RespLeased`,
  that a RESP in flight names an address that is leased to its receiver.
  `OneLeasePerBroadcast` needs `BroadcastOpen`: as long as the latest broadcast
  or the REG that answers it is on its way, there is no second one and no lease.
  That randoms are fresh is used once each for the AC's and the AP's; the lemma
  on `get_random` says that an answer other than `NoRandom` is in the ring.
  One lemma per action preserves `IInv`, one step per conjunct the action
  disturbs.
* **`RegistrationProofs`, the clocks.** `Implementation`: every behaviour of `TimedSpec` is
  one of `Spec`, whatever the intervals; so each theorem above holds of the timed
  protocol (`TimedLeaseTheorem` states one). `TimedRegistration` is about one AC with one
  AP, and assumes so (section 4 says why). `InTimeTheorem` (`RegInTime`), for any
  intervals: `RegInTime` alone is not inductive, since a REG's age
  depends on that of the broadcast it answers. `ClockInv` adds it up: a broadcast
  that has arrived is at most as old as the part of the AP's round that is over
  (`apIn + Since <= Round(apmsgitv)`), a REG at most as old as the AP's round and
  the part of the AC's that is over; with `Slack` that is less than `brditv`, so
  when an AC broadcasts, nothing of its last broadcast is in flight
  (`BroadcastIsFirst`). `TimersOK` bounds the clocks. Assumption:
  `TimedRegistrationAssumption`, that there is one AC and one AP, options are numbers and
  the default is not 0.
* **`MsgQueueProofs`.** `Invariance`: `Spec => []QInv`; `FaultTheorem`
  (`NoFault`); `FifoTheorem`: the pointers implement `Fifo`, with the queue as a
  history variable and `held <- cur`. `QInv` says that the links are the queue up
  to the write under way (`Linked`), that cells in the queue and in the threads'
  hands are different (`CellsApart`), and that an unlocked peek stays true until
  the lock is taken (`PeekStaysTrue`), which is what makes the AC's unlocked test
  sound with one consumer per queue.
* **`DllRecvProofs`.** `EventTheorem` (`EventHasFrame`) and `LockTheorem`
  (`LockLeftOnce`) from `EventInv`, which adds that an error on the socket comes from
  the link: a first failure adds one error with one event, and only a second one can
  fall on an error not yet reported. `LockLeftOnce` needs `EventHasFrame`: without a
  failure `dll_rcv` finds a frame, so it fails for the link only.
* **`AcConnProofs`.** `OwnerTheorem` (`NodeOwnsSocket`) from `Ownership`: a node is in
  the list or in one thread's hands (`OneHolder`), and then its number stands for its
  connection (`HoldersOwn`). For that the number must not be given away while a node
  has it: `tcp_accept` takes a descriptor that is free, for a connection without a node
  (`UntakenFree`), and between `accept` and `list_add` the socket is nobody else's
  (`PendingOwns`). `SocksSet` says that epoll reports only what has a descriptor,
  `NotClosing` that a thread drops one connection at a time.
  `EdgeTheorem` (`NoEdgeLost`) from `EdgeInv`, which adds `FilesOwned` (an open
  descriptor is its connection's `sock`, so that the number `net_recv` reads from can
  only be the waiting connection's) and `EventsTrue` (an event says that a connection is
  over only if it is, and `net_recv` waits only when it has no event left). Each step
  that takes an event away is matched by the read or the close it starts; `OverStays`
  says that nothing revives a connection.
  `NumberTheorem` (`WrongOnlyForOver`) from `CutInv`: a number kept in a record, or for
  what `net_recv` is reading, is that of a connection which still has it or is over
  (`Kept`, `NumbersKept`). The numbers `net_recv` takes from events are right: an event
  is of a connection that is still in epoll, or the node is freed and the process ends
  (`EventsLive`), so that what it drops or finds empty is over (`NumberHeld`). So
  `message_travel` alone cuts by mistake: it fails to send only where a connection of the
  AP is over (`SendFailed`), and the number it drops then is its AP's, or was.
* **`RandomMapUseProofs`.** `Invariance` (`RingInv`): slot `s` holds draw `Held(s)`,
  counted back from `offset`. Then `AnswerTheorem` (`AnswerIsOurs`), `FoundTheorem`
  (`FoundUnlessWrapped`) and `NewestTheorem` (`AloneGetsNewest`) are about one state:
  `ProbeSlot` and `SlotHolds` say which draw the j-th probe of `get_random` sees, with
  the index -1 seeing none, `AnswerIsFirstHit` that the answer is the first that
  matches. Assumption: `RandomMapUseAssumption` (`NoMac` is no MAC, the bound is a
  number) and `LocalAcMaxAssumption` (the ring has more than one slot).
* **`ApConnProofs`.** `Invariance` (`ConnInv`), `TypeCorrect`, `OverwriteTheorem`
  (`NoneOverwritten`): `InHand` says that what a thread of `ac_reconnect` or `ac_lost`
  carries between two steps is a node with a descriptor.
* **`ApHashProofs`.** `Invariance` (`TableInv`), `TypeCorrect`, `ChainTheorem`
  (`ChainsEnd`): a record becomes its own successor, but no record a chain reaches gets
  one, so `ChainIsBucket` gives every chain as its bucket's record alone. This is also
  why the messages queued at such a record are never handled. `AloneTheorem` is the
  safety half of `AloneServed`: an AP alone in its bucket never gets such a record, since
  the bucket's own one always names an AP of that bucket (`Named`), so that its messages
  are where `message_travel` passes, and nothing begins that list anew. What comes after
  `net_recv` has stopped is lost; `Leaks` says that it stops only at a bucket where two
  APs have collided (`Collided`), and only once the memory is used up.
* **`IpPoolProofs`.** The rings of `list.h` for any memory. A `Ring` is a set of nodes
  that the pointers do not leave and of which no part is closed under `nxt`; said so,
  without a length, it is preserved by `list_move` and `list_add_tail` by set reasoning
  (`MoveRings`, `AddTailRings`), and `RingWalk` shows that the code's walk visits
  exactly the ring's nodes and meets its head again. `Invariance` (`PoolInv`) adds to
  the two rings the counters and the answer under way (`Answers`), and bounds how far
  `left` falls (`Overdraft`); from it `PoolTheorem` (`PoolSound`) and `TableTheorem`:
  each step of the pointers is a step of `LeaseTable` or leaves its table as it is.
  `LoadTheorem` is the arithmetic of `res_ip_reload` for every width: no net or broadcast
  address and none of another net is ever loaded, and what is usable is, where the count
  fits the int. `LoadedTheorem` (`RangeLoaded`) needs `Loading`: what is in the pool, what
  was left out for want of memory and what is still to be added are together the loaded
  range's, and `resource.bak_*` is that range or one that was refused.
  `AnswerTheorem` (`AnswerHeld`) has a condition on the rows of the table, `MasksSet`:
  that a row which is taken for a range has a netmask other than 0.0.0.0. With that mask
  the count of a range that is the wrong way round wraps in the int and becomes positive,
  the addresses run past the last one into 0.0.0.0, which is leased like the others and
  stands for "no address" in the answer. No row of `MCIpPool` is like that
  (`MasksHold`); the code does not refuse one.
  `RoundTrip` is the way of a row through the text, for any number of columns in any
  order and values that leave room for a NUL in their field: `RowTextIs` lays the text out
  column by column, `ReadColumn` takes the parser from the start of one column to that of
  the next, by one lemma for each of its states, and what it has read on the way is
  `FieldsOf` up to there. Its condition `Schema` is the table of `scripts/ac.sql`
  (`SchemaHolds`): a column per field, the names short enough for the parser. It says
  nothing of the values' lengths, which the columns do not bound (section 2): that a row
  is `Short` or `Readable` is a premise of each statement. From it `TakenTheorem`
  (`RowTaken`) and `ExitTheorem` (`ExitsOnBadText`), with `BufferIs` (the static buffer
  holds the text of the last row that was read, or nothing: why a failed poll reads that
  row again) and `RowKept` (`RowTaken` at each step of `res_check`, not only between
  polls).
  `TypeCorrect` (`TypeOK`) includes the texts that the parser makes: `ReadType` takes
  the parser through a text of any length.
  Assumptions: `IpPoolAssumption` (placeholders are outside their sets, memory is
  finite), `IpRangeAssumption` (a width, and the laws of powers of 2 that it needs: the
  prover has no exponents), `ResourceAssumption` (a cell is NULL or a text),
  `JsonAssumption`.

Where these need an induction (along a ring, a chain, a text), it is done without the
library's induction theorems: the least index at which the claim fails (`LeastIsIn`)
contradicts the one before it. A recursive function is first shown to exist (`WalkIs`,
`Steps`), since its definition is a CHOOSE.

Only model-checked:

* All liveness (`EventuallyRegistered`, `ServesAll`, `AloneServed`,
  `RegisteredUnlessShared`, `StatusRead`, `StatusAnswered`, `LostApDropped`,
  `Reconnects`): liveness under fairness and ENABLED are beyond the prover. Of `AloneServed`
  the safety half is proved.
* That no column but the three can be read, what a field without a NUL and a value
  longer than its field become, and what an escape does to a value (`LongValue`,
  `OtherTexts`, `EveryRow`), for the texts given.

Every safety invariant that a run checks is proved, and so are the refinements of
`Fifo` and `LeaseTable`.

## 6. What the checks show

With the exceptions of the next section, the parts keep what they promise. Some
results are worth stating.

* CHAP with a random per broadcast and per request refuses every stale frame, whatever
  is lost, late or restarted: no lease and no registration comes from one.
* The unlocked peeks of the queues are harmless, because each queue has one
  producer and one consumer.
* A node is dropped once, and with it the socket it was made for (`NodeOwnsSocket`). But
  `ap_lost` looks a node up by number, and the number in an AP's record may be another's
  by then (`ac/process.c:98-101`): when the send fails on a number that was closed, and
  the next connection is accepted on it before `ap_lost` runs, the healthy connection is
  dropped. `WrongOnlyForOver` says how far that goes: only in the place of a connection
  that is over, by its number or of the same AP. Commands go astray in the same way.
* The pool keeps its promise as long as its range is never changed and it never
  runs empty. A reload after the first frees every entry and leaves it linked.
* Two APs of one AC can use one address: after the AC has restarted it may lease again
  what APs of its former life still use, and an AP whose `setaddr` failed keeps an
  address that another may be given. `LeaseHeld` is about addresses set for a lease of
  the AC's current run.
* Each registration of an AP that has restarted takes one more address, since the
  address it names is leased (to itself) and only free ones are searched
  (`ac/resource.c:59`). `RegLive.cfg` has seven addresses for that reason.

* Whether an AP is ever registered depends on two options that nothing compares
  (`lib/arg.c:83-90`): `RegInTime` and `EventuallyRegistered` hold where the rounds
  of both sides together are shorter than `brditv`.
* A failed poll is harmless after the first success: the text of the poll before is
  parsed again and gives the range that is configured already (`RowTaken`). Before it,
  the empty buffer parses as an object without fields.
* A status that is read is answered to its own AP unless that ends the connection, the
  connection is cut in the place of another, or there is no memory, in which case it is
  never answered (`StatusAnswered`, for APs with one connection each: one that has made
  another is answered on that, and not at all if it has ended).
* The messages of APs that collide with no other are handled whatever collides, but one
  failed `calloc` at a collision stops the reception of everybody's (`AloneServed`).
* An AP that vanishes is noticed only if an answer to it is outstanding: the AP's
  sockets have keepalive (`tcp_connect`), the AC's have not (`tcp_accept`).
* After a link failure `dll_rcv` takes the frame it received before for a new one and
  fails, or, without one, keeps its lock (`LockLeftOnce`); two failures of the link
  may leave an event without a frame (`EventHasFrame`).

## 7. Where code and comments disagree

Checked by a run that TLC refutes, under `findings` in `PROJECT.json`:

* `assert(len != 0)` (`lib/netlayer.c:129`) fails when an AP sends a status and
  closes before the AC has read to the end. It fails too when three statuses wait
  for one read, since the buffer has room for two (`RecvZero`).
* "ap will first connect remote ac, but if find local ac, ap will connect to
  local ac" (`ap/process.c:94`): a connect under way when the RESP comes keeps the old
  address, and the RESP's own `ac_reconnect` then finds a connection.

Met while modelling; each is in a module as the code has it, and the properties
of that module say up to which point things hold:

* `get_random` should look at the newest slot first (`ap/process.c:150`), but just
  after the ring has wrapped it ends on the oldest (`AloneGetsNewest`).
* An AP that belongs elsewhere answers with the uuid of the AC that broadcast
  (`ap/process.c:199`), so `is_mine` never reports it (`AcRecvApResp`).
* "When the tcp link is broken the AP is taken to be lost" (`README.md:38`, in Chinese):
  a connection whose end is reported between `EPOLL_CTL_ADD` and its insertion in the
  list (`lib/link.c:166-176`) is never dropped (`LostApDropped` starts after it).
* "Delete the aphash record" (`README.md:39`, in Chinese): no code deletes a record, and
  `ap_lost` leaves the number of the socket in it (`TravelLost`).
* A row is written without escapes (`include/mjson.h:153`), and a row that does not
  parse ends the AC (`ac/resource.c:273`): `ExitsOnBadText` says which. The fields have 20
  bytes and the columns up to 45 (`scripts/ac.sql:30-34`); 20 are taken and stored
  without a NUL (`lib/mjson.c:371`, `518`).
* `sql_query` tests `res`, the address of a variable, where it means `*res`
  (`ac/sql.c:38`, `ResNoResult`).
* `dll_rcv` returns without `UNLOCK_RCV` (`lib/dllayer.c:312`, `DllRcvFails`).
* The help text says "(default 30)" of `msgitv` (`lib/cmdarg.c:72`); it is a tenth of
  the other interval (`lib/arg.c:84`, `90`, `acmsgitv`, `apmsgitv`).
* `proc_cmdarg` begins with a `memset` of `argument` (`lib/cmdarg.c:109`), after
  `proc_cfgarg` has filled it from the configuration file (`lib/arg.c:98`).
* `res_ip_alloc`'s guard (`ac/resource.c:40`) is inverted: with an empty pool the
  list head is leased (`AllocFirst`, `RegOverdrawn`).
* The second AP of a bucket gets a record that no chain reaches, and its messages
  are never handled (`NewRecord`); a failed `calloc` there keeps the
  bucket locked and stops `net_recv` at its next message (`NoRecord`, `Receive`).
* One receive per edge-triggered event (`ac/net.c:50`, `RegisteredUnlessShared`).
* A dropped connection's number stays in the AP's record, and is read twice by
  `__ap_status` (`ac/process.c:98-101`, `WrongOnlyForOver`).

## 8. Not modelled

* Of `ac/sql.c`, the connection and the list of columns at start-up: the columns are
  a constant, as no program of the repository changes them. Of `lib/mjson.c`,
  everything but an object of string fields, which no caller reaches: arrays,
  numbers, booleans, enumerations, times, nested objects.
* MD5 (vendored). Of the options, all but the intervals and the NIC's address; what
  `proc_cfgarg` reads is wiped before it is used.
* The contents of a status report and `MSG_AC_CMD`, which the other side only
  prints; the menu; `test/`.
* Frames that the segment duplicates; flow control on TCP (`tcp_sendpkt`
  retries while the window is closed); connections that begin with
  a reset; `accept` failing except for want of a descriptor.
* The `takeover` field of a broadcast is never assigned and comes from fresh
  `malloc` memory (`ac/net.c:139`); `Registration` has it as a constant, and the
  closing branch of `_proc_brd_isreg` is not in `ApConn`.
* The netmask is a prefix.

## 9. Plan

Done in this order, the most important first: `RandomMap`, `Registration` and its
proofs; `LeaseTable`, `ListHead`, `IpPool`; `Fifo`, `MsgQueue` and its proofs;
`AcConn`, `ApConn`; `DllRecv`, `IpRange`, `ApHash`; `Json`, `Resource`;
`TimedRegistration` and its proofs; the proofs of `DllRecv` and `AcConn`; those of
`RandomMapUse`, `ApConn`, `IpPool` and `ApHash`, and `NoEdgeLost` of `AcConn`; the way of
a row through text and parser (`RoundTrip`) with what follows from it, and `AloneTheorem`.
To come:

1. A module for what the sequence "RESP, `ac_reconnect`, first status" does across
   the two programs: `Registration` composed with `ApConn`'s and `AcConn`'s
   abstractions, each stated as an abstract specification that they implement.
2. A run of `AcConn` in which an AP connects again, and what `StatusAnswered` is then;
   the takeover branch in `ApConn`; duplicated frames in `Registration`; flow
   control in `AcConn`.
3. `ApHash` over `MsgQueue`'s abstraction `Fifo`, as INSTANCE per record.
4. Proofs of the safety half of the other liveness properties: a bound on the rounds
   `message_travel` needs in `ApHash`; in `AcConn`, that the record of an AP has the
   socket of the connection its last status came on for as long as that one is open,
   which needs a history variable for the connection.

## 10. Running it

    tlc -config RegTwoAps.cfg MCRegistration
    tlapm RegistrationProofs.tla

`PROJECT.json` lists for each run its module, configuration and properties, for
each property a faulty variant of a definition (named `..._...`, and marked
"faulty" in the module) that the run must detect, and for each definition the
lines it models.
