-------------------------------- MODULE Fifo --------------------------------
(***************************************************************************)
(* What a message queue promises (ap/message.c; ac/aphash.c for one AP):   *)
(* the messages are handled one at a time, in the order they came, once    *)
(* each.                                                                   *)
(***************************************************************************)
EXTENDS Sequences

CONSTANTS Cell, NULL

VARIABLES queue,    \* the messages waiting
          held      \* the message being handled, or NULL

vars == <<queue, held>>

Waiting == {queue[i] : i \in DOMAIN queue}

Init == queue = << >> /\ held = NULL

Put(c) ==
    /\ c \notin Waiting /\ c # held
    /\ queue' = Append(queue, c)
    /\ UNCHANGED held

Get ==
    /\ held = NULL /\ queue # << >>
    /\ held' = Head(queue) /\ queue' = Tail(queue)

Done == held # NULL /\ held' = NULL /\ UNCHANGED queue

Next == Get \/ Done \/ \E c \in Cell : Put(c)

Spec == Init /\ [][Next]_vars
=============================================================================
