------------------------------ MODULE MsgQueue ------------------------------
(* The message queue of the location utilities: msg_q.c, a mutex and a     *)
(* condition around the doubly linked list of linked_list.c.  Elements are *)
(* addresses; a message goes in at the head and comes out at the tail.  A  *)
(* critical section is one step, because no thread waits inside one except *)
(* in pthread_cond_wait, where it lets the mutex go.                       *)
EXTENDS Naturals, Sequences, FiniteSets

CONSTANTS
    Messages, Receivers,
    Elements,      \* the addresses malloc can return for an element
    MaxQueues      \* bound on the queues made one after the other

VARIABLES
    list,          \* list_state and its elements: head, tail, next, prev, data
    live,          \* msg_q_init has run and msg_q_destroy has not
    unblocked,
    rcv,           \* where each receiver is: out of a call, waiting, or woken
    msg_obj,       \* *msg_obj of each receiver's last success (a set of 0 or 1)
    queues         \* queues made so far

queueVars == <<list, live, unblocked, rcv, msg_obj, queues>>

Null == "NULL"

\* malloc never returns NULL for an address, and there are only so many.
ASSUME ElementsAssumption == IsFiniteSet(Elements) /\ Null \notin Elements

\* linked_list_init: calloc, then both ends NULL.
linked_list_init ==
    [head |-> Null, tail |-> Null, next |-> <<>>, prev |-> <<>>, data |-> <<>>]

Allocated(l) == DOMAIN l.next

Put(f, e, v) == [x \in DOMAIN f \cup {e} |-> IF x = e THEN v ELSE f[x]]

Drop(f, e) == [x \in DOMAIN f \ {e} |-> f[x]]

\* linked_list_add: the new element e becomes the head.
linked_list_add(l, e, d) ==
    [head |-> e,
     tail |-> IF l.head = Null THEN e ELSE l.tail,
     next |-> Put(l.next, e, l.head),
     prev |-> IF l.head = Null THEN Put(l.prev, e, Null)
              ELSE Put(Put(l.prev, e, Null), l.head, e),
     data |-> Put(l.data, e, d)]

\* linked_list_remove, when the tail is not NULL: the tail is unlinked and freed.
linked_list_remove(l) ==
    LET tmp == l.tail
        tail == l.prev[tmp]
    IN  [head |-> IF tail = Null THEN Null ELSE l.head,
         tail |-> tail,
         next |-> Drop(IF tail = Null THEN l.next ELSE Put(l.next, tail, Null), tmp),
         prev |-> Drop(l.prev, tmp),
         data |-> Drop(l.data, tmp)]

linked_list_empty(l) == l.head = Null

\* s is the list that begins at e, as a pointer field links it up to NULL.
Linked(field, e, s) ==
    /\ IF s = <<>> THEN e = Null ELSE s[1] = e
    /\ \A n \in DOMAIN s :
         /\ s[n] \in DOMAIN field
         /\ field[s[n]] = IF n = Len(s) THEN Null ELSE s[n + 1]

\* The elements met from e on by following a pointer field.
Follow(field, e) ==
    CHOOSE s \in UNION {[1..n -> Elements] : n \in 0..Cardinality(Elements)} :
        Linked(field, e, s)

\* linked_list_flush: frees what it meets from the head on, then clears the tail.
linked_list_flush(l) ==
    LET order == Follow(l.next, l.head)
        met == {order[n] : n \in DOMAIN order}
        Kept(f) == [x \in DOMAIN f \ met |-> f[x]]
    IN  [head |-> Null, tail |-> Null,
         next |-> Kept(l.next), prev |-> Kept(l.prev), data |-> Kept(l.data)]

QueueInit ==
    /\ list = linked_list_init
    /\ live = FALSE
    /\ unblocked = FALSE
    /\ rcv = [r \in Receivers |-> "out"]
    /\ msg_obj = [r \in Receivers |-> {}]
    /\ queues = 0

Waiting == {r \in Receivers : rcv[r] = "waiting"}

Woken(set) == [r \in Receivers |-> IF r \in set THEN "woken" ELSE rcv[r]]

\* Faulty variant: the sender does not signal.
NoSignal == {rcv}

\* pthread_cond_signal wakes one of the waiting threads, if there is one.
cond_signal == IF Waiting = {} THEN {rcv} ELSE {Woken({r}) : r \in Waiting}

\* pthread_cond_broadcast.
cond_broadcast == Woken(Waiting)

\* A failure of calloc or pthread_*_init frees what was made: nothing changes.
msg_q_init ==
    /\ ~live /\ queues < MaxQueues
    /\ live' = TRUE
    /\ list' = linked_list_init
    /\ unblocked' = FALSE
    /\ queues' = queues + 1
    /\ UNCHANGED <<rcv, msg_obj>>

\* Nobody may be inside a call: the mutex and the condition go away.
msg_q_destroy ==
    /\ live /\ unblocked
    /\ \A r \in Receivers : rcv[r] = "out"
    /\ list' = linked_list_flush(list)
    /\ live' = FALSE
    /\ unblocked' = FALSE
    /\ UNCHANGED <<rcv, msg_obj, queues>>

\* The signal is sent although malloc may have failed.
msg_q_snd(m) ==
    /\ live /\ ~unblocked
    /\ \/ \E e \in Elements \ Allocated(list) : list' = linked_list_add(list, e, m)
       \/ UNCHANGED list
    /\ rcv' \in cond_signal
    /\ UNCHANGED <<live, unblocked, msg_obj, queues>>

\* linked_list_remove on an empty list returns "unavailable" and no message.
Remove(r) ==
    /\ rcv' = [rcv EXCEPT ![r] = "out"]
    /\ IF list.tail = Null THEN UNCHANGED <<list, msg_obj>>
       ELSE /\ msg_obj' = [msg_obj EXCEPT ![r] = {list.data[list.tail]}]
            /\ list' = linked_list_remove(list)

WaitOrRemove(r) ==
    \/ linked_list_empty(list) /\ ~unblocked
       /\ rcv' = [rcv EXCEPT ![r] = "waiting"] /\ UNCHANGED <<list, msg_obj>>
    \/ ~(linked_list_empty(list) /\ ~unblocked) /\ Remove(r)

msg_q_rcv(r) ==
    /\ live /\ ~unblocked /\ rcv[r] = "out"
    /\ WaitOrRemove(r)
    /\ UNCHANGED <<live, unblocked, queues>>

\* pthread_cond_wait returns, and the loop tests again.
RcvWake(r) ==
    /\ rcv[r] = "woken"
    /\ WaitOrRemove(r)
    /\ UNCHANGED <<live, unblocked, queues>>

\* pthread_cond_wait may return without a signal.
Spurious(r) ==
    /\ rcv[r] = "waiting"
    /\ rcv' = Woken({r})
    /\ UNCHANGED <<list, live, unblocked, msg_obj, queues>>

msg_q_flush ==
    /\ live
    /\ list' = linked_list_flush(list)
    /\ UNCHANGED <<live, unblocked, rcv, msg_obj, queues>>

msg_q_unblock ==
    /\ live /\ ~unblocked
    /\ unblocked' = TRUE
    /\ rcv' = cond_broadcast
    /\ UNCHANGED <<list, live, msg_obj, queues>>

QueueNext ==
    \/ msg_q_init \/ msg_q_destroy \/ msg_q_flush \/ msg_q_unblock
    \/ \E m \in Messages : msg_q_snd(m)
    \/ \E r \in Receivers : msg_q_rcv(r) \/ RcvWake(r) \/ Spurious(r)

\* A woken thread gets the mutex back; nothing makes users call.
QueueFairness == \A r \in Receivers : WF_queueVars(RcvWake(r))

QueueSpec == QueueInit /\ [][QueueNext]_queueVars /\ QueueFairness

Contents == LET order == Follow(list.prev, list.tail)
            IN  [n \in DOMAIN order |-> list.data[order[n]]]

Abstract == INSTANCE Fifo WITH
    queue <- Contents,
    open <- live /\ ~unblocked,
    asking <- {r \in Receivers : rcv[r] # "out"},
    got <- msg_obj

\* The queue implements the abstract one: messages leave in the order they were
\* sent, whatever the interleaving of senders, receivers, flush and unblock, and
\* no receiver sleeps on while there is a message for it or after msg_q_unblock
\* (the loop on list_cond in msg_q_rcv and the signal in msg_q_snd).
QueueIsFifo == Abstract!FifoSpec
=============================================================================
