-------------------------------- MODULE Fifo --------------------------------
(* What a message queue promises its users: messages come out in the order *)
(* they went in, each to one receiver; a queue that is closed takes no     *)
(* message more and lets every receiver go.                                *)
EXTENDS Sequences

CONSTANTS Messages, Receivers

VARIABLES
    queue,   \* the messages sent and not yet received or flushed
    open,    \* the queue exists and has not been unblocked
    asking,  \* the receivers inside a receive
    got      \* the message each receiver was last given

fifoVars == <<queue, open, asking, got>>

FifoInit ==
    /\ queue = <<>> /\ ~open
    /\ asking = {}
    /\ got = [r \in Receivers |-> {}]

Open == ~open /\ asking = {} /\ queue = <<>> /\ open' = TRUE /\ UNCHANGED <<queue, asking, got>>

Send(m) == open /\ queue' = Append(queue, m) /\ UNCHANGED <<open, asking, got>>

Ask(r) ==
    /\ open /\ r \notin asking /\ queue = <<>>
    /\ asking' = asking \cup {r}
    /\ UNCHANGED <<queue, open, got>>

Deliver(r) ==
    /\ queue # <<>>
    /\ queue' = Tail(queue)
    /\ got' = [got EXCEPT ![r] = {Head(queue)}]
    /\ asking' = asking \ {r}
    /\ UNCHANGED open

LetGo(r) ==
    /\ r \in asking /\ ~open /\ queue = <<>>
    /\ asking' = asking \ {r}
    /\ UNCHANGED <<queue, open, got>>

Flush == queue # <<>> /\ queue' = <<>> /\ UNCHANGED <<open, asking, got>>

Close == open /\ open' = FALSE /\ UNCHANGED <<queue, asking, got>>

\* Someone inside a receive gets away with a message, or because there will be none.
Serve == \E r \in asking : Deliver(r) \/ LetGo(r)

FifoNext ==
    \/ Open \/ Flush \/ Close \/ Serve
    \/ \E m \in Messages : Send(m)
    \/ \E r \in Receivers : Ask(r) \/ Deliver(r)

FifoSafe == FifoInit /\ [][FifoNext]_fifoVars

FifoSpec == FifoSafe /\ WF_fifoVars(Serve)
=============================================================================
