----------------------------- MODULE RilSession -----------------------------
(***************************************************************************)
(* libril's command sockets (ril.cpp): the listen, debug and command       *)
(* callbacks on the event-loop thread, the list of pending requests, and   *)
(* RIL_onRequestComplete running on the vendor RIL's threads or on the     *)
(* loop itself.                                                            *)
(*                                                                         *)
(* The loop's waiting is RilEvent's subject; here one step evaluates       *)
(* select() and queues the callbacks.  Timers, the wake-up pipe and the    *)
(* unsolicited responses are left to RilEvent and RilUnsol.                *)
(*                                                                         *)
(* A connection stands for a client's socket, a descriptor for the small   *)
(* integer the kernel hands out, lowest first, and hands out again after   *)
(* close().  A request block is pooled like heap memory: calloc may return *)
(* an address that was freed before.                                       *)
(***************************************************************************)
EXTENDS RilWatch, Sequences

CONSTANTS
    NumConns,         \* bound: connections made over the whole run
    ReqsPerConn,      \* bound: requests a client sends on one connection
    Addrs,            \* heap addresses of RequestInfo blocks
    VendorThreads,    \* threads of the vendor RIL
    Loop,             \* the event-loop thread
    s_maxNumClients,  \* RIL_setMaxNumClients: 1, or 2 on dual-SIM devices
    Kinds,            \* the kinds of request records clients send
    Visitors,         \* who connects: client ids, "stranger", "silent"
    DebugOptions,     \* what arrives on the debug socket
    EagerReconnect,   \* a client may connect again before its EOF is handled
    CompleteTwice     \* the vendor RIL may complete a token a second time

Clients == {0, 1}
Cmd(c) == IF c = 0 THEN "cmd0" ELSE "cmd1"

ASSUME SessionAssumption ==
    /\ Events = {"listen", "debug", "cmd0", "cmd1"}
    /\ NumConns \in Nat /\ ReqsPerConn \in Nat
    /\ s_maxNumClients \in {1, 2} /\ Loop \notin VendorThreads
    /\ Kinds \subseteq {"plain", "radioTech", "unknown", "malformed", "badBlock"}
    /\ Visitors \subseteq (Clients \X {"phone", "silent"}) \cup {<<0, "stranger">>}
    /\ DebugOptions \subseteq {"request", "radioOn", "nothing", "powerOff", "abort"}
    /\ EagerReconnect \in BOOLEAN /\ CompleteTwice \in BOOLEAN
    /\ MaxFd >= 2 /\ NULL \notin Addrs

ListenFd == 0
DebugFd  == 1
ConnFds  == 2 .. MaxFd
Conns    == 1 .. NumConns
NoConn   == 0
New      == -1   \* index of the record stream listenCallback has just made
Tokens   == Conns \X (0 .. ReqsPerConn)   \* number 0: a local request
Threads  == VendorThreads \cup {Loop}

VARIABLES
    watch, pending_list,
    unlinked,       \* queued events that ril_event_set has zeroed meanwhile
    alive,          \* FALSE once the daemon is dead
    lpc, cur,       \* the loop thread: where it is, whose callback it runs
    conn,           \* the kernel's view of each connection
    fdOwner,        \* the connection behind each descriptor, or NoConn
    s_fdCommand,    \* the descriptor of each client, or -1
    rs,             \* the descriptor of each client's record stream, and of the
                    \* one listenCallback has made and not yet installed
    req,            \* the RequestInfo blocks
    pendingReqs,    \* s_pendingRequests: the addresses in the list
    jobs,           \* what the vendor RIL holds: <<address, token>>
    thr,            \* RIL_onRequestComplete in progress on each thread
    torn,           \* a failed response write has closed a watched descriptor
    answers         \* per token, the connections its responses arrived on

loopVars == <<watch, pending_list, unlinked, lpc, cur>>
sockVars == <<conn, fdOwner, s_fdCommand, rs>>
reqVars  == <<req, pendingReqs, jobs>>
vars == <<loopVars, sockVars, reqVars, alive, thr, torn, answers>>

Free == [tok |-> <<0, 0>>, client |-> 0, cancelled |-> FALSE, local |-> FALSE]
Idle == [pc |-> "idle", addr |-> NULL, tok |-> <<0, 0>>, client |-> 0, fd |-> -1, left |-> 0]
Unused == [by |-> <<0, "phone">>, port |-> "rild", st |-> "none", peer |-> FALSE,
           sent |-> 0, inbox |-> <<>>]
-----------------------------------------------------------------------------
(* RIL_register's watch table: listen and debug sockets, both persistent.  *)
StartWatch ==
    EventAdd(EventAdd(NoWatch([e \in Events |-> CASE e = "listen" -> ListenFd
                                                  [] e = "debug"  -> DebugFd
                                                  [] OTHER        -> -1],
                              [e \in Events |-> TRUE]), "listen"), "debug")

(* "delete the listen event from the watch list so that it doesn't get     *)
(* piled up", then rilEventAddWakeup.                                      *)
Relisten(w) == EventAdd(EventDel(w, "listen"), "listen")

LowestFd(fds) == CHOOSE f \in fds : \A g \in fds : f <= g
FreeFds == {f \in ConnFds : fdOwner[f] = NoConn}

Queued(port) == {k \in Conns : conn[k].st = "queued" /\ conn[k].port = port}
(* accept() takes the connection that has waited longest.                  *)
FirstQueued(port) == CHOOSE k \in Queued(port) : \A j \in Queued(port) : k <= j

Readable(f) ==
    CASE f = ListenFd -> Queued("rild") # {}
      [] f = DebugFd  -> Queued("debug") # {}
      [] OTHER -> fdOwner[f] # NoConn /\ (conn[fdOwner[f]].inbox # <<>> \/ ~conn[fdOwner[f]].peer)
BadFds == {f \in watch.readFds \cap ConnFds : fdOwner[f] = NoConn}

(* close(fd): the descriptor is free again, its connection is gone.        *)
CloseFd(f) ==
    IF f \in ConnFds /\ fdOwner[f] # NoConn
    THEN /\ conn' = [conn EXCEPT ![fdOwner[f]] = [@ EXCEPT !.st = "closed", !.inbox = <<>>]]
         /\ fdOwner' = [fdOwner EXCEPT ![f] = NoConn]
    ELSE UNCHANGED <<conn, fdOwner>>
-----------------------------------------------------------------------------
(* ril_event_loop: select() fails when a watched descriptor was closed     *)
(* behind its back, unless it was already asleep on it; the daemon then    *)
(* kills itself.  Otherwise the ready events are queued in table order.    *)
SelectFails ==
    /\ alive /\ lpc = "select" /\ BadFds # {}
    /\ alive' = FALSE
    /\ UNCHANGED <<loopVars, sockVars, reqVars, thr, torn, answers>>

InTableOrder(slots) ==
    CHOOSE s \in [1 .. Cardinality(slots) -> slots] :
        \A i, j \in 1 .. Cardinality(slots) : i < j => s[i] < s[j]

Select ==
    /\ alive /\ lpc = "select"
    /\ LET ready == {f \in watch.readFds : f < watch.nfds /\ Readable(f)} \cup BadFds
           order == InTableOrder(ReadySlots(watch, ready))
       IN  /\ ready # {}
           /\ pending_list' = [i \in DOMAIN order |-> watch.table[order[i]]]
    /\ lpc' = "fire"
    /\ UNCHANGED <<watch, unlinked, cur, sockVars, reqVars, alive, thr, torn, answers>>

(* firePending: an event zeroed by ril_event_set while it was queued has   *)
(* null links, and unlinking it crashes the daemon.                        *)
FirePending ==
    /\ alive /\ lpc = "fire" /\ pending_list # <<>>
    /\ IF Head(pending_list) \in unlinked
       THEN alive' = FALSE /\ UNCHANGED loopVars
       ELSE /\ cur' = Head(pending_list)
            /\ pending_list' = Tail(pending_list)
            /\ lpc' = "entered"
            /\ UNCHANGED <<watch, unlinked, alive>>
    /\ UNCHANGED <<sockVars, reqVars, thr, torn, answers>>

FireDone ==
    /\ alive /\ lpc = "fire" /\ pending_list = <<>>
    /\ lpc' = "select" /\ cur' = NULL
    /\ UNCHANGED <<watch, pending_list, unlinked, sockVars, reqVars, alive, thr, torn, answers>>

Entered(e) == alive /\ lpc = "entered" /\ cur = e
-----------------------------------------------------------------------------
(* onCommandsSocketClosed marks every request in the list, whoever sent it *)
(* (faulty variant: only the first one).                                   *)
Cancel(addrs) ==
    req' = [a \in Addrs |-> IF a \in addrs THEN [req[a] EXCEPT !.cancelled = TRUE] ELSE req[a]]
CancelFirst ==
    IF pendingReqs = {} THEN UNCHANGED req ELSE Cancel({CHOOSE a \in pendingReqs : TRUE})
CancelAll == Cancel(pendingReqs)

(* listenCallback: accept() fails, for lack of a descriptor or with some   *)
(* transient error, ...                                                    *)
AcceptFails ==
    /\ Entered("listen")
    /\ watch' = Relisten(watch)
    /\ lpc' = "fire"
    /\ UNCHANGED <<pending_list, unlinked, cur, sockVars, reqVars, alive, thr, torn, answers>>

(* ... or the peer is not the phone process: it is turned away, and every  *)
(* pending request is cancelled all the same.                              *)
(* (Faulty variant: the daemon stops listening and forgets to go on.)      *)
TurnAway(w) ==
    /\ Entered("listen") /\ Queued("rild") # {} /\ FreeFds # {}
    /\ conn[FirstQueued("rild")].by[2] = "stranger"
    /\ conn' = [conn EXCEPT ![FirstQueued("rild")].st = "closed"]
    /\ CancelAll
    /\ watch' = w
    /\ lpc' = "fire"
    /\ UNCHANGED <<pending_list, unlinked, cur, fdOwner, s_fdCommand, rs, pendingReqs, jobs, alive,
                   thr, torn, answers>>

AcceptStrangerDeaf == TurnAway(EventDel(watch, "listen"))
AcceptStranger == TurnAway(Relisten(watch))

(* The tail of listenCallback: client c now has descriptor fd.             *)
Install(w, c, fd) ==
    LET command == [s_fdCommand EXCEPT ![c] = fd]
        all     == \A i \in 0 .. (s_maxNumClients - 1) : command[i] # -1
        quiet   == IF all THEN EventDel(w, "listen") ELSE w
    IN  /\ s_fdCommand' = command
        /\ watch' = EventAdd(EventSet(quiet, Cmd(c), fd, TRUE), Cmd(c))
        /\ unlinked' = unlinked \cup ({Cmd(c)} \cap {pending_list[i] : i \in DOMAIN pending_list})

(* ... or it is: the connection gets a descriptor and a record stream, and *)
(* the callback asks for its subscription with a read that blocks, on the  *)
(* loop thread, for as long as the client neither writes nor hangs up.     *)
AcceptPhone ==
    /\ Entered("listen") /\ Queued("rild") # {} /\ FreeFds # {}
    /\ conn[FirstQueued("rild")].by[2] # "stranger"
    /\ LET k  == FirstQueued("rild")
           fd == LowestFd(FreeFds)
       IN  /\ conn' = [conn EXCEPT ![k].st = "accepted"]
           /\ fdOwner' = [fdOwner EXCEPT ![fd] = k]
           /\ rs' = [rs EXCEPT ![New] = fd]
    /\ lpc' = "subscribe"
    /\ UNCHANGED <<watch, pending_list, unlinked, cur, s_fdCommand, reqVars, alive, thr, torn,
                   answers>>

Subscriber == fdOwner[rs[New]]
Subscribing == alive /\ lpc = "subscribe"

(* A phone sends its subscription as it connects.  onNewCommandConnect     *)
(* then greets it with unsolicited responses: when the phone has left in   *)
(* the meantime that write fails, and closes the descriptor just watched.  *)
ReadSubscription ==
    /\ Subscribing /\ Subscriber # NoConn /\ conn[Subscriber].by[2] = "phone"
    /\ rs' = [rs EXCEPT ![conn[Subscriber].by[1]] = rs[New]]
    /\ Install(watch, conn[Subscriber].by[1], rs[New])
    /\ IF conn[Subscriber].peer
       THEN conn' = [conn EXCEPT ![Subscriber].st = "open"] /\ UNCHANGED <<fdOwner, torn>>
       ELSE CloseFd(rs[New]) /\ torn' = TRUE
    /\ lpc' = "fire"
    /\ UNCHANGED <<pending_list, cur, reqVars, alive, thr, answers>>

(* The client hangs up without a subscription, or a failed response write  *)
(* on a recycled descriptor number has closed the socket under the read:   *)
(* it is closed and the daemon listens again, but the callback goes on     *)
(* with fd = -1 and whatever id its unwritten buffer happens to spell.     *)
SubscriptionFails ==
    /\ Subscribing
    /\ Subscriber # NoConn => conn[Subscriber].by[2] = "silent" /\ ~conn[Subscriber].peer
    /\ CloseFd(rs[New])
    /\ \E c \in Clients :
          /\ rs' = [rs EXCEPT ![c] = rs[New]]
          /\ Install(Relisten(watch), c, -1)
    /\ CancelAll
    /\ lpc' = "fire"
    /\ UNCHANGED <<pending_list, cur, pendingReqs, jobs, alive, thr, torn, answers>>

(* The last call of processCommandsCallback at the end of a stream.        *)
OnCommandsSocketClosed ==
    /\ alive /\ lpc = "cancel"
    /\ CancelAll
    /\ lpc' = "fire"
    /\ UNCHANGED <<watch, pending_list, unlinked, cur, sockVars, pendingReqs, jobs, alive, thr,
                   torn, answers>>
-----------------------------------------------------------------------------
(* processCommandsCallback for client c: read records until the stream is  *)
(* dry, or ends.                                                           *)
CommandsEnter(c) ==
    /\ Entered(Cmd(c))
    /\ lpc' = "read"
    /\ UNCHANGED <<watch, pending_list, unlinked, cur, sockVars, reqVars, alive, thr, torn,
                   answers>>

Stream(c) == fdOwner[rs[c]]
Reading(c) == alive /\ lpc = "read" /\ cur = Cmd(c)

StreamDry(c) ==
    /\ Reading(c) /\ Stream(c) # NoConn
    /\ conn[Stream(c)].inbox = <<>> /\ conn[Stream(c)].peer
    /\ lpc' = "fire"
    /\ UNCHANGED <<watch, pending_list, unlinked, cur, sockVars, reqVars, alive, thr, torn,
                   answers>>

(* End of stream or a read error: close what s_fdCommand holds, forget it, *)
(* stop watching, listen again, cancel.                                    *)
EndStream(c, w) ==
    /\ Reading(c)
    /\ Stream(c) # NoConn => conn[Stream(c)].inbox = <<>> /\ ~conn[Stream(c)].peer
    /\ CloseFd(s_fdCommand[c])
    /\ s_fdCommand' = [s_fdCommand EXCEPT ![c] = -1]
    /\ watch' = w
    /\ lpc' = "cancel"
    /\ UNCHANGED <<pending_list, unlinked, cur, reqVars, alive, thr, torn, answers>>

(* Faulty variant: the command event stays watched.                        *)
StreamEndsWatched(c) == EndStream(c, Relisten(watch)) /\ UNCHANGED rs

StreamEnds(c) == EndStream(c, Relisten(EventDel(watch, Cmd(c)))) /\ UNCHANGED rs

(* processCommandBuffer.  A record is <<kind, token>>.                     *)
Record(c) == Head(conn[Stream(c)].inbox)
TakeRecord(c) == conn' = [conn EXCEPT ![Stream(c)].inbox = Tail(@)]
HasRecord(c, kind) ==
    /\ Reading(c) /\ Stream(c) # NoConn
    /\ conn[Stream(c)].inbox # <<>> /\ Record(c)[1] = kind
    /\ TakeRecord(c)

FreeAddrs == {a \in Addrs : req[a] = Free}

(* The block of a new request is linked into s_pendingRequests before its  *)
(* dispatch function runs.                                                 *)
NewRequest(a, tok, c) ==
    /\ a \in FreeAddrs
    /\ req' = [req EXCEPT ![a] = [tok |-> tok, client |-> c, cancelled |-> FALSE, local |-> FALSE]]
    /\ pendingReqs' = pendingReqs \cup {a}

(* Dispatch to the vendor RIL's onRequest.                                 *)
Job(a, tok) == [addr |-> a, tok |-> tok, again |-> CompleteTwice]
DispatchPlain(c, a) ==
    /\ HasRecord(c, "plain")
    /\ NewRequest(a, Record(c)[2], c)
    /\ jobs' = jobs \cup {Job(a, Record(c)[2])}
    /\ UNCHANGED <<loopVars, fdOwner, s_fdCommand, rs, alive, thr, torn, answers>>

(* dispatchVoiceRadioTech, dispatchCdmaSubscriptionSource: with the radio  *)
(* on the vendor RIL gets the request; an old RIL's state is decoded and   *)
(* the request completed here; with the radio off it is completed here and *)
(* then, for lack of a return, completed once more.                        *)
DispatchRadioTech(c, a) ==
    /\ HasRecord(c, "radioTech")
    /\ NewRequest(a, Record(c)[2], c)
    /\ \/ /\ jobs' = jobs \cup {Job(a, Record(c)[2])}
          /\ UNCHANGED <<lpc, thr>>
       \/ \E n \in {1, 2} :
             /\ thr' = [thr EXCEPT ![Loop] = [Idle EXCEPT !.pc = "dequeue", !.addr = a,
                                               !.tok = Record(c)[2], !.left = n]]
             /\ lpc' = "complete"
             /\ UNCHANGED jobs
    /\ UNCHANGED <<watch, pending_list, unlinked, cur, fdOwner, s_fdCommand, rs, alive, torn,
                   answers>>

(* invalidCommandBlock: the request stays in the list, nobody answers it.  *)
DispatchBadBlock(c, a) ==
    /\ HasRecord(c, "badBlock")
    /\ NewRequest(a, Record(c)[2], c)
    /\ UNCHANGED <<loopVars, fdOwner, s_fdCommand, rs, jobs, alive, thr, torn, answers>>

(* A block too short for its header is dropped.                            *)
DropMalformed(c) ==
    /\ HasRecord(c, "malformed")
    /\ UNCHANGED <<loopVars, fdOwner, s_fdCommand, rs, reqVars, alive, thr, torn, answers>>

(* An unknown request code is answered with an error at once.              *)
RejectUnknown(c) ==
    /\ HasRecord(c, "unknown")
    /\ thr' = [thr EXCEPT ![Loop] = [Idle EXCEPT !.pc = "choose", !.tok = Record(c)[2],
                                                  !.client = c, !.left = 1]]
    /\ lpc' = "complete"
    /\ UNCHANGED <<watch, pending_list, unlinked, cur, fdOwner, s_fdCommand, rs, reqVars, alive,
                   torn, answers>>
-----------------------------------------------------------------------------
(* debugCallback: accept fails; or the debug client hangs up without a     *)
(* subscription; or the accepted socket takes the client's place in        *)
(* s_fdCommand while its command is read and run.                          *)
DebugAccept ==
    LET k  == FirstQueued("debug")
        fd == LowestFd(FreeFds)
    IN
    /\ Entered("debug")
    /\ \/ lpc' = "fire" /\ UNCHANGED <<conn, fdOwner, s_fdCommand>>   \* accept() fails
       \/ /\ Queued("debug") # {} /\ FreeFds # {} /\ ~conn[k].peer
          /\ conn' = [conn EXCEPT ![k].st = "closed"]
          /\ lpc' = "fire" /\ UNCHANGED <<fdOwner, s_fdCommand>>
       \/ /\ Queued("debug") # {} /\ FreeFds # {}
          /\ conn' = [conn EXCEPT ![k].st = "open"]
          /\ fdOwner' = [fdOwner EXCEPT ![fd] = k]
          /\ s_fdCommand' = [s_fdCommand EXCEPT ![conn[k].by[1]] = fd]
          /\ lpc' = "debug"
    /\ UNCHANGED <<watch, pending_list, unlinked, cur, rs, reqVars, alive, thr, torn, answers>>

(* The debug connection being served: the last one accepted.               *)
DebugAccepted == {k \in Conns : conn[k].port = "debug" /\ conn[k].st \in {"open", "closed"}}
DebugConn == CHOOSE k \in DebugAccepted : \A j \in DebugAccepted : j <= k

(* issueLocalRequest: how many requests an option issues.                  *)
LocalRequests(option) ==
    CASE option \in {"request", "powerOff"} -> 1 [] option = "radioOn" -> 2 [] OTHER -> 0

DebugRun(option) ==
    LET c   == conn[DebugConn].by[1]
        tok == <<DebugConn, 0>>
    IN
    /\ alive /\ lpc = "debug"
    /\ \E new \in SUBSET FreeAddrs :
          /\ Cardinality(new) = LocalRequests(option)
          /\ req' = [a \in Addrs |-> IF a \in new THEN [tok |-> tok, client |-> c,
                                                        cancelled |-> FALSE, local |-> TRUE]
                                                  ELSE req[a]]
          /\ pendingReqs' = pendingReqs \cup new
          /\ jobs' = jobs \cup {Job(a, tok) : a \in new}
    /\ IF option = "abort" THEN UNCHANGED <<conn, fdOwner>> ELSE CloseFd(s_fdCommand[c])
    /\ s_fdCommand' = IF option = "powerOff" THEN [s_fdCommand EXCEPT ![c] = -1] ELSE s_fdCommand
    /\ lpc' = "fire"
    /\ UNCHANGED <<watch, pending_list, unlinked, cur, rs, alive, thr, torn, answers>>
-----------------------------------------------------------------------------
(* RIL_onRequestComplete on thread t.  The vendor RIL completes a token it *)
(* holds (and, if it does so, once more later).                            *)
VendorCompletes(t, j) ==
    /\ alive /\ j \in jobs /\ thr[t] = Idle
    /\ thr' = [thr EXCEPT ![t] = [Idle EXCEPT !.pc = "dequeue", !.addr = j.addr, !.tok = j.tok,
                                              !.left = 1]]
    /\ jobs' = (jobs \ {j}) \cup (IF j.again THEN {[j EXCEPT !.again = FALSE]} ELSE {})
    /\ UNCHANGED <<loopVars, sockVars, req, pendingReqs, alive, torn, answers>>

(* Return: the loop goes back to its records, or to a second completion.   *)
Return(t) ==
    /\ thr' = [thr EXCEPT ![t] = IF thr[t].left <= 1 THEN Idle
                                 ELSE [thr[t] EXCEPT !.pc = "dequeue", !.fd = -1,
                                                     !.left = thr[t].left - 1]]
    /\ lpc' = IF t = Loop /\ thr[t].left <= 1 THEN "read" ELSE lpc

FreeBlock(t) == req' = IF thr[t].addr = NULL THEN req ELSE [req EXCEPT ![thr[t].addr] = Free]

(* checkAndDequeueRequestInfo, and the test of local and cancelled: nobody *)
(* else sees the block once it is out of the list.                         *)
Answer(t, c) ==
    thr' = [thr EXCEPT ![t].pc = "choose", ![t].client = c] /\ UNCHANGED <<req, lpc>>
TakeFromList(t, rest, silent) ==
    /\ thr[t].addr \in pendingReqs
    /\ pendingReqs' = rest
    /\ IF silent THEN Return(t) /\ FreeBlock(t) ELSE Answer(t, req[thr[t].addr].client)
InvalidToken(t) ==
    thr[t].addr \notin pendingReqs /\ Return(t) /\ UNCHANGED <<req, pendingReqs>>
Dequeuing(t) ==
    /\ alive /\ thr[t].pc = "dequeue"
    /\ UNCHANGED <<watch, pending_list, unlinked, cur, sockVars, jobs, alive, torn, answers>>

(* Faulty variants: the block stays in the list; a token that is not in    *)
(* the list is answered; local the wrong way round.                        *)
DequeueKeeping(t) ==
    /\ Dequeuing(t)
    /\ LET r == req[thr[t].addr] IN
       InvalidToken(t) \/ TakeFromList(t, pendingReqs, r.local \/ r.cancelled)
DequeueTrusting(t) ==
    /\ Dequeuing(t)
    /\ LET r == req[thr[t].addr] IN
       \/ /\ thr[t].addr \notin pendingReqs
          /\ thr' = [thr EXCEPT ![t].pc = "choose", ![t].addr = NULL]
          /\ UNCHANGED <<req, pendingReqs, lpc>>
       \/ TakeFromList(t, pendingReqs \ {thr[t].addr}, r.local \/ r.cancelled)
DequeueInverted(t) ==
    /\ Dequeuing(t)
    /\ LET a == thr[t].addr IN
       InvalidToken(t) \/ TakeFromList(t, pendingReqs \ {a}, ~req[a].local \/ req[a].cancelled)

Dequeue(t) ==
    /\ Dequeuing(t)
    /\ LET a == thr[t].addr IN
       InvalidToken(t) \/ TakeFromList(t, pendingReqs \ {a}, req[a].local \/ req[a].cancelled)

(* sendResponseRaw reads s_fdCommand before it takes s_writeMutex.         *)
ChooseFd(t) ==
    /\ alive /\ thr[t].pc = "choose"
    /\ IF s_fdCommand[thr[t].client] < 0
       THEN Return(t) /\ FreeBlock(t)
       ELSE /\ thr' = [thr EXCEPT ![t].pc = "write", ![t].fd = s_fdCommand[thr[t].client]]
            /\ UNCHANGED <<req, lpc>>
    /\ UNCHANGED <<watch, pending_list, unlinked, cur, sockVars, pendingReqs, jobs, alive, torn,
                   answers>>

(* The two blockingWrites under s_writeMutex, and free(pRI).  A write to a *)
(* socket whose peer is gone fails, and closes the descriptor.             *)
Token(t) == IF thr[t].addr = NULL THEN thr[t].tok ELSE req[thr[t].addr].tok
Write(t) ==
    LET k == fdOwner[thr[t].fd] IN
    /\ alive /\ thr[t].pc = "write"
    /\ IF k # NoConn /\ conn[k].peer
       THEN /\ answers' = [answers EXCEPT ![Token(t)] = Append(@, k)]
            /\ UNCHANGED <<conn, fdOwner, torn>>
       ELSE CloseFd(thr[t].fd) /\ torn' = (torn \/ k # NoConn) /\ UNCHANGED answers
    /\ Return(t) /\ FreeBlock(t)
    /\ UNCHANGED <<watch, pending_list, unlinked, cur, s_fdCommand, rs, pendingReqs, jobs, alive>>
-----------------------------------------------------------------------------
(* The clients.                                                            *)
Held == {"queued", "accepted", "open"}
Busy(c) ==
    \E j \in Conns :
        conn[j].port = "rild" /\ conn[j].by[1] = c /\ conn[j].st \in Held

Connect(k, who) ==
    /\ conn[k].st = "none" /\ \A j \in 1 .. (k - 1) : conn[j].st # "none"
    /\ EagerReconnect \/ ~Busy(who[1]) \/ who[2] = "stranger"
    /\ conn' = [conn EXCEPT ![k] = [Unused EXCEPT !.by = who, !.st = "queued",
                                                  !.peer = TRUE]]
    /\ UNCHANGED <<loopVars, fdOwner, s_fdCommand, rs, reqVars, alive, thr, torn, answers>>

ConnectDebug(k, c) ==
    /\ DebugOptions # {}
    /\ conn[k].st = "none" /\ \A j \in 1 .. (k - 1) : conn[j].st # "none"
    /\ conn' = [conn EXCEPT ![k] = [Unused EXCEPT !.by = <<c, "phone">>, !.st = "queued",
                                                  !.peer = TRUE, !.port = "debug"]]
    /\ UNCHANGED <<loopVars, fdOwner, s_fdCommand, rs, reqVars, alive, thr, torn, answers>>

SendRequest(k, kind) ==
    /\ conn[k].st \in Held /\ conn[k].peer /\ conn[k].port = "rild"
    /\ conn[k].by[2] = "phone" /\ conn[k].sent < ReqsPerConn
    /\ conn' = [conn EXCEPT ![k].sent = @ + 1,
                            ![k].inbox = Append(@, <<kind, <<k, conn[k].sent + 1>>>>)]
    /\ UNCHANGED <<loopVars, fdOwner, s_fdCommand, rs, reqVars, alive, thr, torn, answers>>

HangUp(k) ==
    /\ conn[k].st \in Held /\ conn[k].peer
    /\ conn' = [conn EXCEPT ![k].peer = FALSE]
    /\ UNCHANGED <<loopVars, fdOwner, s_fdCommand, rs, reqVars, alive, thr, torn, answers>>

(* The process starts, or init starts it again: nothing is persistent.     *)
Fresh(w, p, u, l, cu, fo, sf, r, q, pr, jb, th) ==
    /\ w = StartWatch /\ p = <<>> /\ u = {} /\ l = "select" /\ cu = NULL
    /\ fo = [f \in ConnFds |-> NoConn]
    /\ sf = [c \in Clients |-> -1] /\ r = [c \in Clients \cup {New} |-> 2]
    /\ q = [a \in Addrs |-> Free] /\ pr = {} /\ jb = {}
    /\ th = [t \in Threads |-> Idle]

Restart ==
    /\ ~alive /\ alive' = TRUE
    /\ Fresh(watch', pending_list', unlinked', lpc', cur', fdOwner', s_fdCommand', rs', req',
             pendingReqs', jobs', thr')
    /\ conn' = [k \in Conns |-> IF conn[k].st \in Held
                                 THEN [conn[k] EXCEPT !.st = "closed", !.inbox = <<>>] ELSE conn[k]]
    /\ torn' = FALSE /\ UNCHANGED answers

Init ==
    /\ Fresh(watch, pending_list, unlinked, lpc, cur, fdOwner, s_fdCommand, rs, req, pendingReqs,
             jobs, thr)
    /\ alive = TRUE /\ torn = FALSE
    /\ conn = [k \in Conns |-> Unused]
    /\ answers = [tok \in Tokens |-> <<>>]

CompleteStep(t) == Dequeue(t) \/ ChooseFd(t) \/ Write(t)

AcceptStep == AcceptStranger \/ AcceptPhone

CommandsStep(c) ==
    \/ CommandsEnter(c) \/ StreamDry(c) \/ StreamEnds(c)
    \/ DropMalformed(c) \/ RejectUnknown(c)
    \/ \E a \in Addrs : DispatchPlain(c, a) \/ DispatchRadioTech(c, a) \/ DispatchBadBlock(c, a)

LoopStep ==
    \/ Select \/ FirePending \/ FireDone
    \/ AcceptFails \/ AcceptStep \/ ReadSubscription \/ SubscriptionFails
    \/ OnCommandsSocketClosed
    \/ \E c \in Clients : CommandsStep(c)
    \/ DebugAccept \/ \E option \in DebugOptions : DebugRun(option)
    \/ CompleteStep(Loop)

ClientStep ==
    \E k \in Conns :
        \/ \E who \in Visitors : Connect(k, who)
        \/ \E c \in Clients : ConnectDebug(k, c)
        \/ \E kind \in Kinds : SendRequest(k, kind)
        \/ HangUp(k)

Next ==
    \/ LoopStep \/ SelectFails \/ Restart
    \/ \E t \in VendorThreads : CompleteStep(t) \/ \E j \in jobs : VendorCompletes(t, j)
    \/ ClientStep

Spec == Init /\ [][Next]_vars

(* The loop thread runs, accept() does not fail every time, the vendor     *)
(* RIL's threads run and complete what they were given.                    *)
Fairness ==
    /\ WF_vars(LoopStep) /\ SF_vars(AcceptStep)
    /\ \A t \in VendorThreads : WF_vars(CompleteStep(t))
    /\ WF_vars(\E t \in VendorThreads, j \in jobs : VendorCompletes(t, j))
FairSpec == Spec /\ Fairness
-----------------------------------------------------------------------------
TypeOK ==
    /\ watch \in Watch
    /\ pending_list \in Seq(Events) /\ unlinked \subseteq Events
    /\ alive \in BOOLEAN
    /\ lpc \in {"select", "fire", "entered", "read", "complete", "cancel", "debug",
               "subscribe"}
    /\ cur \in Events \cup {NULL}
    /\ fdOwner \in [ConnFds -> Conns \cup {NoConn}]
    /\ s_fdCommand \in [Clients -> ConnFds \cup {-1}]
    /\ rs \in [Clients \cup {New} -> ConnFds]
    /\ pendingReqs \subseteq Addrs
    /\ \A a \in Addrs : req[a] = Free \/ req[a].tok \in Tokens

(* A request block has one owner: it is in s_pendingRequests, or one       *)
(* thread is answering it, or it is free; nothing in use is free.          *)
Answering(t) == thr[t].pc \in {"choose", "write"} /\ thr[t].addr # NULL
OneOwner ==
    /\ \A a \in pendingReqs : req[a] # Free
    /\ \A t \in Threads : Answering(t) =>
          /\ req[thr[t].addr] # Free /\ thr[t].addr \notin pendingReqs
          /\ \A u \in Threads \ {t} : Answering(u) => thr[u].addr # thr[t].addr

(* No request is answered twice, although the dispatch of a radio          *)
(* technology query may complete its request twice and a client, a         *)
(* cancellation and a completion may race.                                 *)
AtMostOneAnswer == \A tok \in Tokens : Len(answers[tok]) <= 1

(* "mark pending requests as "cancelled" so we dont report responses"      *)
(* (onCommandsSocketClosed): no answer reaches a later connection.         *)
AnswerToAsker == \A tok \in Tokens : \A i \in DOMAIN answers[tok] : answers[tok][i] = tok[1]

(* "Subsequent calls to RIL_onRequestComplete for this request with other  *)
(* results will be tolerated but ignored" (ril.h): what a completion       *)
(* answers is the request it was meant for.                                *)
CompletesItsOwn == \A t \in VendorThreads : Answering(t) => req[thr[t].addr].tok = thr[t].tok

(* assert(fd == s_fdCommand[p_rsInfo->client_id]), processCommandsCallback *)
CommandFdAssertion ==
    \A c \in Clients : Entered(Cmd(c)) => watch.fd[Cmd(c)] = s_fdCommand[c]

(* Whenever some client has no connection the daemon listens for one.      *)
CanReconnect ==
    lpc = "select" /\ (\E c \in 0 .. (s_maxNumClients - 1) : s_fdCommand[c] = -1)
    => Watched(watch, "listen")

(* The daemon listens whenever a client is missing; and as long as no      *)
(* response write has failed (blockingWrite then closes a descriptor that  *)
(* s_fdCommand and the watch table still name), between callbacks a client *)
(* is connected exactly when its event is watched, with its descriptor,    *)
(* the watch table is sound, and the daemon is not about to die of a       *)
(* select() on a closed descriptor.                                        *)
SessionConsistent ==
    /\ CanReconnect
    /\ alive /\ ~torn /\ lpc = "select" =>
        /\ BadFds = {}
        /\ IndexOK(watch) /\ FdsOK(watch) /\ NfdsOK(watch)
        /\ \A c \in Clients : /\ Watched(watch, Cmd(c)) <=> s_fdCommand[c] # -1
                              /\ Watched(watch, Cmd(c)) => watch.fd[Cmd(c)] = s_fdCommand[c]

(* Connection k is its client's session.                                   *)
Current(k) ==
    LET fd == s_fdCommand[conn[k].by[1]] IN fd \in ConnFds /\ fdOwner[fd] = k

(* A request in the list that is not cancelled came in on the connection   *)
(* its client has now, so that its answer cannot reach a later one.  It    *)
(* may lapse only while processCommandsCallback is between closing the     *)
(* socket and onCommandsSocketClosed, and after a failed write has closed  *)
(* a socket behind the loop's back.                                        *)
ListedAreCurrent ==
    alive /\ ~torn /\ lpc # "cancel" =>
        \A a \in pendingReqs : ~req[a].cancelled /\ ~req[a].local => Current(req[a].tok[1])

(* Every connection in the backlog is taken, unless the daemon dies, all   *)
(* its clients are connected, or the loop thread is stuck for good in the  *)
(* read from a client that stays and never names its subscription.         *)
Stuck == Subscribing /\ Subscriber # NoConn /\ conn[Subscriber].by[2] = "silent"
Accepted ==
    \A k \in Conns :
        (conn[k].st = "queued" /\ conn[k].port = "rild")
        ~> \/ conn[k].st # "queued" \/ ~alive \/ []Stuck
           \/ \A c \in 0 .. (s_maxNumClients - 1) : s_fdCommand[c] # -1

(* A request handed to the vendor RIL is answered, even while the loop is  *)
(* stuck, unless the daemon dies, the connection it came on ends or loses  *)
(* its place, or the end of another one has cancelled this very request.   *)
Answered ==
    \A tok \in Conns \X (1 .. ReqsPerConn) :
        (\E j \in jobs : j.tok = tok)
        ~> \/ answers[tok] # <<>> \/ ~alive
           \/ ~conn[tok[1]].peer \/ ~Current(tok[1])
           \/ \E a \in Addrs : req[a].tok = tok /\ req[a].cancelled
=============================================================================
