----------------------------- MODULE RpcClient -----------------------------
(***************************************************************************)
(* The client side of the ONC-RPC library (librpc/clnt.c): one CLIENT, the *)
(* threads that call through it (clnt_call), the receive thread all        *)
(* clients share (rx_context), the client's callback thread (cb_context)   *)
(* and the thread that creates and destroys the client.                    *)
(*                                                                         *)
(* One step is what a thread does between two points where it can block:   *)
(* taking a mutex is the guard of the step that runs under it.  The router *)
(* device and the modem behind it are external: a queue of incoming        *)
(* packets, the calls not answered yet, and a link that is up, down (the   *)
(* modem is restarting) or ready (restarted, not yet acknowledged).        *)
(***************************************************************************)
EXTENDS Integers, Sequences, FiniteSets

CONSTANTS
    Callers,        \* threads that call clnt_call
    MaxCalls,       \* calls made in one behaviour
    MaxCallbacks,   \* callbacks the modem makes
    MaxResets,      \* restarts of the modem
    Nested          \* a callback handler may call clnt_call itself

ASSUME RpcAssumption ==
    /\ MaxCalls \in Nat /\ MaxCallbacks \in Nat /\ MaxResets \in Nat
    /\ Nested \in BOOLEAN
    /\ Callers \cap {"app", "cb", "rx", "nobody"} = {}

App == "app"                  \* the thread of clnt_create and clnt_destroy
Rx == "rx"
Cb == "cb"
Nobody == "nobody"
Clients == Callers \cup {App, Cb}         \* threads that may run clnt_call
Threads == Clients \cup {Rx}
Locks == {"lock", "wait_reply_lock", "wait_cb_lock", "input_xdr_lock",
          "rx_mutex"}
Procs == {"open", "ioctl", "close"}

NoMsg == [type |-> "NONE", xid |-> 0]
Msgs == [type : {"REPLY", "CALL"}, xid : Nat] \cup {NoMsg}

VARIABLES
    lock,       \* owner of each mutex
    call,       \* where each thread is inside clnt_call
    ret,        \* what its last clnt_call returned, and the packet decoded
    xid,        \* xdr->xid, and so the XID in out_msg
    busy, gotCb, cbStop, inReset,     \* the flags of struct CLIENT
    inMsg,      \* xdr->in_msg
    inLenOk,    \* xdr->in_len >= 0
    rx,         \* where rx_context is
    cached, rev,   \* num_clients_cached and what poll() reported
    cb,         \* where cb_context is
    held,       \* the clone of the packet being dispatched
    xprtReset,  \* the_xprt->in_reset
    app,        \* where clnt_create / clnt_destroy is
    numClients, pipe,     \* the shared counter; bytes in the wake-up pipe
    wake,       \* the "rpc-interface" wake lock
    chan, pending, link, modemOpen,   \* the router and the modem
    served,     \* callbacks dispatched, in order
    used        \* how much of each bound is used up

clntVars == <<call, ret, xid>>
rxVars == <<rx, cached, rev>>
cbVars == <<cb, held, xprtReset, served>>
appVars == <<app, numClients, pipe>>
flagVars == <<busy, gotCb, cbStop, inReset, inMsg, inLenOk>>
modemVars == <<chan, pending, link, modemOpen>>
vars == <<lock, clntVars, rxVars, cbVars, appVars, flagVars, wake,
          modemVars, used>>

(* Mutexes: Take is the guard of a step that ends still holding the lock,  *)
(* Free says that a step may take it and give it back.                     *)
Free(l) == lock[l] = Nobody
Take(l, t) == Free(l) /\ lock' = [lock EXCEPT ![l] = t]
Release(ls) == lock' = [l \in Locks |-> IF l \in ls THEN Nobody ELSE lock[l]]

(* pthread_cond_signal wakes the one thread that waits, if there is one.   *)
NoSignal == call                                           \* faulty variant
SignalReply == [t \in Clients |-> IF call[t] = "wait" THEN "woken"
                                                      ELSE call[t]]
NoSignalCb == cb                                           \* faulty variant
SignalCb == IF cb = "wait" THEN "woken" ELSE cb
SignalXdr == IF rx = "xwait" THEN "xwoken" ELSE rx

(* The partial wake lock "rpc-interface": one name, not a count.           *)
grabPartialWakeLock == wake' = TRUE
KeepWakeLock == wake' = wake                               \* faulty variant
releaseWakeLock == wake' = FALSE

Init ==
    /\ lock = [l \in Locks |-> Nobody]
    /\ call = [t \in Clients |-> "idle"]
    /\ ret = [t \in Clients |-> [proc |-> "NONE", stat |-> "NONE",
                               xid |-> 0, msg |-> NoMsg]]
    /\ xid = 0
    /\ busy = FALSE /\ gotCb = FALSE /\ cbStop = -1 /\ inReset = FALSE
    /\ inMsg = NoMsg /\ inLenOk = TRUE
    /\ rx = "off" /\ cached = 0 /\ rev = {}
    /\ cb = "none" /\ held = NoMsg /\ xprtReset = FALSE
    /\ app = "none" /\ numClients = 0 /\ pipe = 0
    /\ wake = FALSE
    /\ chan = <<>> /\ pending = {} /\ link = "up" /\ modemOpen = FALSE
    /\ served = <<>>
    /\ used = [calls |-> 0, callbacks |-> 0, resets |-> 0]

-----------------------------------------------------------------------------
(* clnt_create.  The list of clients is edited under rx_mutex; the first   *)
(* client of the process, which this one is, starts the receive thread.    *)
(* Failing to open the router, the client's device or the pipe leaves      *)
(* nothing behind that another thread can see, and is a step that does     *)
(* nothing.                                                                *)
clnt_create ==
    /\ app = "none" /\ Free("rx_mutex")
    /\ app' = "live"
    /\ numClients' = numClients + 1
    /\ rx' = "top" /\ pipe' = 0
    /\ UNCHANGED <<lock, clntVars, cached, rev, cbVars, flagVars, wake,
                   modemVars, used>>

-----------------------------------------------------------------------------
(* clnt_call.                                                              *)
Return(t, stat, msg) ==
    ret' = [ret EXCEPT ![t].stat = stat, ![t].xid = xid, ![t].msg = msg]

(* A thread opens and calls while the client exists, and may go on calling *)
(* after the answer to the close, until clnt_destroy takes client->lock;   *)
(* the callback thread calls from a handler.  A thread that waits for      *)
(* client->lock has done nothing yet, and is one that has yet to call.     *)
MayCall(t, proc) ==
    /\ used.calls < MaxCalls /\ call[t] = "idle"
    /\ \/ t \in Callers /\ proc = "ioctl" /\ app \in {"live", "closed"}
       \/ t \in Callers /\ proc = "open" /\ app = "live"
       \/ t = Cb /\ Nested /\ cb = "dispatch" /\ proc = "ioctl" /\ app = "live"
       \/ t = App /\ proc = "close" /\ app = "live"

(* Take client->lock, test in_reset, start the message: xid++ and encode.  *)
(* Encoding can fail, which returns without touching the input buffer.     *)
CallStart(t, proc) ==
    /\ MayCall(t, proc) /\ Free("lock")
    /\ used' = [used EXCEPT !.calls = @ + 1]
    /\ \/ /\ inReset /\ Return(t, "RESTART", NoMsg)
          /\ UNCHANGED <<lock, call, xid, app>>
       \/ /\ ~inReset /\ xid' = xid + 1
          /\ ret' = [ret EXCEPT ![t].stat = "CANTENCODEARGS"]
          /\ UNCHANGED <<lock, call, app>>
       \/ /\ ~inReset /\ xid' = xid + 1
          /\ Take("lock", t)
          /\ call' = [call EXCEPT ![t] = "encoded"]
          /\ ret' = [ret EXCEPT ![t].proc = proc]
          /\ app' = IF proc = "close" THEN "closing" ELSE app
    /\ UNCHANGED <<rxVars, cbVars, numClients, pipe, flagVars, wake,
                   modemVars>>

(* Under wait_reply_lock: test in_reset again, send, and wait.  A write on *)
(* a link that is not up fails; write() returns -1, so the comparison of   *)
(* xdr_err with -ENETRESET never holds and in_reset is not set here.       *)
CallSend(t) ==
    /\ call[t] = "encoded" /\ Free("wait_reply_lock")
    /\ IF inReset \/ link # "up"
         THEN /\ Return(t, IF inReset THEN "RESTART" ELSE "CANTSEND", NoMsg)
              /\ Take("wait_reply_lock", t)
              /\ call' = [call EXCEPT ![t] = "fin"]
              /\ UNCHANGED pending
         ELSE /\ pending' = pending \cup {[xid |-> xid, proc |-> ret[t].proc]}
              /\ call' = [call EXCEPT ![t] = "wait"]
              /\ UNCHANGED <<lock, ret>>
    /\ UNCHANGED <<xid, rxVars, cbVars, appVars, flagVars, wake, chan, link,
                   modemOpen, used>>

(* Awake again: in_reset, then the XID of whatever is in the input buffer. *)
XidIgnored == TRUE                                         \* faulty variant
XidMatches == inMsg.xid = xid
CallWake(t) ==
    /\ call[t] = "woken"
    /\ Take("wait_reply_lock", t)
    /\ IF inReset \/ ~XidMatches
         THEN /\ Return(t, IF inReset THEN "RESTART" ELSE "CANTRECV", NoMsg)
              /\ call' = [call EXCEPT ![t] = "fin"]
         ELSE call' = [call EXCEPT ![t] = "decode"] /\ UNCHANGED ret
    /\ UNCHANGED <<xid, rxVars, cbVars, appVars, flagVars, wake, modemVars,
                   used>>

(* Decode the reply header and the results.  A CALL packet does not decode *)
(* as a reply header (its RPC version, 2, is no reply status); a reply may *)
(* carry an error status or results that do not decode: both are REFUSED.  *)
xdr_recv_reply_header(msg) ==
    IF msg.type = "REPLY" THEN {"SUCCESS", "REFUSED"} ELSE {"CANTRECV"}
CallDecode(t) ==
    /\ call[t] = "decode"
    /\ call' = [call EXCEPT ![t] = "fin"]
    /\ \E stat \in xdr_recv_reply_header(inMsg) : Return(t, stat, inMsg)
    /\ UNCHANGED <<lock, xid, rxVars, cbVars, appVars, flagVars, wake,
                   modemVars, used>>

(* out_unlock: mark the input buffer free whatever is in it, and leave.    *)
CallFinish(t) ==
    /\ call[t] = "fin" /\ Free("input_xdr_lock")
    /\ busy' = FALSE /\ rx' = SignalXdr
    /\ Release({"wait_reply_lock", "lock"})
    /\ call' = [call EXCEPT ![t] = "idle"]
    /\ app' = IF t # App THEN app
              ELSE IF ret[t].stat = "SUCCESS" THEN "closed" ELSE "live"
    /\ UNCHANGED <<ret, xid, cached, rev, cbVars, numClients, pipe, gotCb,
                   cbStop, inReset, inMsg, inLenOk, wake, modemVars, used>>

(* A thread that was let into clnt_call with the client, and waits for     *)
(* client->lock while clnt_destroy holds it, gets the mutex of a freed     *)
(* client: the FIXME of clnt_destroy.  What it does then is undefined, and *)
(* it takes no further step.                                               *)
CallLost(t) ==
    /\ t \in Callers /\ call[t] = "idle" /\ app = "freed"
    /\ call' = [call EXCEPT ![t] = "lost"]
    /\ UNCHANGED <<lock, ret, xid, rxVars, cbVars, appVars, flagVars, wake,
                   modemVars, used>>

-----------------------------------------------------------------------------
(* rx_context.                                                             *)
(* while (num_clients): the test is made without rx_mutex.                 *)
RxLoop ==
    /\ rx = "top"
    /\ rx' = IF numClients = 0 THEN "exit" ELSE "setup"
    /\ UNCHANGED <<lock, clntVars, cached, rev, cbVars, appVars, flagVars,
                   wake, modemVars, used>>

(* The client is in the list from clnt_create to the unlinking in          *)
(* clnt_destroy.                                                           *)
Linked == app \in {"live", "closing", "closed", "signal", "join", "unlink"}

(* Under rx_mutex, build the poll set: POLLOUT for a client in reset, else *)
(* POLLIN and POLLRDHUP.                                                   *)
RxSetup ==
    /\ rx = "setup" /\ Free("rx_mutex")
    /\ rx' = "poll" /\ cached' = numClients
    /\ rev' = IF ~Linked THEN {} ELSE IF inReset THEN {"OUT"} ELSE {"IN", "RDHUP"}
    /\ UNCHANGED <<lock, clntVars, cbVars, appVars, flagVars, wake,
                   modemVars, used>>

(* What poll() reports of the requested events: external.                  *)
Ready(events) ==
    {e \in events : \/ e = "IN" /\ chan # <<>>
                    \/ e = "RDHUP" /\ link # "up"
                    \/ e = "OUT" /\ link = "ready"}

(* poll() returns; one byte is read from the pipe; leave if no client is   *)
(* left.  When only the pipe or a client destroyed meanwhile woke it, the  *)
(* events of this client are empty.                                        *)
RxPoll ==
    /\ rx = "poll"
    /\ pipe > 0 \/ Ready(rev) # {}
    /\ rev' = Ready(rev)
    /\ pipe' = IF pipe > 0 THEN pipe - 1 ELSE 0
    /\ rx' = IF numClients = 0 THEN "exit" ELSE "events"
    /\ UNCHANGED <<lock, clntVars, cached, cbVars, app, numClients, flagVars,
                   wake, modemVars, used>>

(* Take rx_mutex; start over when the number of clients changed, or when   *)
(* the client is not in the list any more; else look at its events.  With  *)
(* one client there is then at least one: other clients wake poll() in     *)
(* vain, and the pipe is written only when the number changes.             *)
RxEvents ==
    /\ rx = "events"
    /\ IF cached # numClients \/ ~Linked
         THEN Free("rx_mutex") /\ rx' = "top" /\ UNCHANGED lock
         ELSE Take("rx_mutex", Rx) /\ rx' = "scan"
    /\ UNCHANGED <<clntVars, cached, rev, cbVars, appVars, flagVars, wake,
                   modemVars, used>>

(* The modem entered reset: in_reset is set and a waiting call is woken    *)
(* under wait_reply_lock.  The modem left reset: the flag is cleared and   *)
(* the router told.                                                        *)
RxReset ==
    /\ rx = "scan" /\ Free("wait_reply_lock")
    /\ \/ /\ ~inReset /\ "RDHUP" \in rev
          /\ inReset' = TRUE /\ call' = SignalReply
          /\ UNCHANGED link
       \/ /\ inReset /\ "OUT" \in rev
          /\ inReset' = FALSE /\ link' = "up"
          /\ UNCHANGED call
    /\ rx' = "notify"
    /\ UNCHANGED <<lock, ret, xid, cached, rev, cbVars, appVars, busy, gotCb,
                   cbStop, inMsg, inLenOk, wake, chan, pending, modemOpen,
                   used>>

(* Then, under wait_cb_lock, the callback thread is signalled, reset_cb is *)
(* called and, on entering reset, the buffer is marked free with no lock   *)
(* held and POLLIN is ignored.                                             *)
RxNotify ==
    /\ rx = "notify" /\ Free("wait_cb_lock")
    /\ cb' = SignalCb
    /\ busy' = (busy /\ ~inReset)
    /\ rx' = "top" /\ Release({"rx_mutex"})
    /\ UNCHANGED <<clntVars, cached, rev, held, xprtReset, served, appVars,
                   gotCb, cbStop, inReset, inMsg, inLenOk, wake, modemVars,
                   used>>

(* POLLIN: wait until the input buffer is free, holding rx_mutex, then     *)
(* read one packet into it under the wake lock.                            *)
IgnoreBusy == FALSE                                        \* faulty variant
InputBusy == busy
RxRead ==
    /\ \/ rx = "scan" /\ "IN" \in rev /\ (inReset \/ "RDHUP" \notin rev)
       \/ rx = "xwoken"
    /\ Free("input_xdr_lock")
    /\ IF InputBusy
         THEN /\ rx' = "xwait"
              /\ UNCHANGED <<lock, busy, inMsg, inLenOk, wake, chan>>
         ELSE IF chan = <<>>
         THEN /\ rx' = "top" /\ Release({"rx_mutex"})
              /\ inLenOk' = FALSE /\ releaseWakeLock
              /\ UNCHANGED <<busy, inMsg, chan>>
         ELSE /\ inMsg' = Head(chan) /\ chan' = Tail(chan)
              /\ inLenOk' = TRUE /\ busy' = TRUE /\ grabPartialWakeLock
              /\ rx' = IF inMsg'.type = "REPLY" THEN "reply" ELSE "call"
              /\ UNCHANGED lock
    /\ UNCHANGED <<clntVars, cached, rev, cbVars, appVars, gotCb, cbStop,
                   inReset, pending, link, modemOpen, used>>

(* A REPLY wakes the caller.                                               *)
RxReply ==
    /\ rx = "reply" /\ Free("wait_reply_lock")
    /\ call' = SignalReply /\ releaseWakeLock
    /\ rx' = "top" /\ Release({"rx_mutex"})
    /\ UNCHANGED <<ret, xid, cached, rev, cbVars, appVars, flagVars,
                   modemVars, used>>

(* A CALL sets got_cb, starts the callback thread the first time and wakes *)
(* it.                                                                     *)
RxCall ==
    /\ rx = "call" /\ Free("wait_cb_lock")
    /\ gotCb' = TRUE
    /\ IF cbStop < 0 THEN cbStop' = 0 /\ cb' = "start"
                     ELSE cb' = SignalCb /\ UNCHANGED cbStop
    /\ rx' = "top" /\ Release({"rx_mutex"})
    /\ UNCHANGED <<clntVars, cached, rev, held, xprtReset, served, appVars,
                   busy, inReset, inMsg, inLenOk, wake, modemVars, used>>

-----------------------------------------------------------------------------
(* cb_context.  wait_cb_lock is held from the first step to the last,      *)
(* except inside pthread_cond_wait, and so while a callback is dispatched. *)
CbStart ==
    /\ cb = "start" /\ Take("wait_cb_lock", Cb) /\ cb' = "loop"
    /\ UNCHANGED <<clntVars, rxVars, held, xprtReset, served, appVars,
                   flagVars, wake, modemVars, used>>

(* The loop test on cb_stop, then wait unless a packet is there already.   *)
CbLoop ==
    /\ cb = "loop"
    /\ IF cbStop # 0 THEN cb' = "exit" /\ Release({"wait_cb_lock"})
       ELSE IF gotCb THEN cb' = "check" /\ UNCHANGED lock
       ELSE cb' = "wait" /\ Release({"wait_cb_lock"})
    /\ UNCHANGED <<clntVars, rxVars, held, xprtReset, served, appVars,
                   flagVars, wake, modemVars, used>>

CbWake ==
    /\ cb = "woken" /\ Take("wait_cb_lock", Cb) /\ cb' = "check"
    /\ UNCHANGED <<clntVars, rxVars, held, xprtReset, served, appVars,
                   flagVars, wake, modemVars, used>>

(* A change of in_reset is passed on to the transport (svc_set_in_reset    *)
(* and svc_reset_cb) before anything else; otherwise a packet is taken and *)
(* the server of its program looked up.  The words of a REPLY name no      *)
(* registered program: nothing is dispatched and the buffer stays busy.    *)
CbCheck ==
    /\ cb = "check"
    /\ IF inReset # xprtReset
         THEN /\ xprtReset' = inReset /\ cb' = "loop"
              /\ UNCHANGED <<gotCb, wake>>
         ELSE /\ UNCHANGED xprtReset
              /\ gotCb' = FALSE
              /\ cb' = IF gotCb /\ inMsg.type = "CALL" THEN "copy" ELSE "loop"
              /\ wake' = IF gotCb /\ inMsg.type # "CALL" THEN FALSE ELSE wake
    /\ UNCHANGED <<lock, clntVars, rxVars, held, served, appVars, busy,
                   cbStop, inReset, inMsg, inLenOk, modemVars, used>>

(* Clone the XDR with the packet in it and free the input buffer; a        *)
(* negative in_len skips the packet, with the buffer and the wake lock     *)
(* left as they are.                                                       *)
CbCopy ==
    /\ cb = "copy"
    /\ IF inLenOk
         THEN /\ Free("input_xdr_lock")
              /\ held' = inMsg /\ busy' = FALSE /\ rx' = SignalXdr
              /\ cb' = "dispatch" /\ served' = Append(served, inMsg)
         ELSE cb' = "loop" /\ UNCHANGED <<held, busy, rx, served>>
    /\ UNCHANGED <<lock, clntVars, cached, rev, xprtReset, appVars,
                   gotCb, cbStop, inReset, inMsg, inLenOk, wake, modemVars, used>>

(* svc_dispatch and the generated stub loc_apicbprog: an unknown procedure *)
(* and arguments that do not decode are refused (svcerr_noproc,            *)
(* svcerr_decode), NULLPROC is answered, and otherwise the handler runs,   *)
(* which may itself make a call (Nested), and its result is sent.  Nothing *)
(* of it touches the client: the answer goes out through the clone.        *)
CbDispatch ==
    /\ cb = "dispatch" /\ call[Cb] = "idle"
    /\ cb' = "done"
    /\ UNCHANGED <<lock, clntVars, rxVars, held, xprtReset, served, appVars,
                   flagVars, wake, modemVars, used>>

(* Back in cb_context: destroy the clone and release the wake lock.        *)
CbDone ==
    /\ cb = "done"
    /\ held' = NoMsg /\ cb' = "loop" /\ releaseWakeLock
    /\ UNCHANGED <<lock, clntVars, rxVars, xprtReset, served,
                   appVars, flagVars, modemVars, used>>

-----------------------------------------------------------------------------
(* clnt_destroy, called by loc_close after its RPC succeeded: client->lock *)
(* is held to the end.  A running callback thread is told to stop, woken   *)
(* and joined.                                                             *)
DestroyStart ==
    /\ app = "closed" /\ Take("lock", App)
    /\ IF cbStop = 0 THEN cbStop' = 1 /\ app' = "signal"
                     ELSE app' = "unlink" /\ UNCHANGED cbStop
    /\ UNCHANGED <<clntVars, rxVars, cbVars, numClients, pipe, busy, gotCb,
                   inReset, inMsg, inLenOk, wake, modemVars, used>>

DestroySignal ==
    /\ app = "signal" /\ Free("wait_cb_lock")
    /\ cb' = SignalCb /\ app' = "join"
    /\ UNCHANGED <<lock, clntVars, rxVars, held, xprtReset, served,
                   numClients, pipe, flagVars, wake, modemVars, used>>

NoJoin == TRUE                                             \* faulty variant
CbJoined == cb = "exit"
DestroyJoin ==
    /\ app = "join" /\ CbJoined /\ app' = "unlink"
    /\ UNCHANGED <<lock, clntVars, rxVars, cbVars, numClients, pipe,
                   flagVars, wake, modemVars, used>>

(* Under rx_mutex the client leaves the list; it writes to the pipe and    *)
(* joins the receive thread with rx_mutex still held.                      *)
DestroyUnlink ==
    /\ app = "unlink" /\ numClients' = numClients - 1
    /\ Take("rx_mutex", App)
    /\ pipe' = pipe + 1 /\ app' = "joinrx"
    /\ UNCHANGED <<clntVars, rxVars, cbVars, flagVars, wake, modemVars,
                   used>>

DestroyJoinRx ==
    /\ app = "joinrx" /\ rx = "exit"
    /\ app' = "freed" /\ Release({"rx_mutex", "lock"})
    /\ UNCHANGED <<clntVars, rxVars, cbVars, numClients, pipe, flagVars,
                   wake, modemVars, used>>

-----------------------------------------------------------------------------
(* The modem behind the router: external.                                  *)
ModemReply ==
    \E p \in pending :
        /\ link = "up" /\ pending' = pending \ {p}
        /\ chan' = Append(chan, [type |-> "REPLY", xid |-> p.xid])
        /\ modemOpen' = CASE p.proc = "open" -> TRUE
                          [] p.proc = "close" -> FALSE
                          [] OTHER -> modemOpen
        /\ UNCHANGED <<lock, clntVars, rxVars, cbVars, appVars, flagVars,
                       wake, link, used>>

(* Callbacks arrive between the answers to open and to close.  Their XIDs  *)
(* are the modem's and may equal one of the client's.  They are for the    *)
(* program the client registered, so that svc_find finds its server.       *)
ModemCall ==
    /\ link = "up" /\ modemOpen /\ used.callbacks < MaxCallbacks
    /\ used' = [used EXCEPT !.callbacks = @ + 1]
    /\ chan' = Append(chan, [type |-> "CALL", xid |-> used.callbacks + 1])
    /\ UNCHANGED <<lock, clntVars, rxVars, cbVars, appVars, flagVars, wake,
                   pending, link, modemOpen>>

ModemReset ==
    /\ link = "up" /\ used.resets < MaxResets
    /\ used' = [used EXCEPT !.resets = @ + 1]
    /\ link' = "down" /\ chan' = <<>> /\ pending' = {} /\ modemOpen' = FALSE
    /\ UNCHANGED <<lock, clntVars, rxVars, cbVars, appVars, flagVars, wake>>

ModemRestart ==
    /\ link = "down" /\ link' = "ready"
    /\ UNCHANGED <<lock, clntVars, rxVars, cbVars, appVars, flagVars, wake,
                   chan, pending, modemOpen, used>>

Call(t) == \/ \E proc \in Procs : CallStart(t, proc)
           \/ CallSend(t) \/ CallWake(t) \/ CallDecode(t) \/ CallFinish(t)
           \/ CallLost(t)
RxStep == \/ RxLoop \/ RxSetup \/ RxPoll \/ RxEvents \/ RxReset \/ RxNotify
          \/ RxRead \/ RxReply \/ RxCall
CbStep == CbStart \/ CbLoop \/ CbWake \/ CbCheck \/ CbCopy
          \/ CbDispatch \/ CbDone
Destroy == \/ DestroyStart \/ DestroySignal \/ DestroyJoin \/ DestroyUnlink
           \/ DestroyJoinRx
Modem == ModemReply \/ ModemCall \/ ModemReset \/ ModemRestart

Next == \/ clnt_create \/ Destroy
        \/ \E t \in Clients : Call(t)
        \/ RxStep \/ CbStep \/ Modem

(* Threads run, a call that has started goes on, and the modem answers the *)
(* calls it has and comes back after a restart.  Calls and callbacks being *)
(* bounded, no thread is kept from a mutex for ever by others that take    *)
(* turns, and weak fairness is enough.                                     *)
CallStep(t) == CallSend(t) \/ CallWake(t) \/ CallDecode(t) \/ CallFinish(t)
Fairness ==
    /\ \A t \in Clients : WF_vars(CallStep(t))
    /\ WF_vars(RxStep) /\ WF_vars(CbStep) /\ WF_vars(Destroy)
    /\ WF_vars(ModemReply) /\ WF_vars(ModemRestart)

Spec == Init /\ [][Next]_vars /\ Fairness

-----------------------------------------------------------------------------
TypeOK ==
    /\ lock \in [Locks -> Threads \cup {Nobody}]
    /\ \A t \in Clients :
         /\ call[t] \in {"idle", "encoded", "wait", "woken", "decode", "fin",
                        "lost"}
         /\ ret[t].msg \in Msgs
    /\ xid \in Nat
    /\ {busy, gotCb, inReset, inLenOk, xprtReset, wake, modemOpen}
         \subseteq BOOLEAN
    /\ cbStop \in -1..1 /\ inMsg \in Msgs /\ held \in Msgs
    /\ numClients \in 0..1 /\ pipe \in Nat
    /\ link \in {"up", "down", "ready"}

(* A call returns RPC_SUCCESS only with results decoded from the reply to  *)
(* that very call, although every call shares one input buffer with the    *)
(* callbacks and with the answers to calls given up before it.             *)
OwnReply ==
    \A t \in Clients : ret[t].stat = "SUCCESS" =>
        ret[t].msg = [type |-> "REPLY", xid |-> ret[t].xid]

(* A packet that holds a callback stays in the input buffer until the      *)
(* callback thread has copied it: the receive thread never reads over it,  *)
(* as long as the modem has not restarted (a restart marks the buffer free *)
(* whatever is in it).                                                     *)
InputConsumed ==
    [][inMsg' # inMsg => used.resets > 0 \/ (~gotCb /\ cb # "copy")]_vars

(* Inside(t): thread t holds client->lock in clnt_call.                    *)
Inside(t) == call[t] \notin {"idle", "lost"}

(* clnt_destroy waits for everything that uses the client before it frees  *)
(* it: the callback thread and the receive thread have ended, and a call   *)
(* that took client->lock before it, on any thread and after any number of *)
(* callbacks and restarts, has left.  A thread still waiting for the lock  *)
(* then is not waited for: NoLateCall.                                     *)
NoUseAfterFree ==
    app = "freed" =>
        /\ cb \in {"none", "exit"}
        /\ rx \in {"top", "setup", "poll", "events", "exit"}
        /\ \A t \in Clients : ~Inside(t)

(* No thread gets the mutex of a freed client.  The code does not see to   *)
(* it, as the FIXME of clnt_destroy says, and RpcLate.cfg shows.           *)
NoLateCall == \A t \in Clients : call[t] # "lost"

(* The wake lock is not left behind: with no packet between the receive    *)
(* thread and its consumer the lock is free.                               *)
WakeReleased ==
    (/\ rx \in {"off", "top", "setup", "poll", "events", "exit"}
     /\ ~gotCb /\ cb \in {"none", "wait", "exit"}) => ~wake

(* Every clnt_call returns: it is answered, refused, or woken by a restart *)
(* of the modem.                                                           *)
CallsReturn == \A t \in Clients : Inside(t) ~> call[t] = "idle"

(* Every callback the modem makes reaches its handler, unless the modem    *)
(* restarts or the client is closed first.                                 *)
Delivered ==
    \A n \in 1..MaxCallbacks :
        used.callbacks >= n ~>
            \/ \E i \in 1..Len(served) : served[i].xid = n
            \/ used.resets > 0 \/ app # "live"

(* clnt_destroy returns.                                                   *)
DestroyReturns == app = "closed" ~> app = "freed"

=============================================================================
