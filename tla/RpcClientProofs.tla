-------------------------- MODULE RpcClientProofs --------------------------
(***************************************************************************)
(* One RPC client, for any number of calling threads, calls, callbacks and *)
(* restarts of the modem.                                                  *)
(***************************************************************************)
EXTENDS RpcClient, TLAPS

Packets == [type : {"REPLY", "CALL"}, xid : Nat]
Results == [proc : Procs \cup {"NONE"},
            stat : {"NONE", "RESTART", "CANTENCODEARGS", "CANTSEND",
                    "CANTRECV", "SUCCESS", "REFUSED"},
            xid : Nat, msg : Msgs]
CallPcs == {"idle", "encoded", "wait", "woken", "decode", "fin", "lost"}
RxHolds == {"scan", "notify", "xwait", "xwoken", "reply", "call"}
RxPcs == RxHolds \cup {"off", "top", "setup", "poll", "events", "exit"}
CbPcs == {"none", "start", "loop", "wait", "woken", "check", "copy",
          "dispatch", "done", "exit"}
Destroying == {"signal", "join", "unlink", "joinrx"}
Gone == {"closed", "freed"} \cup Destroying
AppPcs == {"none", "live", "closing"} \cup Gone

CallTypes ==
    /\ lock \in [Locks -> Threads \cup {Nobody}]
    /\ call \in [Clients -> CallPcs]
    /\ ret \in [Clients -> Results]
    /\ \A t \in Clients : Inside(t) => ret[t].proc \in Procs
    /\ xid \in Nat /\ inMsg \in Msgs /\ held \in Msgs
FlagTypes ==
    /\ busy \in BOOLEAN /\ gotCb \in BOOLEAN /\ cbStop \in {-1, 0, 1}
    /\ inReset \in BOOLEAN /\ inLenOk \in BOOLEAN /\ xprtReset \in BOOLEAN
    /\ wake \in BOOLEAN /\ modemOpen \in BOOLEAN
PlaceTypes ==
    /\ rx \in RxPcs /\ cb \in CbPcs /\ app \in AppPcs
    /\ rev \subseteq {"IN", "OUT", "RDHUP"}
    /\ app = "none" => rx = "off" /\ cb = "none"
    /\ app = "closing" <=> call[App] # "idle"
    /\ call[App] # "lost"
    /\ numClients = IF app \in {"none", "joinrx", "freed"} THEN 0 ELSE 1
    /\ pipe \in Nat
ModemTypes ==
    /\ link \in {"up", "down", "ready"}
    /\ chan \in Seq(Packets) /\ pending \subseteq [xid : Nat, proc : Procs]
    /\ used \in [calls : Nat, callbacks : Nat, resets : Nat]
RpcTypes == CallTypes /\ FlagTypes /\ PlaceTypes /\ ModemTypes

(* Who holds which mutex.                                                  *)
LocksHeld ==
    /\ \A t \in Clients : Inside(t) => lock["lock"] = t
    /\ \A t \in Clients : call[t] \in {"decode", "fin"} => lock["wait_reply_lock"] = t
    /\ app \in Destroying => lock["lock"] = App
    /\ rx \in RxHolds => lock["rx_mutex"] = Rx
    /\ app = "joinrx" => lock["rx_mutex"] = App

(* At most one answer is on its way - asked for, in the router's queue or  *)
(* in the input buffer - and then the call it answers is waiting for it.   *)
Answers == pending # {} \/ rx = "reply" \/ \E i \in 1 .. Len(chan) : chan[i].type = "REPLY"
OneAnswer ==
    /\ Answers => \E t \in Clients : call[t] = "wait"
    /\ \A p, q \in pending : p = q
    /\ \A p \in pending : p.xid = xid /\ \A t \in Clients : call[t] = "wait" => p.proc = ret[t].proc
    /\ \A i, j \in 1 .. Len(chan) : chan[i].type = "REPLY" /\ chan[j].type = "REPLY" => i = j
    /\ \A i \in 1 .. Len(chan) : chan[i].type = "REPLY" => chan[i].xid = xid /\ pending = {}
    /\ rx = "reply" => /\ pending = {} /\ inMsg = [type |-> "REPLY", xid |-> xid]
                       /\ \A i \in 1 .. Len(chan) : chan[i].type # "REPLY"

(* A modem in reset has no packets, and poll() saw the reset.              *)
ResetEmpties ==
    /\ link # "up" => pending = {} /\ chan = <<>>
    /\ rx \in {"events", "scan"} /\ "RDHUP" \in rev => link # "up"

(* What is decoded is the reply to the call that decodes it.               *)
DecodesOwn ==
    \A t \in Clients : call[t] = "decode" /\ inMsg.type = "REPLY" => inMsg.xid = xid

(* The wake lock is held for a packet that its consumer will find.         *)
WakeHeld ==
    wake => inLenOk /\ (rx \in {"reply", "call"} \/ gotCb \/ cb \in {"copy", "dispatch", "done"})

(* As long as the modem has not restarted, a packet that was read and not  *)
(* yet consumed keeps the input buffer busy.                               *)
BufferKept ==
    used.resets = 0 =>
        /\ link = "up" /\ ~inReset /\ ~xprtReset /\ rx # "notify"
        /\ rx = "reply" => busy /\ inMsg.type = "REPLY"
        /\ rx = "call" => busy /\ inMsg.type = "CALL" /\ ~gotCb /\ cb # "copy"
        /\ gotCb \/ cb = "copy" => busy /\ inMsg.type = "CALL"
        /\ cb = "copy" => ~gotCb
        /\ \A t \in Clients : call[t] \in {"woken", "decode", "fin"} =>
             busy /\ inMsg.type = "REPLY" /\ rx # "reply"

(* The close: once it is answered the modem calls no more.                 *)
Silent ==
    /\ ~modemOpen /\ rx # "call"
    /\ \A i \in 1 .. Len(chan) : chan[i].type # "CALL"
CloseSilences ==
    /\ call[App] # "idle" => ret[App].proc = "close"
    /\ ret[App].stat = "SUCCESS" => call[App] = "fin" \/ app \in Gone
    /\ inMsg.type = "REPLY" => inMsg.xid <= xid
    /\ call[App] = "encoded" /\ inMsg.type = "REPLY" => inMsg.xid < xid
    /\ call[App] = "wait" =>
         \A i \in 1 .. Len(chan) : chan[i].type = "REPLY" =>
            ~modemOpen /\ \A j \in i .. Len(chan) : chan[j].type # "CALL"
    /\ call[App] \in {"wait", "woken", "decode"} /\ inMsg.type = "REPLY" /\ inMsg.xid = xid => Silent
    /\ call[App] = "fin" /\ ret[App].stat = "SUCCESS" => Silent
    /\ app \in Gone => Silent /\ \A t \in Clients : Inside(t) => ret[t].proc = "ioctl"
    /\ app \in Gone \ {"closed"} => \A t \in Clients : ~Inside(t)

(* The callback thread exists when cb_stop says so, and is gone after the  *)
(* join; so is the receive thread after its own.                           *)
ThreadsJoined ==
    /\ cbStop = -1 <=> cb = "none"
    /\ cbStop = 1 => app \in Destroying \cup {"freed"}
    /\ app \in {"unlink", "joinrx", "freed"} => cb \in {"none", "exit"}
    /\ app = "freed" => rx = "exit"

CallInv == RpcTypes /\ LocksHeld /\ ResetEmpties /\ OneAnswer /\ DecodesOwn /\ OwnReply
FreeInv == CallInv /\ CloseSilences /\ ThreadsJoined
RpcInv == FreeInv /\ WakeHeld /\ BufferKept

-----------------------------------------------------------------------------
(* The queue of the router: what its end and its front hold.               *)
LEMMA Appended ==
    ASSUME NEW s \in Seq(Packets), NEW m \in Packets
    PROVE  /\ Append(s, m) \in Seq(Packets) /\ Len(Append(s, m)) = Len(s) + 1 /\ Len(s) \in Nat
           /\ \A i \in 1 .. Len(s) : Append(s, m)[i] = s[i]
           /\ Append(s, m)[Len(s) + 1] = m
OBVIOUS

(* Taking the first packet of the queue leaves the others in order.        *)
LEMMA Dequeued ==
    ASSUME NEW s \in Seq(Packets), s # <<>>
    PROVE  /\ Tail(s) \in Seq(Packets) /\ Len(Tail(s)) = Len(s) - 1 /\ Len(s) \in Nat
           /\ \A i \in 1 .. Len(Tail(s)) : i + 1 \in 1 .. Len(s) /\ Tail(s)[i] = s[i + 1]
           /\ Head(s) = s[1] /\ 1 \in 1 .. Len(s) /\ Head(s) \in Packets
OBVIOUS

(* Every thread of the client has one name.                                *)
LEMMA Names ==
    /\ App \in Clients /\ Cb \in Clients /\ App # Cb
    /\ App \notin Callers /\ Cb \notin Callers
    /\ Rx \notin Clients /\ Nobody \notin Clients /\ Rx # Nobody
BY RpcAssumption DEF App, Cb, Rx, Nobody, Clients

(* A packet that was read is a reply or a call.                            *)
LEMMA ReadPacket ==
    ASSUME RpcTypes, RxRead, chan # <<>>, ~busy
    PROVE  /\ inMsg' = chan[1] /\ inMsg' \in Packets /\ 1 \in 1 .. Len(chan) /\ chan' = Tail(chan)
           /\ busy' = TRUE /\ inLenOk' = TRUE /\ wake' = TRUE /\ lock' = lock
           /\ rx' = IF inMsg'.type = "REPLY" THEN "reply" ELSE "call"
<1>1. chan \in Seq(Packets)
  BY DEF RpcTypes, ModemTypes
<1>2. inMsg' = Head(chan) /\ chan' = Tail(chan) /\ busy' = TRUE /\ inLenOk' = TRUE /\ wake' = TRUE /\ lock' = lock
      /\ rx' = IF inMsg'.type = "REPLY" THEN "reply" ELSE "call"
  BY DEF RxRead, InputBusy, grabPartialWakeLock
<1> QED
  BY <1>1, <1>2, Dequeued

(* The types of the calls.                                                 *)
LEMMA CallTypesStep == RpcTypes /\ [Next]_vars => CallTypes'
<1> SUFFICES ASSUME RpcTypes, [Next]_vars PROVE CallTypes'
    OBVIOUS
<1> USE DEF Inside, RpcTypes, CallTypes, Results, CallPcs, Msgs, Packets, NoMsg,
           Clients, Threads, Locks, App, Cb, Rx, Nobody, clntVars, rxVars,
           cbVars, appVars, flagVars, modemVars,            Free, Take,
           Release, Return
<1>1. ASSUME NEW t \in Clients, NEW proc \in Procs, CallStart(t, proc) PROVE
       CallTypes'
  BY <1>1 DEF CallStart
<1>2. ASSUME NEW t \in Clients, CallDecode(t) PROVE CallTypes'
  <2>1. PICK stat \in {"SUCCESS", "REFUSED", "CANTRECV"} :
          ret' = [ret EXCEPT ![t].stat = stat, ![t].xid = xid, ![t].msg = inMsg]
    BY <1>2 DEF CallDecode, xdr_recv_reply_header
  <2> QED
    BY <1>2, <2>1 DEF CallDecode
<1>3. ASSUME NEW t \in Clients, CallSend(t) \/ CallWake(t) \/ CallFinish(t)
       PROVE CallTypes'
  BY <1>3, SMTT(60) DEF CallSend, CallWake, CallFinish
<1>4. ASSUME clnt_create \/ DestroyStart \/ DestroySignal \/ DestroyJoin \/
       DestroyUnlink \/ DestroyJoinRx PROVE CallTypes'
  BY <1>4 DEF clnt_create, DestroyStart, DestroySignal, DestroyJoin,
     DestroyUnlink, DestroyJoinRx
<1>5. ASSUME RxReset PROVE CallTypes'
  BY <1>5 DEF RxReset, SignalReply
<1>6. ASSUME RxRead PROVE CallTypes'
  <2>1. inMsg' \in Msgs /\ lock' \in [Locks -> Threads \cup {Nobody}]
    <3>1. CASE chan # <<>> /\ ~busy
      BY <1>6, <3>1, ReadPacket DEF FlagTypes
    <3>2. CASE chan = <<>> \/ busy
      BY <1>6, <3>2 DEF RxRead, InputBusy
    <3> QED
      BY <3>1, <3>2 DEF FlagTypes
  <2> QED
    BY <1>6, <2>1 DEF RxRead
<1>7. ASSUME RxReply PROVE CallTypes'
  BY <1>7 DEF RxReply, SignalReply
<1>8. ASSUME RxLoop \/ RxSetup \/ RxPoll \/ RxEvents \/ RxNotify \/ RxCall
       PROVE CallTypes'
  BY <1>8 DEF RxLoop, RxSetup, RxPoll, RxEvents, RxNotify, RxCall
<1>9. ASSUME CbCheck PROVE CallTypes'
  BY <1>9 DEF CbCheck
<1>10. ASSUME CbCopy PROVE CallTypes'
  BY <1>10 DEF CbCopy
<1>11. ASSUME CbDone PROVE CallTypes'
  BY <1>11 DEF CbDone
<1>12. ASSUME CbStart \/ CbLoop \/ CbWake \/ CbDispatch PROVE CallTypes'
  BY <1>12 DEF CbStart, CbLoop, CbWake, CbDispatch
<1>13. ASSUME ModemReply \/ ModemCall \/ ModemReset \/ ModemRestart PROVE
       CallTypes'
  BY <1>13 DEF ModemReply, ModemCall, ModemReset, ModemRestart
<1>14. CASE UNCHANGED vars
  BY <1>14 DEF vars
<1>15. ASSUME NEW t \in Clients, CallLost(t) PROVE CallTypes'
  BY <1>15 DEF CallLost
<1> QED
  BY <1>1, <1>2, <1>3, <1>4, <1>5, <1>6, <1>7, <1>8, <1>9, <1>10, <1>11,
     <1>12, <1>13, <1>14, <1>15, Zenon DEF Next, Destroy, Call, RxStep, CbStep, Modem

(* The types of the flags.                                                 *)
LEMMA FlagTypesStep == RpcTypes /\ [Next]_vars => FlagTypes'
<1> SUFFICES ASSUME RpcTypes, [Next]_vars PROVE FlagTypes'
    OBVIOUS
<1> USE DEF Inside, RpcTypes, FlagTypes, clntVars, rxVars, cbVars, appVars, flagVars,
           modemVars,            grabPartialWakeLock, releaseWakeLock
<1>1. ASSUME NEW t \in Clients, NEW proc \in Procs, CallStart(t, proc) PROVE
       FlagTypes'
  BY <1>1 DEF CallStart
<1>2. ASSUME NEW t \in Clients, CallSend(t) \/ CallWake(t) \/ CallDecode(t) \/
       CallFinish(t) PROVE FlagTypes'
  BY <1>2, ZenonT(60) DEF CallSend, CallWake, CallDecode, CallFinish
<1>3. ASSUME clnt_create \/ DestroyStart \/ DestroySignal \/ DestroyJoin \/
       DestroyUnlink \/ DestroyJoinRx PROVE FlagTypes'
  BY <1>3 DEF clnt_create, DestroyStart, DestroySignal, DestroyJoin,
     DestroyUnlink, DestroyJoinRx
<1>4. ASSUME RxReset PROVE FlagTypes'
  BY <1>4 DEF RxReset
<1>5. ASSUME RxNotify PROVE FlagTypes'
  BY <1>5 DEF RxNotify
<1>6. ASSUME RxRead PROVE FlagTypes'
  BY <1>6 DEF RxRead
<1>7. ASSUME RxReply PROVE FlagTypes'
  BY <1>7 DEF RxReply
<1>8. ASSUME RxCall PROVE FlagTypes'
  BY <1>8 DEF RxCall
<1>9. ASSUME RxLoop \/ RxSetup \/ RxPoll \/ RxEvents PROVE FlagTypes'
  BY <1>9 DEF RxLoop, RxSetup, RxPoll, RxEvents
<1>10. ASSUME CbCheck PROVE FlagTypes'
  BY <1>10 DEF CbCheck
<1>11. ASSUME CbCopy PROVE FlagTypes'
  BY <1>11 DEF CbCopy
<1>12. ASSUME CbDone PROVE FlagTypes'
  BY <1>12 DEF CbDone
<1>13. ASSUME CbStart \/ CbLoop \/ CbWake \/ CbDispatch PROVE FlagTypes'
  BY <1>13 DEF CbStart, CbLoop, CbWake, CbDispatch
<1>14. ASSUME ModemReply PROVE FlagTypes'
  BY <1>14 DEF ModemReply
<1>15. ASSUME ModemCall PROVE FlagTypes'
  BY <1>15 DEF ModemCall
<1>16. ASSUME ModemReset PROVE FlagTypes'
  BY <1>16 DEF ModemReset
<1>17. ASSUME ModemRestart PROVE FlagTypes'
  BY <1>17 DEF ModemRestart
<1>18. CASE UNCHANGED vars
  BY <1>18 DEF vars
<1>19. ASSUME NEW t \in Clients, CallLost(t) PROVE FlagTypes'
  BY <1>19 DEF CallLost
<1> QED
  BY <1>1, <1>2, <1>3, <1>4, <1>5, <1>6, <1>7, <1>8, <1>9, <1>10, <1>11,
     <1>12, <1>13, <1>14, <1>15, <1>16, <1>17, <1>18, <1>19, Zenon DEF Next, Destroy,
     Call, RxStep, CbStep, Modem

(* The places of the three threads, and the number of clients.             *)
LEMMA PlaceTypesStep == RpcTypes /\ [Next]_vars => PlaceTypes'
<1> SUFFICES ASSUME RpcTypes, [Next]_vars PROVE PlaceTypes'
    OBVIOUS
<1> USE Names DEF Inside, RpcTypes, PlaceTypes, CallTypes, SignalReply, RxPcs,
           RxHolds, CbPcs, AppPcs, Gone, Destroying,            SignalCb,
           SignalXdr, clntVars, rxVars, cbVars, appVars, flagVars, modemVars
<1>1. ASSUME NEW t \in Clients, NEW proc \in Procs, CallStart(t, proc) PROVE
       PlaceTypes'
  BY <1>1 DEF CallStart, MayCall
<1>2. ASSUME NEW t \in Clients, CallSend(t) PROVE PlaceTypes'
  BY <1>2 DEF CallSend
<1>3. ASSUME NEW t \in Clients, CallWake(t) PROVE PlaceTypes'
  BY <1>3 DEF CallWake
<1>4. ASSUME NEW t \in Clients, CallDecode(t) PROVE PlaceTypes'
  BY <1>4 DEF CallDecode
<1>5. ASSUME NEW t \in Clients, CallFinish(t) PROVE PlaceTypes'
  BY <1>5 DEF CallFinish
<1>6. ASSUME clnt_create PROVE PlaceTypes'
  BY <1>6 DEF clnt_create
<1>7. ASSUME DestroyStart PROVE PlaceTypes'
  BY <1>7 DEF DestroyStart
<1>8. ASSUME DestroyUnlink PROVE PlaceTypes'
  BY <1>8 DEF DestroyUnlink
<1>9. ASSUME DestroyJoinRx PROVE PlaceTypes'
  BY <1>9 DEF DestroyJoinRx
<1>10. ASSUME DestroySignal \/ DestroyJoin PROVE PlaceTypes'
  BY <1>10 DEF DestroySignal, DestroyJoin
<1>11. ASSUME RxPoll PROVE PlaceTypes'
  BY <1>11 DEF RxPoll, Ready
<1>12. ASSUME RxReset PROVE PlaceTypes'
  BY <1>12 DEF RxReset
<1>13. ASSUME RxReply PROVE PlaceTypes'
  BY <1>13 DEF RxReply
<1>14. ASSUME RxCall PROVE PlaceTypes'
  BY <1>14 DEF RxCall
<1>15. ASSUME RxLoop \/ RxSetup \/ RxEvents \/ RxNotify \/ RxRead PROVE
       PlaceTypes'
  BY <1>15, ZenonT(60) DEF RxLoop, RxSetup, RxEvents, RxNotify, RxRead
<1>16. ASSUME CbStart PROVE PlaceTypes'
  BY <1>16 DEF CbStart
<1>17. ASSUME CbLoop PROVE PlaceTypes'
  BY <1>17 DEF CbLoop
<1>18. ASSUME CbWake PROVE PlaceTypes'
  BY <1>18 DEF CbWake
<1>19. ASSUME CbCheck PROVE PlaceTypes'
  BY <1>19 DEF CbCheck
<1>20. ASSUME CbCopy PROVE PlaceTypes'
  BY <1>20 DEF CbCopy
<1>21. ASSUME CbDispatch PROVE PlaceTypes'
  BY <1>21 DEF CbDispatch
<1>22. ASSUME CbDone PROVE PlaceTypes'
  BY <1>22 DEF CbDone
<1>23. ASSUME ModemReply PROVE PlaceTypes'
  BY <1>23 DEF ModemReply
<1>24. ASSUME ModemCall PROVE PlaceTypes'
  BY <1>24 DEF ModemCall
<1>25. ASSUME ModemReset PROVE PlaceTypes'
  BY <1>25 DEF ModemReset
<1>26. ASSUME ModemRestart PROVE PlaceTypes'
  BY <1>26 DEF ModemRestart
<1>27. CASE UNCHANGED vars
  BY <1>27 DEF vars
<1>28. ASSUME NEW t \in Clients, CallLost(t) PROVE PlaceTypes'
  BY <1>28 DEF CallLost
<1> QED
  BY <1>1, <1>2, <1>3, <1>4, <1>5, <1>6, <1>7, <1>8, <1>9, <1>10, <1>11,
     <1>12, <1>13, <1>14, <1>15, <1>16, <1>17, <1>18, <1>19, <1>20, <1>21,
     <1>22, <1>23, <1>24, <1>25, <1>26, <1>27, <1>28, Zenon DEF Next, Destroy, Call,
     RxStep, CbStep, Modem

(* The types of the modem.                                                 *)
LEMMA ModemTypesStep == RpcTypes /\ [Next]_vars => ModemTypes'
<1> SUFFICES ASSUME RpcTypes, [Next]_vars PROVE ModemTypes'
    OBVIOUS
<1> USE DEF Inside, RpcTypes, ModemTypes, clntVars, rxVars, cbVars, appVars, flagVars,
           modemVars
<1>1. ASSUME NEW t \in Clients, NEW proc \in Procs, CallStart(t, proc) PROVE
       ModemTypes'
  BY <1>1 DEF CallStart
<1>2. ASSUME NEW t \in Clients, CallSend(t) PROVE ModemTypes'
  <2>1. call[t] = "encoded" => [xid |-> xid, proc |-> ret[t].proc] \in [xid : Nat, proc : Procs]
    BY DEF CallTypes, Results
  <2> QED
    BY <1>2, <2>1 DEF CallSend
<1>3. ASSUME NEW t \in Clients, CallWake(t) \/ CallDecode(t) \/ CallFinish(t)
       PROVE ModemTypes'
  BY <1>3 DEF CallWake, CallDecode, CallFinish
<1>4. ASSUME clnt_create \/ DestroyStart \/ DestroySignal \/ DestroyJoin \/
       DestroyUnlink \/ DestroyJoinRx PROVE ModemTypes'
  BY <1>4 DEF clnt_create, DestroyStart, DestroySignal, DestroyJoin,
     DestroyUnlink, DestroyJoinRx
<1>5. ASSUME RxRead PROVE ModemTypes'
  <2>1. chan' \in Seq(Packets)
    BY <1>5, Dequeued DEF RxRead
  <2> QED
    BY <1>5, <2>1 DEF RxRead
<1>6. ASSUME RxLoop \/ RxSetup \/ RxPoll \/ RxEvents \/ RxReset \/ RxNotify \/
       RxReply \/ RxCall PROVE ModemTypes'
  BY <1>6 DEF RxLoop, RxSetup, RxPoll, RxEvents, RxReset, RxNotify, RxReply,
     RxCall
<1>7. ASSUME CbStart \/ CbLoop \/ CbWake \/ CbCheck \/ CbCopy \/ CbDispatch \/
       CbDone PROVE ModemTypes'
  BY <1>7 DEF CbStart, CbLoop, CbWake, CbCheck, CbCopy, CbDispatch, CbDone
<1>8. ASSUME ModemReply PROVE ModemTypes'
  <2>1. PICK p \in pending : /\ pending' = pending \ {p} /\ UNCHANGED <<link, used>>
                               /\ chan' = Append(chan, [type |-> "REPLY", xid |-> p.xid])
    BY <1>8 DEF ModemReply
  <2>2. [type |-> "REPLY", xid |-> p.xid] \in Packets
    BY DEF Packets
  <2> QED
    BY <2>1, <2>2, Appended
<1>9. ASSUME ModemCall PROVE ModemTypes'
  <2>1. [type |-> "CALL", xid |-> used.callbacks + 1] \in Packets
    BY DEF Packets
  <2> QED
    BY <1>9, <2>1, Appended DEF ModemCall
<1>10. ASSUME ModemReset PROVE ModemTypes'
  BY <1>10 DEF ModemReset
<1>11. ASSUME ModemRestart PROVE ModemTypes'
  BY <1>11 DEF ModemRestart
<1>12. CASE UNCHANGED vars
  BY <1>12 DEF vars
<1>13. ASSUME NEW t \in Clients, CallLost(t) PROVE ModemTypes'
  BY <1>13 DEF CallLost
<1> QED
  BY <1>1, <1>2, <1>3, <1>4, <1>5, <1>6, <1>7, <1>8, <1>9, <1>10, <1>11,
     <1>12, <1>13, Zenon DEF Next, Destroy, Call, RxStep, CbStep, Modem

(* Mutexes are taken free and given back by their owner.                   *)
LEMMA LocksStep == RpcTypes /\ LocksHeld /\ [Next]_vars => LocksHeld'
<1> SUFFICES ASSUME RpcTypes /\ LocksHeld, [Next]_vars PROVE LocksHeld'
    OBVIOUS
<1> USE Names DEF Inside, RpcTypes, CallTypes, PlaceTypes, LocksHeld, RxHolds,
           Destroying, Locks, Free, Take, Release, SignalReply, SignalXdr,
           clntVars, rxVars, cbVars, appVars, flagVars, modemVars
<1>1. ASSUME NEW t \in Clients, NEW proc \in Procs, CallStart(t, proc) PROVE
       LocksHeld'
  BY <1>1 DEF CallStart
<1>2. ASSUME NEW t \in Clients, CallSend(t) PROVE LocksHeld'
  BY <1>2 DEF CallSend
<1>3. ASSUME NEW t \in Clients, CallWake(t) PROVE LocksHeld'
  BY <1>3 DEF CallWake
<1>4. ASSUME NEW t \in Clients, CallDecode(t) PROVE LocksHeld'
  BY <1>4 DEF CallDecode
<1>5. ASSUME NEW t \in Clients, CallFinish(t) PROVE LocksHeld'
  BY <1>5 DEF CallFinish
<1>6. ASSUME DestroyStart PROVE LocksHeld'
  BY <1>6 DEF DestroyStart
<1>7. ASSUME DestroyUnlink PROVE LocksHeld'
  BY <1>7 DEF DestroyUnlink
<1>8. ASSUME DestroyJoinRx PROVE LocksHeld'
  BY <1>8 DEF DestroyJoinRx
<1>9. ASSUME clnt_create \/ DestroySignal \/ DestroyJoin PROVE LocksHeld'
  BY <1>9 DEF clnt_create, DestroySignal, DestroyJoin
<1>10. ASSUME RxEvents PROVE LocksHeld'
  BY <1>10 DEF RxEvents
<1>11. ASSUME RxReset PROVE LocksHeld'
  BY <1>11 DEF RxReset
<1>12. ASSUME RxNotify PROVE LocksHeld'
  BY <1>12 DEF RxNotify
<1>13. ASSUME RxRead PROVE LocksHeld'
  BY <1>13 DEF RxRead
<1>14. ASSUME RxReply PROVE LocksHeld'
  BY <1>14 DEF RxReply
<1>15. ASSUME RxCall PROVE LocksHeld'
  BY <1>15 DEF RxCall
<1>16. ASSUME RxLoop \/ RxSetup \/ RxPoll PROVE LocksHeld'
  BY <1>16 DEF RxLoop, RxSetup, RxPoll
<1>17. ASSUME CbStart PROVE LocksHeld'
  BY <1>17 DEF CbStart
<1>18. ASSUME CbLoop PROVE LocksHeld'
  BY <1>18 DEF CbLoop
<1>19. ASSUME CbCopy PROVE LocksHeld'
  BY <1>19 DEF CbCopy
<1>20. ASSUME CbWake \/ CbCheck \/ CbDispatch \/ CbDone PROVE LocksHeld'
  BY <1>20 DEF CbWake, CbCheck, CbDispatch, CbDone
<1>21. ASSUME ModemReply \/ ModemCall \/ ModemReset \/ ModemRestart PROVE
       LocksHeld'
  BY <1>21 DEF ModemReply, ModemCall, ModemReset, ModemRestart
<1>22. CASE UNCHANGED vars
  BY <1>22 DEF vars
<1>23. ASSUME NEW t \in Clients, CallLost(t) PROVE LocksHeld'
  BY <1>23 DEF CallLost
<1> QED
  BY <1>1, <1>2, <1>3, <1>4, <1>5, <1>6, <1>7, <1>8, <1>9, <1>10, <1>11,
     <1>12, <1>13, <1>14, <1>15, <1>16, <1>17, <1>18, <1>19, <1>20, <1>21,
     <1>22, <1>23, Zenon DEF Next, Destroy, Call, RxStep, CbStep, Modem

(* A modem that is not up has nothing under way.                           *)
LEMMA ResetStep == RpcTypes /\ ResetEmpties /\ [Next]_vars => ResetEmpties'
<1> SUFFICES ASSUME RpcTypes /\ ResetEmpties, [Next]_vars PROVE ResetEmpties'
    OBVIOUS
<1> USE DEF Inside, RpcTypes, ModemTypes, PlaceTypes, ResetEmpties, SignalXdr,
           clntVars, rxVars, cbVars, appVars, flagVars, modemVars
<1>1. ASSUME NEW t \in Clients, NEW proc \in Procs, CallStart(t, proc) PROVE
       ResetEmpties'
  BY <1>1 DEF CallStart
<1>2. ASSUME NEW t \in Clients, CallSend(t) PROVE ResetEmpties'
  BY <1>2 DEF CallSend
<1>3. ASSUME NEW t \in Clients, CallFinish(t) PROVE ResetEmpties'
  BY <1>3 DEF CallFinish
<1>4. ASSUME NEW t \in Clients, CallWake(t) \/ CallDecode(t) PROVE
       ResetEmpties'
  BY <1>4 DEF CallWake, CallDecode
<1>5. ASSUME clnt_create \/ DestroyStart \/ DestroySignal \/ DestroyJoin \/
       DestroyUnlink \/ DestroyJoinRx PROVE ResetEmpties'
  BY <1>5 DEF clnt_create, DestroyStart, DestroySignal, DestroyJoin,
     DestroyUnlink, DestroyJoinRx
<1>6. ASSUME RxPoll PROVE ResetEmpties'
  BY <1>6 DEF RxPoll, Ready
<1>7. ASSUME RxEvents PROVE ResetEmpties'
  BY <1>7 DEF RxEvents
<1>8. ASSUME RxReset PROVE ResetEmpties'
  BY <1>8 DEF RxReset
<1>9. ASSUME RxRead PROVE ResetEmpties'
  BY <1>9 DEF RxRead
<1>10. ASSUME RxLoop \/ RxSetup \/ RxNotify \/ RxReply \/ RxCall PROVE
       ResetEmpties'
  BY <1>10 DEF RxLoop, RxSetup, RxNotify, RxReply, RxCall
<1>11. ASSUME CbStart \/ CbLoop \/ CbWake \/ CbCheck \/ CbCopy \/ CbDispatch
       \/ CbDone PROVE ResetEmpties'
  BY <1>11 DEF CbStart, CbLoop, CbWake, CbCheck, CbCopy, CbDispatch, CbDone
<1>12. ASSUME ModemReply PROVE ResetEmpties'
  BY <1>12 DEF ModemReply
<1>13. ASSUME ModemCall PROVE ResetEmpties'
  BY <1>13 DEF ModemCall
<1>14. ASSUME ModemReset PROVE ResetEmpties'
  BY <1>14 DEF ModemReset
<1>15. ASSUME ModemRestart PROVE ResetEmpties'
  BY <1>15 DEF ModemRestart
<1>16. CASE UNCHANGED vars
  BY <1>16 DEF vars
<1>17. ASSUME NEW t \in Clients, CallLost(t) PROVE ResetEmpties'
  BY <1>17 DEF CallLost
<1> QED
  BY <1>1, <1>2, <1>3, <1>4, <1>5, <1>6, <1>7, <1>8, <1>9, <1>10, <1>11,
     <1>12, <1>13, <1>14, <1>15, <1>16, <1>17, Zenon DEF Next, Destroy, Call, RxStep,
     CbStep, Modem

(* The wake lock follows the packet.                                       *)
LEMMA WakeStep == RpcTypes /\ WakeHeld /\ [Next]_vars => WakeHeld'
<1> SUFFICES ASSUME RpcTypes /\ WakeHeld, [Next]_vars PROVE WakeHeld'
    OBVIOUS
<1> USE DEF Inside, RpcTypes, FlagTypes, PlaceTypes, WakeHeld, grabPartialWakeLock,
           releaseWakeLock, SignalCb, SignalXdr, clntVars, rxVars, cbVars,
           appVars, flagVars, modemVars
<1>1. ASSUME NEW t \in Clients, NEW proc \in Procs, CallStart(t, proc) PROVE
       WakeHeld'
  BY <1>1 DEF CallStart
<1>2. ASSUME NEW t \in Clients, CallFinish(t) PROVE WakeHeld'
  BY <1>2 DEF CallFinish
<1>3. ASSUME NEW t \in Clients, CallSend(t) \/ CallWake(t) \/ CallDecode(t)
       PROVE WakeHeld'
  BY <1>3 DEF CallSend, CallWake, CallDecode
<1>4. ASSUME clnt_create PROVE WakeHeld'
  BY <1>4 DEF clnt_create
<1>5. ASSUME DestroyStart \/ DestroySignal \/ DestroyJoin \/ DestroyUnlink \/
       DestroyJoinRx PROVE WakeHeld'
  BY <1>5 DEF DestroyStart, DestroySignal, DestroyJoin, DestroyUnlink,
     DestroyJoinRx
<1>6. ASSUME RxReset PROVE WakeHeld'
  BY <1>6 DEF RxReset
<1>7. ASSUME RxNotify PROVE WakeHeld'
  BY <1>7 DEF RxNotify
<1>8. ASSUME RxRead PROVE WakeHeld'
  BY <1>8 DEF RxRead
<1>9. ASSUME RxReply PROVE WakeHeld'
  BY <1>9 DEF RxReply
<1>10. ASSUME RxCall PROVE WakeHeld'
  BY <1>10 DEF RxCall
<1>11. ASSUME RxLoop \/ RxSetup \/ RxPoll \/ RxEvents PROVE WakeHeld'
  BY <1>11 DEF RxLoop, RxSetup, RxPoll, RxEvents
<1>12. ASSUME CbLoop PROVE WakeHeld'
  BY <1>12 DEF CbLoop
<1>13. ASSUME CbCheck PROVE WakeHeld'
  BY <1>13 DEF CbCheck
<1>14. ASSUME CbCopy PROVE WakeHeld'
  BY <1>14 DEF CbCopy
<1>15. ASSUME CbDispatch PROVE WakeHeld'
  BY <1>15 DEF CbDispatch
<1>16. ASSUME CbDone PROVE WakeHeld'
  BY <1>16 DEF CbDone
<1>17. ASSUME CbStart \/ CbWake PROVE WakeHeld'
  BY <1>17 DEF CbStart, CbWake
<1>18. ASSUME ModemReply \/ ModemCall \/ ModemReset \/ ModemRestart PROVE
       WakeHeld'
  BY <1>18 DEF ModemReply, ModemCall, ModemReset, ModemRestart
<1>19. CASE UNCHANGED vars
  BY <1>19 DEF vars
<1>20. ASSUME NEW t \in Clients, CallLost(t) PROVE WakeHeld'
  BY <1>20 DEF CallLost
<1> QED
  BY <1>1, <1>2, <1>3, <1>4, <1>5, <1>6, <1>7, <1>8, <1>9, <1>10, <1>11,
     <1>12, <1>13, <1>14, <1>15, <1>16, <1>17, <1>18, <1>19, <1>20, Zenon DEF Next,
     Destroy, Call, RxStep, CbStep, Modem

(* One call at a time: a call holds client->lock from its start to its end.  *)
LEMMA OneCall ==
    ASSUME LocksHeld, NEW t \in Clients, NEW u \in Clients, Inside(t), Inside(u)
    PROVE  t = u
BY DEF LocksHeld, Inside

(* With client->lock free, or held by a call that does not wait, no answer *)
(* is on its way.                                                          *)
LEMMA NoAnswer ==
    ASSUME RpcTypes, LocksHeld, OneAnswer,
           Free("lock") \/ \E t \in Clients : Inside(t) /\ call[t] # "wait"
    PROVE  ~Answers
BY Names, OneCall DEF LocksHeld, OneAnswer, Free, Inside

(* An answer is asked for by the one call that is under way, read once, and *)
(* read before that call stops waiting.                                    *)
LEMMA AnswerStep == RpcTypes /\ LocksHeld /\ ResetEmpties /\ OneAnswer /\ [Next]_vars => OneAnswer'
<1> SUFFICES ASSUME RpcTypes /\ LocksHeld /\ ResetEmpties /\ OneAnswer, [Next]_vars PROVE OneAnswer'
    OBVIOUS
<1> USE DEF Inside, RpcTypes, OneAnswer, Answers, clntVars, rxVars, cbVars, appVars,
           flagVars, modemVars
<1>1. ASSUME NEW t \in Clients, NEW proc \in Procs, CallStart(t, proc) PROVE
       OneAnswer'
  <2>1. ~Answers
    BY <1>1, NoAnswer DEF CallStart
  <2> QED
    BY <1>1, <2>1 DEF CallStart, CallTypes
<1>2. ASSUME NEW t \in Clients, CallSend(t) PROVE OneAnswer'
  <2>1. ~Answers
    BY <1>2, NoAnswer DEF CallSend
  <2>2. CASE inReset \/ link # "up"
    BY <1>2, <2>1, <2>2 DEF CallSend
  <2>3. CASE ~inReset /\ link = "up"
    <3>1. /\ pending' = {[xid |-> xid, proc |-> ret[t].proc]} /\ call' = [call EXCEPT ![t] = "wait"]
          /\ UNCHANGED <<ret, rx, chan, inMsg, xid>>
      BY <1>2, <2>1, <2>3 DEF CallSend
    <3>2. \A u \in Clients : call'[u] = "wait" => u = t
      BY <1>2, <3>1, OneCall DEF CallSend, CallTypes
    <3> QED
      BY <2>1, <3>1, <3>2 DEF CallTypes
  <2> QED
    BY <2>2, <2>3 DEF FlagTypes
<1>3. ASSUME NEW t \in Clients, CallWake(t) PROVE OneAnswer'
  <2>1. ~Answers
    BY <1>3, NoAnswer DEF CallWake
  <2> QED
    BY <1>3, <2>1 DEF CallWake
<1>4. ASSUME NEW t \in Clients, CallDecode(t) PROVE OneAnswer'
  <2>1. ~Answers
    BY <1>4, NoAnswer DEF CallDecode
  <2> QED
    BY <1>4, <2>1 DEF CallDecode
<1>5. ASSUME NEW t \in Clients, CallFinish(t) PROVE OneAnswer'
  <2>1. ~Answers
    BY <1>5, NoAnswer DEF CallFinish
  <2> QED
    BY <1>5, <2>1 DEF CallFinish, SignalXdr
<1>6. ASSUME clnt_create PROVE OneAnswer'
  BY <1>6 DEF clnt_create
<1>7. ASSUME DestroyStart \/ DestroySignal \/ DestroyJoin \/ DestroyUnlink \/
       DestroyJoinRx PROVE OneAnswer'
  BY <1>7 DEF DestroyStart, DestroySignal, DestroyJoin, DestroyUnlink,
     DestroyJoinRx
<1>8. ASSUME RxReset PROVE OneAnswer'
  <2>1. CASE ~inReset /\ "RDHUP" \in rev
    <3>1. rx = "scan" /\ pending = {} /\ chan = <<>>
      BY <1>8, <2>1 DEF RxReset, ResetEmpties
    <3> QED
      BY <1>8, <3>1 DEF RxReset
  <2>2. CASE inReset
    BY <1>8, <2>2 DEF RxReset
  <2> QED
    BY <1>8, <2>1, <2>2 DEF RxReset
<1>9. ASSUME RxNotify PROVE OneAnswer'
  BY <1>9 DEF RxNotify
<1>10. ASSUME RxRead PROVE OneAnswer'
  <2>1. CASE chan # <<>> /\ ~busy
    <3>1. chan \in Seq(Packets) /\ Len(chan) \in Nat
      BY DEF ModemTypes
    <3>2. /\ inMsg' = chan[1] /\ 1 \in 1 .. Len(chan) /\ chan' = Tail(chan) /\ chan[1] \in Packets
          /\ rx' = IF chan[1].type = "REPLY" THEN "reply" ELSE "call"
          /\ UNCHANGED <<pending, call, ret, xid>> /\ rx # "reply"
      BY <1>10, <2>1, ReadPacket DEF RxRead
    <3>3. /\ Len(chan') = Len(chan) - 1
          /\ \A i \in 1 .. Len(chan') : i + 1 \in 1 .. Len(chan) /\ chan'[i] = chan[i + 1] /\ i + 1 # 1
      BY <2>1, <3>1, <3>2, Dequeued
    <3>4. Answers' => Answers
      BY <3>2, <3>3
    <3>5. \A i, j \in 1 .. Len(chan') : chan'[i].type = "REPLY" /\ chan'[j].type = "REPLY" => i = j
      BY <3>1, <3>3
    <3>6. CASE chan[1].type = "REPLY"
      <4>1. \A i \in 1 .. Len(chan') : chan'[i].type # "REPLY"
        BY <3>2, <3>3, <3>6
      <4>2. chan[1].xid = xid /\ pending = {}
        BY <3>2, <3>6
      <4>3. chan[1] = [type |-> "REPLY", xid |-> xid]
        BY <3>2, <3>6, <4>2 DEF Packets
      <4> QED
        BY <3>2, <3>4, <4>1, <4>2, <4>3
    <3>7. CASE chan[1].type # "REPLY"
      <4>1. \A i \in 1 .. Len(chan') : chan'[i].type = "REPLY" => chan'[i].xid = xid /\ pending = {}
        BY <3>3
      <4> QED
        BY <3>2, <3>4, <3>5, <3>7, <4>1
    <3> QED
      BY <3>6, <3>7
  <2>2. CASE chan = <<>> \/ busy
    BY <1>10, <2>2 DEF RxRead, InputBusy
  <2> QED
    BY <2>1, <2>2 DEF FlagTypes
<1>11. ASSUME RxReply PROVE OneAnswer'
  BY <1>11 DEF RxReply
<1>12. ASSUME RxLoop \/ RxSetup \/ RxPoll \/ RxEvents \/ RxCall PROVE
       OneAnswer'
  BY <1>12 DEF RxLoop, RxSetup, RxPoll, RxEvents, RxCall
<1>13. ASSUME CbCopy PROVE OneAnswer'
  BY <1>13 DEF CbCopy, SignalXdr
<1>14. ASSUME CbStart \/ CbLoop \/ CbWake \/ CbCheck \/ CbDispatch \/ CbDone
       PROVE OneAnswer'
  BY <1>14 DEF CbStart, CbLoop, CbWake, CbCheck, CbDispatch, CbDone
<1>15. ASSUME ModemReply PROVE OneAnswer'
  <2>1. PICK p \in pending : /\ pending' = pending \ {p} /\ UNCHANGED <<call, ret, xid, rx, inMsg>>
                             /\ chan' = Append(chan, [type |-> "REPLY", xid |-> p.xid])
    BY <1>15 DEF ModemReply
  <2> DEFINE m == [type |-> "REPLY", xid |-> p.xid]
  <2>2. m \in Packets /\ m.type = "REPLY" /\ m.xid = xid
    BY DEF Packets, ModemTypes
  <2>3. pending' = {} /\ rx # "reply" /\ \A i \in 1 .. Len(chan) : chan[i].type # "REPLY"
    BY <2>1
  <2>4. chan \in Seq(Packets)
    BY DEF ModemTypes
  <2> HIDE DEF m
  <2>5. /\ Len(chan') = Len(chan) + 1 /\ Len(chan) \in Nat
        /\ \A i \in 1 .. Len(chan) : chan'[i] = chan[i]
        /\ chan'[Len(chan) + 1] = m
    BY <2>1, <2>2, <2>4, Appended DEF m
  <2>6. \A i \in 1 .. Len(chan') : chan'[i].type = "REPLY" => i = Len(chan) + 1
    BY <2>3, <2>5
  <2>7. \A i \in 1 .. Len(chan') : chan'[i].type = "REPLY" => chan'[i].xid = xid
    BY <2>2, <2>5, <2>6
  <2>8. Answers
    OBVIOUS
  <2> QED
    BY <2>1, <2>3, <2>6, <2>7, <2>8
<1>16. ASSUME ModemCall PROVE OneAnswer'
  <2> DEFINE m == [type |-> "CALL", xid |-> used.callbacks + 1]
  <2>1. m \in Packets /\ m.type = "CALL"
    BY DEF Packets, ModemTypes
  <2>2. chan \in Seq(Packets) /\ chan' = Append(chan, m) /\ UNCHANGED <<call, ret, xid, rx, inMsg, pending>>
    BY <1>16 DEF ModemCall, ModemTypes
  <2> HIDE DEF m
  <2>3. /\ Len(chan') = Len(chan) + 1 /\ Len(chan) \in Nat
        /\ \A i \in 1 .. Len(chan) : chan'[i] = chan[i]
        /\ chan'[Len(chan) + 1] = m
    BY <2>1, <2>2, Appended
  <2>4. \A i \in 1 .. Len(chan') : chan'[i].type = "REPLY" => i \in 1 .. Len(chan) /\ chan[i].type = "REPLY" /\ chan'[i] = chan[i]
    BY <2>1, <2>3
  <2>5. Answers' => Answers
    BY <2>2, <2>4
  <2>6. \A i \in 1 .. Len(chan) : chan'[i] = chan[i]
    BY <2>3
  <2> QED
    BY <2>2, <2>4, <2>5
<1>17. ASSUME ModemReset PROVE OneAnswer'
  BY <1>17 DEF ModemReset
<1>18. ASSUME ModemRestart PROVE OneAnswer'
  BY <1>18 DEF ModemRestart
<1>19. CASE UNCHANGED vars
  BY <1>19 DEF vars
<1>20. ASSUME NEW t \in Clients, CallLost(t) PROVE OneAnswer'
  BY <1>20 DEF CallLost
<1> QED
  BY <1>1, <1>2, <1>3, <1>4, <1>5, <1>6, <1>7, <1>8, <1>9, <1>10, <1>11,
     <1>12, <1>13, <1>14, <1>15, <1>16, <1>17, <1>18, <1>19, <1>20, Zenon DEF Next,
     Destroy, Call, RxStep, CbStep, Modem

(* What clnt_call leaves behind when it returns.                           *)
LEMMA Returned ==
    ASSUME CallTypes, NEW t \in Clients, NEW stat, NEW msg, Return(t, stat, msg)
    PROVE  /\ ret'[t].stat = stat /\ ret'[t].xid = xid /\ ret'[t].msg = msg
           /\ ret'[t].proc = ret[t].proc
           /\ \A u \in Clients : u # t => ret'[u] = ret[u]
BY DEF CallTypes, Results, Return

(* What a call that starts, or fails to encode, leaves of the results.     *)
LEMMA Started ==
    ASSUME CallTypes, ~inReset, NEW t \in Clients, NEW proc, CallStart(t, proc)
    PROVE  \A u \in Clients : /\ ret'[u].msg = ret[u].msg /\ ret'[u].xid = ret[u].xid
                              /\ ret'[u].stat = "SUCCESS" => ret[u].stat = "SUCCESS"
BY DEF CallTypes, CallStart, Results

(* A call decodes its own reply: nothing else that reads as one arrives    *)
(* between the test of the XID and the decoding.                           *)
LEMMA OwnStep == CallInv /\ [Next]_vars => (DecodesOwn /\ OwnReply)'
<1> SUFFICES ASSUME CallInv, [Next]_vars PROVE (DecodesOwn /\ OwnReply)'
    OBVIOUS
<1> USE Names DEF Inside, CallInv, RpcTypes, CallTypes, DecodesOwn, OwnReply,
           clntVars, rxVars, cbVars, appVars, flagVars, modemVars
<1>1. ASSUME NEW t \in Clients, NEW proc \in Procs, CallStart(t, proc) PROVE
       (DecodesOwn /\ OwnReply)'
  <2>1. CASE inReset
    BY <1>1, <2>1, Returned DEF CallStart
  <2>2. CASE ~inReset
    <3>1. OwnReply'
      BY <1>1, <2>2, Started
    <3>2. \A u \in Clients : call'[u] # "decode"
      <4>1. \A u \in Clients : ~Inside(u)
        BY <1>1 DEF CallStart, LocksHeld, Free
      <4> QED
        BY <1>1, <2>2, <4>1 DEF CallStart
    <3> QED
      BY <3>1, <3>2
  <2> QED
    BY <2>1, <2>2
<1>2. ASSUME NEW t \in Clients, CallSend(t) PROVE (DecodesOwn /\ OwnReply)'
  <2>1. CASE inReset \/ link # "up"
    BY <1>2, <2>1, Returned DEF CallSend
  <2>2. CASE ~(inReset \/ link # "up")
    BY <1>2, <2>2 DEF CallSend
  <2> QED
    BY <2>1, <2>2
<1>3. ASSUME NEW t \in Clients, CallWake(t) PROVE (DecodesOwn /\ OwnReply)'
  <2>1. CASE inReset \/ ~XidMatches
    BY <1>3, <2>1, Returned DEF CallWake
  <2>2. CASE ~(inReset \/ ~XidMatches)
    BY <1>3, <2>2 DEF CallWake, XidMatches
  <2> QED
    BY <2>1, <2>2
<1>4. ASSUME NEW t \in Clients, CallDecode(t) PROVE (DecodesOwn /\ OwnReply)'
  <2>1. PICK stat \in xdr_recv_reply_header(inMsg) : Return(t, stat, inMsg)
    BY <1>4 DEF CallDecode
  <2>2. stat = "SUCCESS" => inMsg = [type |-> "REPLY", xid |-> xid]
    BY <1>4 DEF CallDecode, xdr_recv_reply_header, Msgs, NoMsg
  <2>3. OwnReply'
    BY <2>1, <2>2, Returned
  <2> QED
    BY <1>4, <2>3 DEF CallDecode
<1>5. ASSUME NEW t \in Clients, CallFinish(t) PROVE (DecodesOwn /\ OwnReply)'
  BY <1>5 DEF CallFinish
<1>6. ASSUME clnt_create \/ DestroyStart \/ DestroySignal \/ DestroyJoin \/
       DestroyUnlink \/ DestroyJoinRx PROVE (DecodesOwn /\ OwnReply)'
  BY <1>6 DEF clnt_create, DestroyStart, DestroySignal, DestroyJoin,
     DestroyUnlink, DestroyJoinRx
<1>7. ASSUME RxReset PROVE (DecodesOwn /\ OwnReply)'
  BY <1>7 DEF RxReset, SignalReply
<1>8. ASSUME RxRead PROVE (DecodesOwn /\ OwnReply)'
  <2>1. CASE chan # <<>> /\ ~busy
    <3>1. inMsg' = chan[1] /\ 1 \in 1 .. Len(chan) /\ UNCHANGED <<call, ret, xid>>
      BY <1>8, <2>1, ReadPacket DEF RxRead
    <3>2. chan[1].type = "REPLY" => chan[1].xid = xid
      BY <3>1 DEF OneAnswer
    <3> QED
      BY <3>1, <3>2
  <2>2. CASE chan = <<>> \/ busy
    BY <1>8, <2>2 DEF RxRead, InputBusy
  <2> QED
    BY <2>1, <2>2 DEF FlagTypes
<1>9. ASSUME RxReply PROVE (DecodesOwn /\ OwnReply)'
  BY <1>9 DEF RxReply, SignalReply
<1>10. ASSUME RxLoop \/ RxSetup \/ RxPoll \/ RxEvents \/ RxNotify \/ RxCall
       PROVE (DecodesOwn /\ OwnReply)'
  BY <1>10 DEF RxLoop, RxSetup, RxPoll, RxEvents, RxNotify, RxCall
<1>11. ASSUME CbStart \/ CbLoop \/ CbWake \/ CbCheck \/ CbCopy \/ CbDispatch
       \/ CbDone PROVE (DecodesOwn /\ OwnReply)'
  BY <1>11 DEF CbStart, CbLoop, CbWake, CbCheck, CbCopy, CbDispatch, CbDone
<1>12. ASSUME ModemReply \/ ModemCall \/ ModemReset \/ ModemRestart PROVE
       (DecodesOwn /\ OwnReply)'
  BY <1>12 DEF ModemReply, ModemCall, ModemReset, ModemRestart
<1>13. CASE UNCHANGED vars
  BY <1>13 DEF vars
<1>14. ASSUME NEW t \in Clients, CallLost(t) PROVE (DecodesOwn /\ OwnReply)'
  BY <1>14 DEF CallLost
<1> QED
  BY <1>1, <1>2, <1>3, <1>4, <1>5, <1>6, <1>7, <1>8, <1>9, <1>10, <1>11,
     <1>12, <1>13, <1>14, Zenon DEF Next, Destroy, Call, RxStep, CbStep, Modem

(* Until the first restart of the modem every packet is consumed before the *)
(* next one is read.                                                       *)
LEMMA BufferStep == RpcTypes /\ LocksHeld /\ ResetEmpties /\ BufferKept /\ [Next]_vars => BufferKept'
<1> SUFFICES ASSUME RpcTypes /\ LocksHeld /\ ResetEmpties /\ BufferKept, [Next]_vars PROVE BufferKept'
    OBVIOUS
<1> USE Names DEF Inside, RpcTypes, CallTypes, FlagTypes, ModemTypes, BufferKept,
           clntVars, rxVars, cbVars, appVars, flagVars, modemVars
<1>1. ASSUME NEW t \in Clients, NEW proc \in Procs, CallStart(t, proc) PROVE
       BufferKept'
  BY <1>1 DEF CallStart, Return, MayCall
<1>2. ASSUME NEW t \in Clients, CallSend(t) PROVE BufferKept'
  BY <1>2 DEF CallSend
<1>3. ASSUME NEW t \in Clients, CallWake(t) PROVE BufferKept'
  BY <1>3 DEF CallWake
<1>4. ASSUME NEW t \in Clients, CallDecode(t) PROVE BufferKept'
  BY <1>4 DEF CallDecode
<1>5. ASSUME NEW t \in Clients, CallFinish(t) PROVE BufferKept'
  <2>1. \A u \in Clients : u # t => ~Inside(u)
    BY <1>5, OneCall DEF CallFinish
  <2> QED
    BY <1>5, <2>1 DEF CallFinish, SignalXdr
<1>6. ASSUME clnt_create PROVE BufferKept'
  BY <1>6 DEF clnt_create
<1>7. ASSUME DestroySignal PROVE BufferKept'
  BY <1>7 DEF DestroySignal, SignalCb
<1>8. ASSUME DestroyStart \/ DestroyJoin \/ DestroyUnlink \/ DestroyJoinRx
       PROVE BufferKept'
  BY <1>8 DEF DestroyStart, DestroyJoin, DestroyUnlink, DestroyJoinRx
<1>9. ASSUME RxReset PROVE BufferKept'
  BY <1>9 DEF RxReset, ResetEmpties
<1>10. ASSUME RxNotify PROVE BufferKept'
  BY <1>10 DEF RxNotify, SignalCb
<1>11. ASSUME RxRead PROVE BufferKept'
  <2>1. CASE chan # <<>> /\ ~busy
    <3>1. /\ inMsg' \in Packets /\ busy' = TRUE /\ UNCHANGED <<call, gotCb, cb, link, inReset, xprtReset, used>>
          /\ rx' = IF inMsg'.type = "REPLY" THEN "reply" ELSE "call"
      BY <1>11, <2>1, ReadPacket DEF RxRead
    <3> QED
      BY <2>1, <3>1 DEF Packets
  <2>2. CASE chan = <<>> \/ busy
    BY <1>11, <2>2 DEF RxRead, InputBusy
  <2> QED
    BY <2>1, <2>2
<1>12. ASSUME RxReply PROVE BufferKept'
  BY <1>12 DEF RxReply, SignalReply
<1>13. ASSUME RxCall PROVE BufferKept'
  BY <1>13 DEF RxCall, SignalCb
<1>14. ASSUME RxLoop \/ RxSetup \/ RxPoll \/ RxEvents PROVE BufferKept'
  BY <1>14 DEF RxLoop, RxSetup, RxPoll, RxEvents
<1>15. ASSUME CbLoop PROVE BufferKept'
  BY <1>15 DEF CbLoop
<1>16. ASSUME CbCheck PROVE BufferKept'
  BY <1>16 DEF CbCheck
<1>17. ASSUME CbCopy PROVE BufferKept'
  BY <1>17 DEF CbCopy, SignalXdr
<1>18. ASSUME CbDone PROVE BufferKept'
  BY <1>18 DEF CbDone
<1>19. ASSUME CbStart \/ CbWake \/ CbDispatch PROVE BufferKept'
  BY <1>19 DEF CbStart, CbWake, CbDispatch
<1>20. ASSUME ModemReply PROVE BufferKept'
  BY <1>20 DEF ModemReply
<1>21. ASSUME ModemReset PROVE BufferKept'
  BY <1>21 DEF ModemReset
<1>22. ASSUME ModemCall \/ ModemRestart PROVE BufferKept'
  BY <1>22 DEF ModemCall, ModemRestart
<1>23. CASE UNCHANGED vars
  BY <1>23 DEF vars
<1>24. ASSUME NEW t \in Clients, CallLost(t) PROVE BufferKept'
  BY <1>24 DEF CallLost
<1> QED
  BY <1>1, <1>2, <1>3, <1>4, <1>5, <1>6, <1>7, <1>8, <1>9, <1>10, <1>11,
     <1>12, <1>13, <1>14, <1>15, <1>16, <1>17, <1>18, <1>19, <1>20, <1>21,
     <1>22, <1>23, <1>24, Zenon DEF Next, Destroy, Call, RxStep, CbStep, Modem

(* The answer to the close is the last packet but for replies, and it is   *)
(* read before the close returns.                                          *)
LEMMA CloseStep == CallInv /\ CloseSilences /\ [Next]_vars => CloseSilences'
<1> SUFFICES ASSUME CallInv /\ CloseSilences, [Next]_vars PROVE CloseSilences'
    OBVIOUS
<1> USE Names DEF Inside, CallInv, RpcTypes, CallTypes, PlaceTypes, CloseSilences,
           Silent, Gone, Destroying, clntVars, rxVars, cbVars, appVars,
           flagVars, modemVars
<1>1. ASSUME NEW t \in Clients, NEW proc \in Procs, CallStart(t, proc) PROVE
       CloseSilences'
  <2>1. \A u \in Clients : ~Inside(u)
    BY <1>1 DEF CallStart, LocksHeld, Free
  <2>2. /\ app \in {"live", "closed"} /\ (app = "closed" => app' = "closed" /\ proc = "ioctl")
        /\ app' \in {app, "closing"} /\ UNCHANGED <<inMsg, chan, modemOpen, rx>>
    BY <1>1 DEF CallStart, MayCall
  <2>3. CASE inReset
    BY <1>1, <2>1, <2>2, <2>3, Returned DEF CallStart
  <2>4. CASE ~inReset
    <3>1. xid' = xid + 1 /\ call'[App] \in {"idle", "encoded"}
      BY <1>1, <2>1, <2>4 DEF CallStart
    <3>2. call'[App] # "idle" => ret'[App].proc = "close"
      BY <1>1, <2>1, <2>4 DEF CallStart, MayCall, Results
    <3>3. ret'[App].stat = "SUCCESS" => ret[App].stat = "SUCCESS"
      BY <1>1, <2>4, Started
    <3>4. inMsg.type = "REPLY" => inMsg.xid <= xid /\ inMsg.xid \in Nat
      BY DEF Msgs, NoMsg
    <3>5. app = "closed" => \A u \in Clients : Inside(u)' => ret'[u].proc = "ioctl"
      <4>1. ASSUME NEW u \in Clients, Inside(u)'
            PROVE  u = t /\ ret' = [ret EXCEPT ![t].proc = proc]
        BY <1>1, <2>1, <2>4, <4>1 DEF CallStart
      <4> QED
        BY <2>2, <4>1 DEF Results
    <3> QED
      BY <2>1, <2>2, <3>1, <3>2, <3>3, <3>4, <3>5
  <2> QED
    BY <2>3, <2>4
<1>2. ASSUME NEW t \in Clients, CallSend(t) PROVE CloseSilences'
  <2>1. ~Answers
    BY <1>2, NoAnswer DEF CallSend
  <2>2. t # App => call[App] = "idle"
    BY <1>2, OneCall DEF CallSend
  <2>3. CASE inReset \/ link # "up"
    BY <1>2, <2>2, <2>3, Returned DEF CallSend
  <2>4. CASE ~(inReset \/ link # "up")
    <3>1. call' = [call EXCEPT ![t] = "wait"] /\ UNCHANGED <<ret, app, xid, inMsg, chan, modemOpen, rx>>
      BY <1>2, <2>4 DEF CallSend
    <3>2. inMsg \in Msgs /\ (inMsg.type = "REPLY" => inMsg.xid \in Nat)
      BY DEF Msgs, NoMsg
    <3> QED
      BY <1>2, <2>1, <2>2, <3>1, <3>2 DEF CallSend, Answers
  <2> QED
    BY <2>3, <2>4
<1>3. ASSUME NEW t \in Clients, CallWake(t) PROVE CloseSilences'
  <2>1. t # App => call[App] = "idle"
    BY <1>3, OneCall DEF CallWake
  <2>2. CASE inReset \/ ~XidMatches
    BY <1>3, <2>1, <2>2, Returned DEF CallWake
  <2>3. CASE ~(inReset \/ ~XidMatches)
    BY <1>3, <2>1, <2>3 DEF CallWake
  <2> QED
    BY <2>2, <2>3
<1>4. ASSUME NEW t \in Clients, CallDecode(t) PROVE CloseSilences'
  <2>1. t # App => call[App] = "idle"
    BY <1>4, OneCall DEF CallDecode
  <2>2. PICK stat \in xdr_recv_reply_header(inMsg) : Return(t, stat, inMsg)
    BY <1>4 DEF CallDecode
  <2>3. stat = "SUCCESS" => inMsg.type = "REPLY" /\ inMsg.xid = xid
    BY <1>4 DEF CallDecode, xdr_recv_reply_header, DecodesOwn
  <2>4. /\ call' = [call EXCEPT ![t] = "fin"] /\ UNCHANGED <<app, xid, inMsg, chan, modemOpen, rx>>
        /\ call[t] = "decode"
    BY <1>4 DEF CallDecode
  <2> QED
    BY <2>1, <2>2, <2>3, <2>4, Returned
<1>5. ASSUME NEW t \in Clients, CallFinish(t) PROVE CloseSilences'
  <2>1. \A u \in Clients : u # t => ~Inside(u)
    BY <1>5, OneCall DEF CallFinish
  <2> QED
    BY <1>5, <2>1 DEF CallFinish, SignalXdr
<1>6. ASSUME clnt_create PROVE CloseSilences'
  BY <1>6 DEF clnt_create
<1>7. ASSUME DestroyStart PROVE CloseSilences'
  <2>1. \A u \in Clients : ~Inside(u)
    BY <1>7 DEF DestroyStart, LocksHeld, Free, Take
  <2> QED
    BY <1>7, <2>1 DEF DestroyStart
<1>8. ASSUME DestroySignal \/ DestroyJoin \/ DestroyUnlink \/ DestroyJoinRx
       PROVE CloseSilences'
  BY <1>8 DEF DestroySignal, DestroyJoin, DestroyUnlink, DestroyJoinRx
<1>9. ASSUME RxReset PROVE CloseSilences'
  BY <1>9 DEF RxReset, SignalReply
<1>10. ASSUME RxNotify PROVE CloseSilences'
  BY <1>10 DEF RxNotify
<1>11. ASSUME RxRead PROVE CloseSilences'
  <2>1. CASE chan # <<>> /\ ~busy
    <3>1. chan \in Seq(Packets) /\ Len(chan) \in Nat
      BY DEF ModemTypes
    <3>2. /\ inMsg' = chan[1] /\ 1 \in 1 .. Len(chan) /\ chan' = Tail(chan) /\ chan[1] \in Packets
          /\ rx' = IF chan[1].type = "REPLY" THEN "reply" ELSE "call"
          /\ UNCHANGED <<call, ret, xid, app, modemOpen>>
      BY <1>11, <2>1, ReadPacket DEF RxRead
    <3>3. /\ Len(chan') = Len(chan) - 1
          /\ \A i \in 1 .. Len(chan') : i + 1 \in 1 .. Len(chan) /\ chan'[i] = chan[i + 1]
      BY <2>1, <3>1, <3>2, Dequeued
    <3>4. Silent => Silent'
      BY <3>2, <3>3 DEF Packets
    <3>5. chan[1].type = "REPLY" => /\ chan[1].xid = xid /\ Answers
                                    /\ call[App] # "idle" => call[App] = "wait"
      <4>1. chan[1].type = "REPLY" => chan[1].xid = xid /\ Answers
        BY <3>2 DEF OneAnswer, Answers
      <4> QED
        BY <4>1, OneCall DEF OneAnswer
    <3>6. call[App] = "wait" =>
            \A i \in 1 .. Len(chan') : chan'[i].type = "REPLY" =>
               ~modemOpen /\ \A j \in i .. Len(chan') : chan'[j].type # "CALL"
      <4> SUFFICES ASSUME call[App] = "wait", NEW i \in 1 .. Len(chan'), chan'[i].type = "REPLY"
                   PROVE  ~modemOpen /\ \A j \in i .. Len(chan') : chan'[j].type # "CALL"
          OBVIOUS
      <4>1. i + 1 \in 1 .. Len(chan) /\ chan[i + 1].type = "REPLY"
        BY <3>3
      <4>2. ~modemOpen /\ \A j \in (i + 1) .. Len(chan) : chan[j].type # "CALL"
        BY <4>1
      <4>3. ASSUME NEW j \in i .. Len(chan') PROVE chan'[j].type # "CALL"
        <5>1. j \in 1 .. Len(chan') /\ j + 1 \in (i + 1) .. Len(chan)
          BY <3>1, <3>3
        <5> QED
          BY <3>3, <4>2, <5>1
      <4> QED
        BY <4>2, <4>3
    <3>7. call[App] = "wait" /\ chan[1].type = "REPLY" => Silent'
      <4> SUFFICES ASSUME call[App] = "wait", chan[1].type = "REPLY" PROVE Silent'
          OBVIOUS
      <4>1. ~modemOpen /\ \A j \in 1 .. Len(chan) : chan[j].type # "CALL"
        BY <3>2
      <4> QED
        BY <3>2, <3>3, <4>1
    <3> HIDE DEF Silent
    <3>8. call[App] = "encoded" => chan[1].type # "REPLY"
      BY <3>5
    <3> QED
      BY <3>2, <3>4, <3>5, <3>6, <3>7, <3>8
  <2>2. CASE chan = <<>> \/ busy
    BY <1>11, <2>2 DEF RxRead, InputBusy
  <2> QED
    BY <2>1, <2>2 DEF FlagTypes
<1>12. ASSUME RxReply PROVE CloseSilences'
  BY <1>12 DEF RxReply, SignalReply
<1>13. ASSUME RxCall PROVE CloseSilences'
  BY <1>13 DEF RxCall
<1>14. ASSUME RxLoop \/ RxSetup \/ RxPoll \/ RxEvents PROVE CloseSilences'
  BY <1>14 DEF RxLoop, RxSetup, RxPoll, RxEvents
<1>15. ASSUME CbStart PROVE CloseSilences'
  BY <1>15 DEF CbStart
<1>16. ASSUME CbLoop PROVE CloseSilences'
  BY <1>16 DEF CbLoop
<1>17. ASSUME CbCheck PROVE CloseSilences'
  BY <1>17 DEF CbCheck
<1>18. ASSUME CbCopy PROVE CloseSilences'
  BY <1>18 DEF CbCopy, SignalXdr
<1>19. ASSUME CbDone PROVE CloseSilences'
  BY <1>19 DEF CbDone
<1>20. ASSUME CbWake \/ CbDispatch PROVE CloseSilences'
  BY <1>20 DEF CbWake, CbDispatch
<1>21. ASSUME ModemReply PROVE CloseSilences'
  <2>1. PICK p \in pending : /\ UNCHANGED <<call, ret, xid, rx, inMsg, app>>
                             /\ chan' = Append(chan, [type |-> "REPLY", xid |-> p.xid])
                             /\ p.proc = "close" => modemOpen' = FALSE
                             /\ p.proc = "ioctl" => modemOpen' = modemOpen
    BY <1>21 DEF ModemReply
  <2> DEFINE m == [type |-> "REPLY", xid |-> p.xid]
  <2>2. m \in Packets /\ m.type = "REPLY"
    BY DEF Packets, ModemTypes
  <2>3. chan \in Seq(Packets)
    BY DEF ModemTypes
  <2> HIDE DEF m
  <2>4. /\ Len(chan') = Len(chan) + 1 /\ Len(chan) \in Nat
        /\ \A i \in 1 .. Len(chan) : chan'[i] = chan[i]
        /\ chan'[Len(chan) + 1] = m
    BY <2>1, <2>2, <2>3, Appended DEF m
  <2>5. PICK t \in Clients : call[t] = "wait"
    BY DEF OneAnswer, Answers
  <2>6. call[App] # "idle" => call[App] = "wait" /\ modemOpen' = FALSE
    BY <2>1, <2>5, OneCall DEF OneAnswer
  <2>7. \A i \in 1 .. Len(chan') : chan'[i].type = "REPLY" => i = Len(chan) + 1
    BY <2>2, <2>4 DEF OneAnswer
  <2>8. call[App] # "idle" /\ Silent => Silent'
    BY <2>1, <2>2, <2>4, <2>6
  <2>9. app \in Gone => Silent'
    <3>1. app \in Gone => p.proc = "ioctl" /\ Silent
      BY <2>5 DEF OneAnswer
    <3> QED
      BY <2>1, <2>2, <2>4, <3>1
  <2>10. call[App] = "wait" =>
           \A i \in 1 .. Len(chan') : chan'[i].type = "REPLY" =>
              ~modemOpen' /\ \A j \in i .. Len(chan') : chan'[j].type # "CALL"
    <3> SUFFICES ASSUME call[App] = "wait", NEW i \in 1 .. Len(chan'), chan'[i].type = "REPLY"
                 PROVE  ~modemOpen' /\ \A j \in i .. Len(chan') : chan'[j].type # "CALL"
        OBVIOUS
    <3>1. i = Len(chan) + 1 /\ i .. Len(chan') = {i}
      BY <2>4, <2>7
    <3> QED
      BY <2>6, <3>1
  <2> HIDE DEF Silent
  <2> QED
    BY <2>1, <2>6, <2>8, <2>9, <2>10 DEF Gone
<1>22. ASSUME ModemCall PROVE CloseSilences'
  <2> DEFINE m == [type |-> "CALL", xid |-> used.callbacks + 1]
  <2>1. m \in Packets /\ m.type = "CALL"
    BY DEF Packets, ModemTypes
  <2>2. chan \in Seq(Packets) /\ chan' = Append(chan, m) /\ modemOpen
        /\ UNCHANGED <<call, ret, xid, rx, inMsg, app, modemOpen>>
    BY <1>22 DEF ModemCall, ModemTypes
  <2> HIDE DEF m
  <2>3. /\ Len(chan') = Len(chan) + 1 /\ Len(chan) \in Nat
        /\ \A i \in 1 .. Len(chan) : chan'[i] = chan[i]
        /\ chan'[Len(chan) + 1] = m
    BY <2>1, <2>2, Appended
  <2>4. ~Silent
    BY <2>2
  <2>5. call[App] = "wait" => \A i \in 1 .. Len(chan') : chan'[i].type # "REPLY"
    BY <2>1, <2>2, <2>3
  <2> HIDE DEF Silent
  <2> QED
    BY <2>2, <2>4, <2>5 DEF Gone
<1>23. ASSUME ModemReset PROVE CloseSilences'
  BY <1>23 DEF ModemReset
<1>24. ASSUME ModemRestart PROVE CloseSilences'
  BY <1>24 DEF ModemRestart
<1>25. CASE UNCHANGED vars
  BY <1>25 DEF vars
<1>26. ASSUME NEW t \in Clients, CallLost(t) PROVE CloseSilences'
  BY <1>26 DEF CallLost
<1> QED
  BY <1>1, <1>2, <1>3, <1>4, <1>5, <1>6, <1>7, <1>8, <1>9, <1>10, <1>11,
     <1>12, <1>13, <1>14, <1>15, <1>16, <1>17, <1>18, <1>19, <1>20, <1>21,
     <1>22, <1>23, <1>24, <1>25, <1>26, Zenon DEF Next, Destroy, Call, RxStep,
     CbStep, Modem

(* The threads are joined before the client is freed.                      *)
LEMMA JoinStep == RpcTypes /\ CloseSilences /\ ThreadsJoined /\ [Next]_vars => ThreadsJoined'
<1> SUFFICES ASSUME RpcTypes /\ CloseSilences /\ ThreadsJoined, [Next]_vars PROVE ThreadsJoined'
    OBVIOUS
<1> USE DEF Inside, RpcTypes, FlagTypes, PlaceTypes, Destroying, Gone, ThreadsJoined,
           SignalCb, SignalXdr, clntVars, rxVars, cbVars, appVars, flagVars,
           modemVars
<1>1. ASSUME NEW t \in Clients, NEW proc \in Procs, CallStart(t, proc) PROVE
       ThreadsJoined'
  BY <1>1 DEF CallStart, MayCall
<1>2. ASSUME NEW t \in Clients, CallFinish(t) PROVE ThreadsJoined'
  BY <1>2 DEF CallFinish
<1>3. ASSUME NEW t \in Clients, CallSend(t) \/ CallWake(t) \/ CallDecode(t)
       PROVE ThreadsJoined'
  BY <1>3 DEF CallSend, CallWake, CallDecode
<1>4. ASSUME clnt_create PROVE ThreadsJoined'
  BY <1>4 DEF clnt_create
<1>5. ASSUME DestroyStart PROVE ThreadsJoined'
  BY <1>5 DEF DestroyStart
<1>6. ASSUME DestroySignal PROVE ThreadsJoined'
  BY <1>6 DEF DestroySignal
<1>7. ASSUME DestroyJoin PROVE ThreadsJoined'
  BY <1>7 DEF DestroyJoin, CbJoined
<1>8. ASSUME DestroyUnlink PROVE ThreadsJoined'
  BY <1>8 DEF DestroyUnlink
<1>9. ASSUME DestroyJoinRx PROVE ThreadsJoined'
  BY <1>9 DEF DestroyJoinRx
<1>10. ASSUME RxReset PROVE ThreadsJoined'
  BY <1>10 DEF RxReset
<1>11. ASSUME RxNotify PROVE ThreadsJoined'
  BY <1>11 DEF RxNotify
<1>12. ASSUME RxRead PROVE ThreadsJoined'
  BY <1>12 DEF RxRead
<1>13. ASSUME RxReply PROVE ThreadsJoined'
  BY <1>13 DEF RxReply
<1>14. ASSUME RxCall PROVE ThreadsJoined'
  BY <1>14 DEF RxCall, CloseSilences, Silent
<1>15. ASSUME RxLoop \/ RxSetup \/ RxPoll \/ RxEvents PROVE ThreadsJoined'
  BY <1>15 DEF RxLoop, RxSetup, RxPoll, RxEvents
<1>16. ASSUME CbLoop PROVE ThreadsJoined'
  BY <1>16 DEF CbLoop
<1>17. ASSUME CbCheck PROVE ThreadsJoined'
  BY <1>17 DEF CbCheck
<1>18. ASSUME CbCopy PROVE ThreadsJoined'
  BY <1>18 DEF CbCopy
<1>19. ASSUME CbStart \/ CbWake \/ CbDispatch \/ CbDone PROVE ThreadsJoined'
  BY <1>19 DEF CbStart, CbWake, CbDispatch, CbDone
<1>20. ASSUME ModemReply \/ ModemCall \/ ModemReset \/ ModemRestart PROVE
       ThreadsJoined'
  BY <1>20 DEF ModemReply, ModemCall, ModemReset, ModemRestart
<1>21. CASE UNCHANGED vars
  BY <1>21 DEF vars
<1>22. ASSUME NEW t \in Clients, CallLost(t) PROVE ThreadsJoined'
  BY <1>22 DEF CallLost
<1> QED
  BY <1>1, <1>2, <1>3, <1>4, <1>5, <1>6, <1>7, <1>8, <1>9, <1>10, <1>11,
     <1>12, <1>13, <1>14, <1>15, <1>16, <1>17, <1>18, <1>19, <1>20, <1>21, <1>22,
     Zenon DEF Next, Destroy, Call, RxStep, CbStep, Modem

(* The invariant holds when the client starts.                             *)
LEMMA RpcInit == Init => RpcInv
<1> SUFFICES ASSUME Init PROVE RpcInv
    OBVIOUS
<1> USE Names DEF Inside, Init
<1>1. CallTypes
  BY DEF CallTypes, Results, CallPcs, Msgs, NoMsg, Threads, Locks, Nobody
<1>2. FlagTypes
  BY DEF FlagTypes
<1>3. PlaceTypes
  BY DEF PlaceTypes, RxPcs, RxHolds, CbPcs, AppPcs
<1>4. ModemTypes
  BY DEF ModemTypes
<1>5. LocksHeld /\ ResetEmpties
  BY DEF LocksHeld, ResetEmpties, RxHolds, Destroying
<1>6. OneAnswer /\ DecodesOwn /\ OwnReply
  BY DEF OneAnswer, Answers, DecodesOwn, OwnReply, NoMsg
<1>7. CloseSilences
  BY DEF CloseSilences, Gone, Destroying, NoMsg
<1>8. ThreadsJoined /\ WakeHeld /\ BufferKept
  BY DEF ThreadsJoined, WakeHeld, BufferKept
<1> QED
  BY <1>1, <1>2, <1>3, <1>4, <1>5, <1>6, <1>7, <1>8 DEF RpcInv, FreeInv, CallInv, RpcTypes

(* The inductive invariant of the client.                                  *)
THEOREM RpcInvariant == Spec => []RpcInv
<1>1. RpcInv /\ [Next]_vars => RpcInv'
  <2> SUFFICES ASSUME RpcInv, [Next]_vars PROVE RpcInv'
      OBVIOUS
  <2> USE DEF RpcInv, FreeInv, CallInv
  <2>1. RpcTypes'
    BY CallTypesStep, FlagTypesStep, PlaceTypesStep, ModemTypesStep DEF RpcTypes
  <2>2. LocksHeld' /\ ResetEmpties' /\ OneAnswer'
    BY LocksStep, ResetStep, AnswerStep
  <2>3. DecodesOwn' /\ OwnReply'
    BY OwnStep
  <2>4. CloseSilences' /\ ThreadsJoined'
    BY CloseStep, JoinStep
  <2>5. WakeHeld' /\ BufferKept'
    BY WakeStep, BufferStep
  <2> QED
    BY <2>1, <2>2, <2>3, <2>4, <2>5
<1> QED
  BY <1>1, RpcInit, PTL DEF Spec

(* clnt_call: a call that returns RPC_SUCCESS has decoded the reply to     *)
(* that very call, whatever calls, callbacks and restarts went before it.  *)
THEOREM CallsGetOwnReply == Spec => []OwnReply
BY RpcInvariant, PTL DEF RpcInv, FreeInv, CallInv

(* clnt_destroy: when the client is freed its callback thread and the      *)
(* receive thread have ended and no thread is inside clnt_call.            *)
THEOREM FreedUnused == Spec => []NoUseAfterFree
<1>1. RpcInv => NoUseAfterFree
  BY DEF RpcInv, FreeInv, NoUseAfterFree, CloseSilences, ThreadsJoined, Gone, Inside
<1> QED
  BY <1>1, RpcInvariant, PTL

(* rx_context and cb_context: the wake lock "rpc-interface" is never left  *)
(* held with no packet between the two.                                    *)
THEOREM WakeLockReleased == Spec => []WakeReleased
<1>1. RpcInv => WakeReleased
  BY DEF RpcInv, WakeHeld, WakeReleased
<1> QED
  BY <1>1, RpcInvariant, PTL

(* rx_context reads over no callback that cb_context has not copied, as    *)
(* long as the modem has not restarted.                                    *)
THEOREM CallbacksConsumed == Spec => InputConsumed
<1>1. RpcInv /\ [Next]_vars => [inMsg' # inMsg => used.resets > 0 \/ (~gotCb /\ cb # "copy")]_vars
  <2> SUFFICES ASSUME RpcInv, Next, inMsg' # inMsg PROVE used.resets > 0 \/ (~gotCb /\ cb # "copy")
      OBVIOUS
  <2> USE DEF clntVars, rxVars, cbVars, appVars, flagVars, modemVars
  <2>1. ASSUME NEW t \in Clients, Call(t) PROVE inMsg' = inMsg
    BY <2>1 DEF Call, CallStart, CallSend, CallWake, CallDecode, CallFinish, CallLost
  <2>2. ASSUME clnt_create \/ Destroy PROVE inMsg' = inMsg
    BY <2>2 DEF clnt_create, Destroy, DestroyStart, DestroySignal, DestroyJoin, DestroyUnlink, DestroyJoinRx
  <2>3. ASSUME CbStep \/ Modem PROVE inMsg' = inMsg
    BY <2>3 DEF CbStep, CbStart, CbLoop, CbWake, CbCheck, CbCopy, CbDispatch, CbDone,
       Modem, ModemReply, ModemCall, ModemReset, ModemRestart
  <2>4. ASSUME RxStep PROVE ~busy
    BY <2>4 DEF RxStep, RxLoop, RxSetup, RxPoll, RxEvents, RxReset, RxNotify, RxRead, RxReply, RxCall, InputBusy
  <2>5. ~busy
    BY <2>1, <2>2, <2>3, <2>4 DEF Next
  <2>6. used.resets \in Nat
    BY DEF RpcInv, FreeInv, CallInv, RpcTypes, ModemTypes
  <2> QED
    BY <2>5, <2>6 DEF RpcInv, BufferKept
<1> QED
  BY <1>1, RpcInvariant, PTL DEF Spec, InputConsumed

=============================================================================
