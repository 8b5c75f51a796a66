------------------------------ MODULE RilUnsol ------------------------------
(***************************************************************************)
(* Unsolicited responses in libril (ril.cpp): RIL_onUnsolicitedSendResponse*)
(* with its wake lock and its release timer, the kept NITZ time, and       *)
(* onNewCommandConnect.  Vendor RIL threads and the loop thread all send   *)
(* unsolicited responses; s_last_wake_timeout_info, s_lastNITZTimeData and *)
(* the userParam of a timer are shared without a lock, so each access is a *)
(* step.  The wake lock is the kernel's: held or not, however often it was *)
(* taken.                                                                  *)
(***************************************************************************)
EXTENDS Naturals, FiniteSets

CONSTANTS
    VendorThreads, Loop,
    Infos,       \* heap addresses of UserCallbackInfo blocks
    MaxNitz,     \* bound: NITZ indications received
    MaxConnects, \* bound: connections of the client
    MaxNested,   \* bound: change notifications sent by one processRadioState
    NULL

ASSUME UnsolAssumption ==
    /\ Loop \notin VendorThreads /\ NULL \notin Infos
    /\ MaxNitz \in Nat /\ MaxConnects \in Nat /\ MaxNested \in Nat

Threads == VendorThreads \cup {Loop}
(* WAKE_PARTIAL responses, DONT_WAKE ones, WAKE_PARTIAL ones whose payload *)
(* the response function rejects, NITZ times, and radio state changes.     *)
Kinds == {"wake", "quiet", "bad", "nitz", "state"}

VARIABLES
    held,         \* the partial wake lock
    info,         \* UserCallbackInfo blocks: state, what for, userParam
    s_last,       \* s_last_wake_timeout_info
    pc, kind,     \* per thread: where it is in RIL_onUnsolicitedSendResponse
    stamp,        \* per thread: the number of its NITZ indication
    outer, left,  \* per thread: inside the notifications of a radio state
                  \* change, and how many of them are still to be sent
    block,        \* per thread: the timer it has found in s_last_wake_timeout_info,
                  \* then the one it has just armed
    connected,    \* s_fdCommand >= 0
    connects,     \* connections so far
    announce,     \* responses onNewCommandConnect still has to send
    lpc, firing,  \* the loop thread, and the timer whose callback it runs
    nitz,         \* s_lastNITZTimeData: 0, or the number of the indication
    nitzSeen,     \* NITZ indications received
    delivered     \* the NITZ indications the client has got

timerVars == <<info, s_last>>
nitzVars  == <<nitz, nitzSeen, delivered>>
loopVars  == <<connected, connects, announce, lpc, firing>>
callVars  == <<kind, stamp, block, outer, left>>
vars == <<held, timerVars, pc, callVars, loopVars, nitzVars>>

Free == [st |-> "free", for |-> "wake", param |-> 0]
FreeInfos == {i \in Infos : info[i].st = "free"}

(* A response that took the lock and has not yet armed its timer.          *)
InFlight(t) == pc[t] \in {"build", "store", "cancel", "mark", "arm"} /\ kind[t] # "quiet"
Holding(t) == outer[t] \/ InFlight(t)

(* malloc does not fail: a thread starts what needs blocks only when the   *)
(* bounded heap has enough left for everybody.                             *)
Claims ==
    Cardinality({t \in Threads : InFlight(t)}) + Cardinality({t \in Threads : outer[t]})
    + Cardinality({p \in Threads \X (1 .. MaxNested) : p[2] <= left[p[1]]})
    + (IF announce > 0 THEN announce + MaxNested ELSE 0)
Room(n) == Cardinality(FreeInfos) >= Claims + n
-----------------------------------------------------------------------------
(* The wake lock is grabbed before anything else is done.                  *)
Begin(t, k) ==
    /\ pc[t] = "idle"
    /\ pc' = [pc EXCEPT ![t] = "build"] /\ kind' = [kind EXCEPT ![t] = k]
    /\ held' = (held \/ k # "quiet")
    /\ \E n \in IF k = "state" THEN 0 .. MaxNested ELSE {0} : left' = [left EXCEPT ![t] = n]
    /\ UNCHANGED <<block, outer>>

VendorBegins(t, k) ==
    /\ Begin(t, k) /\ Room(IF k = "state" THEN 1 + MaxNested ELSE 1)
    /\ k = "nitz" => nitzSeen < MaxNitz
    /\ nitzSeen' = IF k = "nitz" THEN nitzSeen + 1 ELSE nitzSeen
    /\ stamp' = [stamp EXCEPT ![t] = nitzSeen']
    /\ UNCHANGED <<timerVars, loopVars, nitz, delivered>>

(* processRadioState, an old RIL's state having changed: it sends a        *)
(* WAKE_PARTIAL notification from inside the outer response.               *)
Notify(t) ==
    /\ pc[t] = "build" /\ kind[t] = "state" /\ left[t] > 0
    /\ held' = TRUE
    /\ kind' = [kind EXCEPT ![t] = "wake"]
    /\ outer' = [outer EXCEPT ![t] = TRUE]
    /\ left' = [left EXCEPT ![t] = @ - 1]
    /\ UNCHANGED <<timerVars, pc, stamp, block, loopVars, nitzVars>>

(* Faulty variant: error_exit without releaseWakeLock.                     *)
BuildFailsHolding(t) ==
    /\ pc[t] = "build" /\ kind[t] = "bad"
    /\ pc' = [pc EXCEPT ![t] = "idle"]
    /\ UNCHANGED <<held, timerVars, callVars, loopVars, nitzVars>>

(* A payload the response function rejects: error_exit releases the lock.  *)
BuildFails(t) ==
    /\ pc[t] = "build" /\ kind[t] = "bad"
    /\ held' = FALSE
    /\ pc' = [pc EXCEPT ![t] = "idle"]
    /\ UNCHANGED <<timerVars, callVars, loopVars, nitzVars>>

(* sendResponse; without a connection only a NITZ time is kept.            *)
Send(t) ==
    /\ pc[t] = "build" /\ kind[t] # "bad"
    /\ kind[t] = "state" => left[t] = 0
    /\ delivered' = IF connected /\ kind[t] = "nitz" THEN delivered \cup {stamp[t]} ELSE delivered
    /\ pc' = [pc EXCEPT ![t] = IF kind[t] = "quiet" THEN "idle"
                               ELSE IF kind[t] = "nitz" /\ ~connected THEN "store"
                               ELSE "cancel"]
    /\ UNCHANGED <<held, timerVars, callVars, loopVars, nitz, nitzSeen>>

StoreNitz(t) ==
    /\ pc[t] = "store"
    /\ nitz' = stamp[t]
    /\ pc' = [pc EXCEPT ![t] = "cancel"]
    /\ UNCHANGED <<held, timerVars, callVars, loopVars, nitzSeen, delivered>>

(* Cancel the previous timer: s_last_wake_timeout_info is tested, ...      *)
CancelPrevious(t) ==
    /\ pc[t] = "cancel"
    /\ block' = [block EXCEPT ![t] = s_last]
    /\ pc' = [pc EXCEPT ![t] = IF s_last = NULL THEN "arm" ELSE "mark"]
    /\ UNCHANGED <<held, timerVars, kind, stamp, outer, left, loopVars, nitzVars>>

(* ... and written through, whatever the block has become since: through   *)
(* the pointer that was tested or through one read again, as the compiler  *)
(* chose.  (Read again as NULL it ends the process.)                       *)
MarkPrevious(t) ==
    /\ pc[t] = "mark"
    /\ \E p \in {block[t], s_last} \ {NULL} : info' = [info EXCEPT ![p].param = 1]
    /\ pc' = [pc EXCEPT ![t] = "arm"]
    /\ block' = [block EXCEPT ![t] = NULL]
    /\ UNCHANGED <<held, s_last, kind, stamp, outer, left, loopVars, nitzVars>>

(* internalRequestTimedCallback(wakeTimeoutCallback, NULL, 1 s) ...        *)
ArmRelease(t, i) ==
    /\ pc[t] = "arm" /\ i \in FreeInfos
    /\ info' = [info EXCEPT ![i] = [st |-> "armed", for |-> "wake", param |-> 0]]
    /\ block' = [block EXCEPT ![t] = i]
    /\ pc' = [pc EXCEPT ![t] = "publish"]
    /\ UNCHANGED <<held, s_last, kind, stamp, outer, left, loopVars, nitzVars>>

(* ... and the assignment of its result; a notification returns to the     *)
(* radio state change it came from.                                        *)
Publish(t) ==
    /\ pc[t] = "publish"
    /\ s_last' = block[t]
    /\ block' = [block EXCEPT ![t] = NULL]
    /\ pc' = [pc EXCEPT ![t] = IF outer[t] THEN "build" ELSE "idle"]
    /\ kind' = [kind EXCEPT ![t] = IF outer[t] THEN "state" ELSE @]
    /\ outer' = [outer EXCEPT ![t] = FALSE]
    /\ UNCHANGED <<held, info, stamp, left, loopVars, nitzVars>>

(* RIL_requestTimedCallback: the vendor RIL's own timers share the heap.   *)
ArmUser(i) ==
    /\ i \in FreeInfos /\ Room(1)
    /\ info' = [info EXCEPT ![i] = [st |-> "armed", for |-> "user", param |-> 0]]
    /\ UNCHANGED <<held, s_last, pc, callVars, loopVars, nitzVars>>
-----------------------------------------------------------------------------
(* userTimerCallback on the loop thread: the callback (wakeTimeoutCallback *)
(* releases the lock unless its parameter says cancelled), ...             *)
TimerFires(i) ==
    /\ lpc = "idle" /\ info[i].st = "armed"
    /\ firing' = i /\ lpc' = "fired"
    /\ held' = IF info[i].for = "wake" /\ info[i].param = 0 THEN FALSE ELSE held
    /\ UNCHANGED <<timerVars, pc, callVars, connected, connects, announce, nitzVars>>

(* ... then s_last_wake_timeout_info is cleared if it is this one, and the *)
(* block freed.                                                            *)
TimerDone ==
    /\ lpc = "fired"
    /\ s_last' = IF s_last = firing THEN NULL ELSE s_last
    /\ info' = [info EXCEPT ![firing] = Free]
    /\ lpc' = "idle" /\ firing' = NULL
    /\ UNCHANGED <<held, pc, callVars, connected, connects, announce, nitzVars>>

(* listenCallback and onNewCommandConnect: RIL_CONNECTED and               *)
(* RADIO_STATE_CHANGED, then the kept NITZ time, sent and freed.           *)
Connect ==
    /\ lpc = "idle" /\ ~connected /\ connects < MaxConnects /\ Room(2 + MaxNested)
    /\ connected' = TRUE /\ connects' = connects + 1
    /\ announce' = 2 /\ lpc' = "announce"
    /\ UNCHANGED <<held, timerVars, pc, callVars, firing, nitzVars>>

Announce ==
    /\ lpc = "announce" /\ announce > 0
    /\ Begin(Loop, IF announce = 2 THEN "wake" ELSE "state")
    /\ announce' = announce - 1
    /\ UNCHANGED <<timerVars, stamp, connected, connects, lpc, firing, nitzVars>>

ResendNitz ==
    /\ lpc = "announce" /\ announce = 0 /\ pc[Loop] = "idle"
    /\ IF nitz = 0 THEN lpc' = "idle" /\ UNCHANGED delivered
       ELSE lpc' = "freeNitz" /\ delivered' = delivered \cup {nitz}
    /\ UNCHANGED <<held, timerVars, pc, callVars, connected, connects, announce, firing, nitz,
                   nitzSeen>>

FreeNitz ==
    /\ lpc = "freeNitz"
    /\ nitz' = 0
    /\ lpc' = "idle"
    /\ UNCHANGED <<held, timerVars, pc, callVars, connected, connects, announce, firing,
                   nitzSeen, delivered>>

Disconnect ==
    /\ lpc = "idle" /\ connected
    /\ connected' = FALSE
    /\ UNCHANGED <<held, timerVars, pc, callVars, connects, announce, lpc, firing, nitzVars>>
-----------------------------------------------------------------------------
Init ==
    /\ held = FALSE
    /\ info = [i \in Infos |-> Free] /\ s_last = NULL
    /\ pc = [t \in Threads |-> "idle"] /\ kind = [t \in Threads |-> "wake"]
    /\ block = [t \in Threads |-> NULL] /\ stamp = [t \in Threads |-> 0]
    /\ outer = [t \in Threads |-> FALSE] /\ left = [t \in Threads |-> 0]
    /\ connected = FALSE /\ connects = 0 /\ announce = 0 /\ lpc = "idle" /\ firing = NULL
    /\ nitz = 0 /\ nitzSeen = 0 /\ delivered = {}

ResponseStep(t) ==
    \/ BuildFails(t) \/ Notify(t) \/ Send(t) \/ StoreNitz(t)
    \/ CancelPrevious(t) \/ MarkPrevious(t) \/ Publish(t)
    \/ \E i \in Infos : ArmRelease(t, i)

LoopStep ==
    \/ \E i \in Infos : TimerFires(i)
    \/ TimerDone \/ Announce \/ ResendNitz \/ FreeNitz

Next ==
    \/ \E t \in VendorThreads, k \in Kinds : VendorBegins(t, k)
    \/ \E t \in Threads : ResponseStep(t)
    \/ \E i \in Infos : ArmUser(i)
    \/ LoopStep
    \/ Connect \/ Disconnect

Spec == Init /\ [][Next]_vars

(* Threads run, and the event loop fires every armed timer (RilEvent's     *)
(* TimersFire).                                                            *)
Fairness ==
    /\ \A t \in Threads : WF_vars(ResponseStep(t))
    /\ WF_vars(TimerDone \/ Announce \/ ResendNitz \/ FreeNitz)
    /\ \A i \in Infos : SF_vars(TimerFires(i))
FairSpec == Spec /\ Fairness
-----------------------------------------------------------------------------
TypeOK ==
    /\ held \in BOOLEAN
    /\ info \in [Infos -> [st : {"free", "armed"}, for : {"wake", "user"}, param : {0, 1}]]
    /\ s_last \in Infos \cup {NULL}
    /\ pc \in [Threads -> {"idle", "build", "store", "cancel", "mark", "arm", "publish"}]
    /\ kind \in [Threads -> Kinds]
    /\ block \in [Threads -> Infos \cup {NULL}] /\ stamp \in [Threads -> 0 .. MaxNitz]
    /\ outer \in [Threads -> BOOLEAN] /\ left \in [Threads -> 0 .. MaxNested]
    /\ connected \in BOOLEAN /\ connects \in 0 .. MaxConnects /\ announce \in 0 .. 2
    /\ lpc \in {"idle", "fired", "announce", "freeNitz"}
    /\ firing \in Infos \cup {NULL}
    /\ nitz \in 0 .. MaxNitz /\ nitzSeen \in 0 .. MaxNitz /\ delivered \subseteq 0 .. MaxNitz

(* The lock is never leaked: while it is held some response is on its way  *)
(* to a timer or to error_exit, or an armed timer that nobody cancelled    *)
(* will release it, in spite of the unlocked cancellations.                *)
LockNotLeaked ==
    held => \/ \E t \in Threads : Holding(t)
            \/ \E i \in Infos : /\ info[i] = [st |-> "armed", for |-> "wake", param |-> 0]
                                /\ i # firing

(* Once the responses stop the device may sleep.                           *)
Quiet == \A t \in Threads : pc[t] = "idle"
LockReleased == <>[]Quiet => <>[](~held)

(* "keep a copy of the last NITZ response ... around so we can deliver it  *)
(* when it is connected": with a client connected and nothing in progress  *)
(* the last NITZ time has been delivered.                                  *)
NitzDelivered ==
    connected /\ lpc = "idle" /\ Quiet /\ nitzSeen > 0 => nitzSeen \in delivered
=============================================================================
