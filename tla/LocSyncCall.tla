---------------------------- MODULE LocSyncCall -----------------------------
(***************************************************************************)
(* Synchronous location calls over the asynchronous Loc API                *)
(* (gps/libloc/libloc_api-rpc/src/loc_api_sync_call.c).  A caller of       *)
(* loc_api_sync_ioctl reserves a slot, issues the ioctl and waits for the  *)
(* ioctl report that the RPC callback thread hands to                      *)
(* loc_api_callback_process_sync_call.                                     *)
(*                                                                         *)
(* loc_sync_data.lock protects slot_in_use and in_use and is held over     *)
(* loc_ioctl; each slot has its own lock and condition variable.  What     *)
(* happens under one lock is one step.  All calls use the one client       *)
(* handle of loc_eng and wait for an ioctl report, so a slot is told apart *)
(* by its ioctl type.  The location engine is external: it works on one    *)
(* ioctl at a time and says ENGINE_BUSY to others, may refuse one, and may *)
(* never answer.                                                           *)
(***************************************************************************)
EXTENDS Integers, FiniteSets

CONSTANTS
    Callers,
    LOC_SYNC_CALL_BUFFER_SIZE,
    Types,             \* ioctl types
    TypesOf,           \* the types each caller uses
    MaxCalls,          \* bound: calls per caller
    EngineRefuses,     \* loc_ioctl may return an error other than ENGINE_BUSY
    EngineForgets,     \* a report may never come
    SpuriousWakeups,   \* pthread_cond_timedwait may return 0 unsignalled
    NULL

ASSUME SyncAssumption ==
    /\ LOC_SYNC_CALL_BUFFER_SIZE \in Nat \ {0}
    /\ TypesOf \in [Callers -> SUBSET Types]
    /\ MaxCalls \in Nat
    /\ EngineRefuses \in BOOLEAN /\ EngineForgets \in BOOLEAN
    /\ SpuriousWakeups \in BOOLEAN
    /\ NULL \notin [by : Callers, n : 1 .. MaxCalls, type : Types]

Slots == 0 .. (LOC_SYNC_CALL_BUFFER_SIZE - 1)
(* A report, and the call it answers: who made it, the how-manyth of that  *)
(* caller, and the ioctl type.                                             *)
Reports == [by : Callers, n : 1 .. MaxCalls, type : Types]

VARIABLES
    in_use, slot_in_use,              \* under loc_sync_data.lock
    type, waiting, arrived, payload,  \* the fields of each slot, under its lock
    pc, sid,              \* each caller: where it is, its slot
    calls, mine,          \* how many calls it has made, the type of this one
    rc, got,              \* what the call returns, the report it returns with
    engine,               \* the call the engine works on, or NULL
    reports,              \* reports on their way
    failed                \* history: the engine has refused or forgotten a call

slotVars == <<type, waiting, arrived, payload>>
useVars  == <<in_use, slot_in_use>>
callVars == <<sid, calls, mine>>
engVars  == <<engine, reports, failed>>
vars == <<useVars, slotVars, callVars, pc, rc, got, engVars>>

This(c) == [by |-> c, n |-> calls[c], type |-> mine[c]]

FreeSlots == {i \in Slots : ~slot_in_use[i]}
Lowest(S) == CHOOSE i \in S : \A j \in S : i <= j
Goto(c, l) == pc' = [pc EXCEPT ![c] = l]
Finish(c, r) == rc' = [rc EXCEPT ![c] = r]
-----------------------------------------------------------------------------
(* loc_api_select_callback, first half: loc_alloc_slot.  With no free slot *)
(* the call returns ENGINE_BUSY.                                           *)
AllocSlot(c, t) ==
    /\ pc[c] = "idle" /\ calls[c] < MaxCalls
    /\ calls' = [calls EXCEPT ![c] = @ + 1]
    /\ mine' = [mine EXCEPT ![c] = t]
    /\ got' = [got EXCEPT ![c] = NULL]
    /\ IF FreeSlots = {}
       THEN Finish(c, "ENGINE_BUSY") /\ UNCHANGED <<useVars, sid, pc>>
       ELSE /\ slot_in_use' = [slot_in_use EXCEPT ![Lowest(FreeSlots)] = TRUE]
            /\ in_use' = TRUE
            /\ sid' = [sid EXCEPT ![c] = Lowest(FreeSlots)]
            /\ Goto(c, "fill") /\ Finish(c, "none")
    /\ UNCHANGED <<slotVars, engVars>>

(* Faulty variant: has_arrived keeps the last user's value.                *)
FillSlotStale(c) ==
    /\ pc[c] = "fill"
    /\ type' = [type EXCEPT ![sid[c]] = mine[c]]
    /\ waiting' = [waiting EXCEPT ![sid[c]] = FALSE]
    /\ Goto(c, "ioctl")
    /\ UNCHANGED <<useVars, arrived, payload, callVars, rc, got, engVars>>

(* Second half, under the slot's lock: until now the slot still has the    *)
(* type and flags of its last user.                                        *)
FillSlot(c) ==
    /\ pc[c] = "fill"
    /\ type' = [type EXCEPT ![sid[c]] = mine[c]]
    /\ waiting' = [waiting EXCEPT ![sid[c]] = FALSE]
    /\ arrived' = [arrived EXCEPT ![sid[c]] = FALSE]
    /\ Goto(c, "ioctl")
    /\ UNCHANGED <<useVars, payload, callVars, rc, got, engVars>>

(* loc_ioctl under loc_sync_data.lock: accepted, ...                       *)
IoctlAccepted(c) ==
    /\ pc[c] = "ioctl" /\ engine = NULL
    /\ engine' = This(c)
    /\ Goto(c, "wait")
    /\ UNCHANGED <<useVars, slotVars, callVars, rc, got, reports, failed>>

(* ... busy, and the caller waits on loc_sync_data.loc_cb_arrived_cond     *)
(* with no timeout, ...                                                    *)
IoctlBusy(c) ==
    /\ pc[c] = "ioctl" /\ engine # NULL
    /\ Goto(c, "busy")
    /\ UNCHANGED <<useVars, slotVars, callVars, rc, got, engVars>>

(* Faulty variant: the error return without loc_free_slot.                 *)
IoctlRefusedLeak(c) ==
    /\ EngineRefuses
    /\ pc[c] = "ioctl" /\ engine = NULL
    /\ Goto(c, "idle") /\ Finish(c, "REFUSED")
    /\ UNCHANGED <<useVars, slotVars, callVars, got, engVars>>

(* ... or refused.                                                         *)
IoctlRefused(c) ==
    /\ EngineRefuses
    /\ pc[c] = "ioctl" /\ engine = NULL
    /\ Goto(c, "free") /\ Finish(c, "REFUSED") /\ failed' = TRUE
    /\ UNCHANGED <<useVars, slotVars, callVars, got, engine, reports>>

(* Faulty variant: waits without a look at has_arrived.                    *)
WaitCallbackBlind(c) ==
    /\ pc[c] = "wait"
    /\ waiting' = [waiting EXCEPT ![sid[c]] = TRUE]
    /\ Goto(c, "sleep")
    /\ UNCHANGED <<useVars, type, arrived, payload, callVars, rc, got, engVars>>

(* loc_api_wait_callback up to its wait: the error returns, the report     *)
(* that is already there, or a wait until the caller is signalled or times *)
(* out.                                                                    *)
WaitCallback(c) ==
    LET i == sid[c] IN
    /\ pc[c] = "wait"
    /\ IF ~slot_in_use[i]
       THEN Goto(c, "idle") /\ Finish(c, "INVALID_PARAMETER") /\ UNCHANGED <<waiting, got>>
       ELSE IF arrived[i]
       THEN /\ got' = [got EXCEPT ![c] = payload[i]]
            /\ Goto(c, "free") /\ Finish(c, "SUCCESS")
            /\ UNCHANGED waiting
       ELSE IF waiting[i]
       THEN Goto(c, "free") /\ Finish(c, "ALREADY_WAITING") /\ UNCHANGED <<waiting, got>>
       ELSE /\ waiting' = [waiting EXCEPT ![i] = TRUE]
            /\ Goto(c, "sleep")
            /\ UNCHANGED <<rc, got>>
    /\ UNCHANGED <<useVars, type, arrived, payload, callVars, engVars>>

Expire(c) ==
    /\ pc[c] = "sleep"
    /\ Goto(c, "expired")
    /\ UNCHANGED <<useVars, slotVars, callVars, rc, got, engVars>>

(* Either wait may also return for no reason.                              *)
Spurious(c) ==
    /\ SpuriousWakeups
    /\ \/ pc[c] = "sleep" /\ Goto(c, "spurious")
       \/ pc[c] = "busy" /\ Goto(c, "ioctl")
    /\ UNCHANGED <<useVars, slotVars, callVars, rc, got, engVars>>

(* Back from pthread_cond_timedwait with the slot's lock.                  *)
WakeUp(c) ==
    /\ pc[c] \in {"signalled", "spurious", "expired"}
    /\ waiting' = [waiting EXCEPT ![sid[c]] = FALSE]
    /\ IF pc[c] = "expired"
       THEN Finish(c, "TIMEOUT") /\ UNCHANGED got
       ELSE Finish(c, "SUCCESS") /\ got' = [got EXCEPT ![c] = payload[sid[c]]]
    /\ Goto(c, "free")
    /\ UNCHANGED <<useVars, type, arrived, payload, callVars, engVars>>

(* loc_free_slot.                                                          *)
FreeSlot(c) ==
    /\ pc[c] = "free"
    /\ slot_in_use' = [slot_in_use EXCEPT ![sid[c]] = FALSE]
    /\ in_use' = (in_use /\ \E i \in Slots : slot_in_use'[i])
    /\ Goto(c, "idle")
    /\ UNCHANGED <<slotVars, callVars, rc, got, engVars>>
-----------------------------------------------------------------------------
(* loc_match_callback, and the other conditions on a slot.                 *)
Matching(t) == {i \in Slots : slot_in_use[i] /\ type[i] = t /\ ~arrived[i]}

Busy == {c \in Callers : pc[c] = "busy"}

(* Faulty variant: the condition is not signalled.                         *)
RetryNobody(p) == pc' = p

(* pthread_cond_signal(&loc_sync_data.loc_cb_arrived_cond): one caller     *)
(* that found the engine busy tries again.                                 *)
Retry(p) ==
    IF Busy = {} THEN pc' = p ELSE \E b \in Busy : pc' = [p EXCEPT ![b] = "ioctl"]

(* pthread_cond_signal on a slot somebody waits on.                        *)
Signal(i) ==
    [c \in Callers |-> IF waiting[i] /\ pc[c] = "sleep" /\ sid[c] = i
                       THEN "signalled" ELSE pc[c]]

(* loc_api_callback_process_sync_call for an ioctl report: the first slot  *)
(* in use that waits for this type takes it.                               *)
ReportArrives(r) ==
    /\ r \in reports
    /\ reports' = reports \ {r}
    /\ IF ~in_use THEN UNCHANGED <<in_use, arrived, payload, pc>>
       ELSE LET hit == Matching(r.type)
                i   == Lowest(hit)
            IN  /\ in_use' = (\E j \in Slots : slot_in_use[j])
                /\ IF hit = {} THEN UNCHANGED <<arrived, payload>> /\ Retry(pc)
                   ELSE /\ payload' = [payload EXCEPT ![i] = r]
                        /\ arrived' = [arrived EXCEPT ![i] = ~waiting[i]]
                        /\ Retry(Signal(i))
    /\ UNCHANGED <<slot_in_use, type, waiting, callVars, rc, got, engine, failed>>

(* The same for any other event of the engine (a position, a status): no   *)
(* slot takes it, but a busy caller is woken.                              *)
OtherEvent ==
    /\ in_use
    /\ Busy # {}
    /\ in_use' = (\E i \in Slots : slot_in_use[i])
    /\ Retry(pc)
    /\ UNCHANGED <<slot_in_use, slotVars, callVars, rc, got, engVars>>

(* The engine is done with a call: its report is on the way, or is lost.   *)
EngineDone ==
    /\ engine # NULL
    /\ engine' = NULL
    /\ reports' = reports \cup {engine}
    /\ UNCHANGED <<useVars, slotVars, callVars, pc, rc, got, failed>>

EngineForgetsCall ==
    /\ EngineForgets /\ engine # NULL
    /\ engine' = NULL /\ failed' = TRUE
    /\ UNCHANGED <<useVars, slotVars, callVars, pc, rc, got, reports>>
-----------------------------------------------------------------------------
(* loc_api_sync_call_init.                                                 *)
Init ==
    /\ in_use = FALSE /\ slot_in_use = [i \in Slots |-> FALSE]
    /\ type = [i \in Slots |-> NULL] /\ payload = [i \in Slots |-> NULL]
    /\ waiting = [i \in Slots |-> FALSE] /\ arrived = [i \in Slots |-> FALSE]
    /\ pc = [c \in Callers |-> "idle"] /\ sid = [c \in Callers |-> 0]
    /\ calls = [c \in Callers |-> 0] /\ mine = [c \in Callers |-> NULL]
    /\ rc = [c \in Callers |-> "none"] /\ got = [c \in Callers |-> NULL]
    /\ engine = NULL /\ reports = {} /\ failed = FALSE

(* loc_api_sync_ioctl, once its slot is reserved.                          *)
CallerStep(c) ==
    \/ FillSlot(c)
    \/ IoctlAccepted(c) \/ IoctlBusy(c) \/ IoctlRefused(c)
    \/ WaitCallback(c) \/ WakeUp(c) \/ FreeSlot(c)

Next ==
    \/ \E c \in Callers :
          \/ \E t \in TypesOf[c] : AllocSlot(c, t)
          \/ CallerStep(c) \/ Expire(c) \/ Spurious(c)
    \/ \E r \in reports : ReportArrives(r)
    \/ OtherEvent \/ EngineDone \/ EngineForgetsCall

Spec == Init /\ [][Next]_vars

(* Callers run, a wait that is not answered times out, the engine finishes *)
(* what it accepted and the callback thread handles the reports.           *)
Fairness ==
    /\ \A c \in Callers : WF_vars(CallerStep(c)) /\ WF_vars(Expire(c))
    /\ WF_vars(EngineDone) /\ WF_vars(\E r \in reports : ReportArrives(r))
FairSpec == Spec /\ Fairness
-----------------------------------------------------------------------------
Pcs == {"idle", "fill", "ioctl", "busy", "wait", "sleep", "signalled", "spurious",
        "expired", "free"}
Codes == {"none", "SUCCESS", "ENGINE_BUSY", "REFUSED", "TIMEOUT",
          "INVALID_PARAMETER", "ALREADY_WAITING"}
TypeOK ==
    /\ in_use \in BOOLEAN /\ slot_in_use \in [Slots -> BOOLEAN]
    /\ type \in [Slots -> Types \cup {NULL}]
    /\ waiting \in [Slots -> BOOLEAN] /\ arrived \in [Slots -> BOOLEAN]
    /\ payload \in [Slots -> Reports \cup {NULL}]
    /\ pc \in [Callers -> Pcs] /\ sid \in [Callers -> Slots]
    /\ calls \in [Callers -> 0 .. MaxCalls] /\ mine \in [Callers -> Types \cup {NULL}]
    /\ rc \in [Callers -> Codes] /\ got \in [Callers -> Reports \cup {NULL}]
    /\ engine \in Reports \cup {NULL}
    /\ reports \subseteq Reports /\ failed \in BOOLEAN

Running(c) == pc[c] # "idle"
SlotOwnership ==
    /\ \A i \in Slots : slot_in_use[i] <=> \E c \in Callers : Running(c) /\ sid[c] = i
    /\ \A c, d \in Callers : c # d /\ Running(c) /\ Running(d) => sid[c] # sid[d]
InUseFlag == in_use <=> \E i \in Slots : slot_in_use[i]

(* A slot is in use exactly while one call runs on it, and the callback    *)
(* thread's shortcut flag in_use is set exactly while a slot is: two       *)
(* concurrent calls never share a slot, no return path leaks one, and no   *)
(* report is skipped because the flag went down under another call.        *)
SlotsOwned == SlotOwnership /\ InUseFlag

(* The error returns of loc_api_wait_callback, which read the slot another *)
(* thread may be changing, are never taken by loc_api_sync_ioctl.          *)
WaitAccepted == \A c \in Callers : rc[c] \notin {"INVALID_PARAMETER", "ALREADY_WAITING"}

(* A caller never sleeps on a slot whose report has arrived: between the   *)
(* look at has_arrived and the wait no report slips through.               *)
NoLostSignal ==
    \A c \in Callers : pc[c] = "sleep" => waiting[sid[c]] /\ ~arrived[sid[c]]

(* "Obtained the first awaited callback": a call that returns success has  *)
(* a report of the ioctl type it asked for, although its slot was used for *)
(* other types before; only a spurious wake-up, which the code takes for   *)
(* the report, may return something else.                                  *)
RightType ==
    [][\A c \in Callers :
          /\ pc[c] \in {"wait", "signalled"}
          /\ pc'[c] = "free" /\ rc'[c] = "SUCCESS"
          => got'[c] # NULL /\ got'[c].type = mine[c]]_vars

(* "Synchronous IOCTL call (reentrant version)": a successful call returns *)
(* the report of its own ioctl.                                            *)
OwnReport == \A c \in Callers : rc[c] = "SUCCESS" => got[c] = This(c)

(* "If callback arrives before wait, remember it": the report of a call    *)
(* that has no report yet goes to that call's slot.                        *)
Awaiting(c) == pc[c] \in {"wait", "sleep"} /\ ~arrived[sid[c]]
ReportRemembered ==
    [][\A c \in Callers : \A r \in reports :
          r = This(c) /\ Awaiting(c) /\ r \notin reports' => payload'[sid[c]] = r]_vars

(* Every call returns: a wait times out, and a caller that found the       *)
(* engine busy is woken when the engine is free again.  Only after a call  *)
(* that the engine refused or never answered may a caller stay in the wait *)
(* without timeout, since nobody passes the wake-up on.                    *)
CallsReturn ==
    \A c \in Callers :
        (pc[c] = "fill") ~> (pc[c] = "idle" \/ (failed /\ pc[c] = "busy"))
=============================================================================
