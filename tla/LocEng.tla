------------------------------- MODULE LocEng -------------------------------
(***************************************************************************)
(* The location engine adapter (libloc_api/loc_eng.cpp, loc_eng_xtra.cpp): *)
(* the GPS HAL functions the framework calls, the RPC callback that posts  *)
(* events of the modem (loc_event_cb) and the deferred-action thread that  *)
(* does the work "not safe to be done from within an RPC callback".        *)
(*                                                                         *)
(* One step runs under one hold of a mutex, or is one call to the modem or *)
(* to the framework; where the code holds no mutex a step reads or writes  *)
(* one variable that another thread uses.  Reports without state of their  *)
(* own (positions, satellites, NMEA) are one kind of event.  The           *)
(* synchronous ioctl the steps make is LocSyncCall's; here it succeeds or  *)
(* fails.  The framework calls loc_eng_init again only after a clean-up:   *)
(* a repeated one would leave the first deferred thread running on mutexes *)
(* initialised anew, which is not modelled.                                *)
(***************************************************************************)
EXTENDS Naturals, Sequences, FiniteSets

CONSTANTS
    MaxEvents,      \* events the modem sends
    MaxOps          \* calls the framework makes on its own initiative

ASSUME LocEngAssumption == MaxEvents \in Nat /\ MaxOps \in Nat

StatusEvents == {"ENGINE_ON", "ENGINE_OFF", "SESSION_BEGIN", "SESSION_ENDS"}
ServerEvents == {"SERVER_OPEN", "SERVER_CLOSE"}
Events == StatusEvents \cup ServerEvents \cup {"XTRA_REQUEST", "REPORT"}
None == "none"
Flags == {"EVENT", "DELETE_AIDING", "AGPS_STATUS", "DATA_SUCCESS",
          "DATA_CLOSED", "DATA_FAILED", "QUIT"}
DataFlags == {"DATA_SUCCESS", "DATA_CLOSED", "DATA_FAILED"}

VARIABLES
    inited, clientOpened, navigating,    \* loc_eng_inited and the client
    event, flags, agpsStatus,            \* slots for the deferred thread
    engine, session, muted,              \* engine, fix session, mute state
    agpsPending, stopPending, dataOn,    \* AGPS request and deferred stop
    aiding, xtra,                        \* deletion, XTRA data to inject
    xtraCb, xtraPending, agpsCb,         \* callbacks; download request
    wake,                                \* the framework's GPS wake lock
    pc, loc,                             \* the deferred thread, its copies
    fw, back, saying,                    \* the framework thread in its stop
    told,                                \* what it was told of the engine
    request,                             \* the AGPS request it is to answer
    fixing,                              \* the modem is to produce fixes
    failed,                              \* a call to the modem has failed
    crossed, unasked,                    \* a stop crossed a status report;
                                         \* an AGPS request was dropped
    ops, sent                            \* framework calls, modem events

engVars == <<inited, clientOpened, navigating>>
slotVars == <<event, flags, agpsStatus>>
statVars == <<engine, session, muted>>
agpsVars == <<agpsPending, stopPending, dataOn>>
dlVars == <<aiding, xtra, xtraCb, xtraPending, agpsCb>>
thrVars == <<pc, loc>>
stopVars == <<fw, back, saying>>
ghostVars == <<crossed, unasked>>
fwVars == <<stopVars, told, request, ops, ghostVars>>
modemVars == <<fixing, failed, sent>>
vars == <<engVars, slotVars, statVars, agpsVars, dlVars, wake, thrVars,
          fwVars, modemVars>>

NoCopies == [event |-> None, flags |-> {}, engine |-> None,
             aiding |-> FALSE, status |-> None, session |-> None,
             say |-> None]

Init ==
    /\ inited = FALSE /\ clientOpened = FALSE /\ navigating = FALSE
    /\ event = None /\ flags = {} /\ agpsStatus = None
    /\ engine = None /\ session = None /\ muted = "NONE"
    /\ agpsPending = FALSE /\ stopPending = FALSE /\ dataOn = FALSE
    /\ aiding = FALSE /\ xtra = FALSE
    /\ xtraCb = FALSE /\ xtraPending = FALSE /\ agpsCb = FALSE
    /\ wake = FALSE /\ pc = "off" /\ loc = NoCopies
    /\ crossed = FALSE /\ unasked = FALSE
    /\ fw = "idle" /\ back = "idle" /\ saying = None
    /\ told = None /\ request = None /\ ops = 0
    /\ fixing = FALSE /\ failed = FALSE /\ sent = 0

-----------------------------------------------------------------------------
(* Posting to the deferred thread, under deferred_action_mutex: acquire    *)
(* the wake lock, add the flag, signal.                                    *)
Signalled == IF pc = "wait" THEN "woken" ELSE pc
PostUnlocked(f) == flags' = flags \cup {f} /\ pc' = Signalled /\ wake' = wake
Post(f) ==
    /\ flags' = flags \cup {f}
    /\ pc' = Signalled
    /\ wake' = TRUE

(* loc_inform_gps_status: what the framework makes of the status callback. *)
(* BEGIN implies that the engine is on.  That an ENGINE_ON after BEGIN is  *)
(* followed by another BEGIN (the static last_status) tells it nothing new *)
(* of the engine, and what it is told of sessions is left out.             *)
Tell(status) == CASE status = "SESSION_BEGIN" -> "ENGINE_ON"
                  [] status = "SESSION_END" -> told
                  [] OTHER -> status

-----------------------------------------------------------------------------
(* Functions of the HAL interface, called by one framework thread.         *)
FwMay == fw = "idle" /\ ops < MaxOps /\ ops' = ops + 1

(* loc_eng_init: create the RPC client, reset loc_eng_data, open, start    *)
(* the deferred thread.  loc_open may fail; loc_eng_inited is set anyway.  *)
loc_eng_init ==
    /\ FwMay /\ ~inited /\ pc = "off"
    /\ inited' = TRUE /\ clientOpened' \in BOOLEAN /\ navigating' = FALSE
    /\ event' = None /\ flags' = {} /\ agpsStatus' = None
    /\ engine' = None /\ session' = None /\ muted' = "NONE"
    /\ agpsPending' = FALSE /\ stopPending' = FALSE /\ dataOn' = FALSE
    /\ aiding' = FALSE /\ xtra' = FALSE
    /\ xtraCb' = FALSE /\ xtraPending' = FALSE /\ agpsCb' = FALSE
    /\ crossed' = FALSE /\ unasked' = FALSE
    /\ pc' = "top" /\ loc' = NoCopies
    /\ failed' = (failed \/ ~clientOpened')
    /\ told' = None
    /\ UNCHANGED <<wake, stopVars, request, fixing, sent>>

(* loc_eng_start: navigating only if loc_start_fix succeeded.              *)
loc_eng_start ==
    /\ FwMay /\ inited
    /\ \E ok \in BOOLEAN :
         /\ ok => clientOpened
         /\ navigating' = (navigating \/ ok)
         /\ fixing' = (fixing \/ ok)
         /\ failed' = (failed \/ ~ok)
    /\ UNCHANGED <<inited, clientOpened, slotVars, statVars, agpsVars,
                   dlVars, wake, thrVars, stopVars, told, request, ghostVars,
                   sent>>

(* loc_eng_stop, first part: while an AGPS request is pending the stop is  *)
(* left to the deferred thread (under deferred_stop_mutex).                *)
StopCheck(next) ==
    /\ back' = next
    /\ IF agpsPending THEN stopPending' = TRUE /\ fw' = next
                      ELSE fw' = "stop" /\ UNCHANGED stopPending

loc_eng_stop ==
    /\ FwMay /\ inited /\ StopCheck("idle")
    /\ UNCHANGED <<engVars, slotVars, statVars, agpsPending, dataOn,
                   dlVars, wake, thrVars, saying, told, request, ghostVars,
                   modemVars>>

(* Between: the deferred thread has tested what to tell of a session that  *)
(* begins and has not read the session again.                              *)
Between == {"test", "arg"}

(* Then loc_stop_fix; on success the session is over, unless it was.       *)
StopFix ==
    /\ fw = "stop"
    /\ \/ /\ clientOpened /\ fixing' = FALSE
          /\ session' = "SESSION_END"
          /\ fw' = IF session # "SESSION_END" THEN "ended" ELSE "stopped"
          /\ crossed' = (crossed \/ (pc \in Between /\ loc.engine # engine))
          /\ UNCHANGED <<navigating, failed>>
       \/ /\ failed' = TRUE /\ fw' = back
          /\ navigating' = (navigating /\ back = "idle")
          /\ UNCHANGED <<fixing, session, crossed>>
    /\ UNCHANGED <<inited, clientOpened, slotVars, engine, muted, agpsVars,
                   dlVars, wake, thrVars, back, saying, told, request,
                   unasked, ops, sent>>

(* Without a mutex: unless the engine is off the framework is told the     *)
(* session's state, read again; the callback; and navigating is cleared.   *)
StopTest ==
    /\ fw = "ended"
    /\ fw' = IF engine # "ENGINE_OFF" THEN "reading" ELSE "stopped"
    /\ UNCHANGED <<engVars, slotVars, statVars, agpsVars, dlVars, wake,
                   thrVars, back, saying, told, request, ops, ghostVars,
                   modemVars>>

StopArg ==
    /\ fw = "reading" /\ fw' = "telling"
    /\ saying' = session
    /\ crossed' = (crossed \/ (session = "SESSION_BEGIN"
                                /\ engine = "ENGINE_OFF"))
    /\ UNCHANGED <<engVars, slotVars, statVars, agpsVars, dlVars, wake,
                   thrVars, back, told, request, ops, unasked, modemVars>>

StopTell ==
    /\ fw = "telling" /\ fw' = "stopped"
    /\ told' = Tell(saying) /\ saying' = None
    /\ UNCHANGED <<engVars, slotVars, statVars, agpsVars, dlVars, wake,
                   thrVars, back, request, ops, ghostVars, modemVars>>

StopDone ==
    /\ fw = "stopped" /\ fw' = back
    /\ navigating' = FALSE
    /\ UNCHANGED <<inited, clientOpened, slotVars, statVars, agpsVars, dlVars,
                   wake, thrVars, back, saying, told, request, ops, ghostVars,
                   modemVars>>

(* loc_eng_delete_aiding_data: remembered, and posted unless the engine is *)
(* on.                                                                     *)
loc_eng_delete_aiding_data ==
    /\ FwMay /\ inited
    /\ aiding' = TRUE
    /\ IF engine # "ENGINE_ON" THEN Post("DELETE_AIDING")
                               ELSE UNCHANGED <<flags, pc, wake>>
    /\ UNCHANGED <<engVars, event, agpsStatus, statVars, agpsVars, xtra,
                   xtraCb, xtraPending, agpsCb, loc, stopVars, told, request,
                   ghostVars, modemVars>>

(* loc_eng_mute_one_session: the next session the engine starts is muted   *)
(* (called for a network-initiated request that overrides privacy).        *)
loc_eng_mute_one_session ==
    /\ FwMay /\ inited /\ muted' = "WAIT"
    /\ UNCHANGED <<engVars, slotVars, engine, session, agpsVars, dlVars,
                   wake, thrVars, stopVars, told, request, ghostVars,
                   modemVars>>

(* qct_loc_eng_xtra_init: register the download callback.                  *)
xtra_init ==
    /\ FwMay /\ inited /\ xtraCb' = TRUE
    /\ UNCHANGED <<engVars, slotVars, statVars, agpsVars, aiding, xtra,
                   xtraPending, agpsCb, wake, thrVars, stopVars, told,
                   request, ghostVars, modemVars>>

(* loc_eng_agps_init: register the AGPS callback, once after loc_eng_init, *)
(* which has cleared it.  The server addresses are set in the modem.       *)
agps_init ==
    /\ fw = "idle" /\ inited /\ ~agpsCb /\ agpsCb' = TRUE
    /\ UNCHANGED <<engVars, slotVars, statVars, agpsVars, aiding, xtra,
                   xtraCb, xtraPending, wake, thrVars, fwVars, modemVars>>

(* qct_loc_eng_inject_xtra_data_proxy: buffer the data and, unless the     *)
(* engine is on, signal the deferred thread: without its mutex, without a  *)
(* flag and without the wake lock.                                         *)
inject_xtra_data_proxy ==
    /\ FwMay /\ inited
    /\ xtra' = TRUE
    /\ pc' = IF engine # "ENGINE_ON" THEN Signalled ELSE pc
    /\ UNCHANGED <<engVars, slotVars, statVars, agpsVars, aiding,
                   xtraCb, xtraPending, agpsCb, wake, loc, stopVars, told,
                   request, ghostVars, modemVars>>

(* The framework's answer to an AGPS request: loc_eng_data_conn_open (with *)
(* the APN, which sets data_connection_is_on), _closed and _failed.        *)
Answer(f) ==
    /\ fw = "idle" /\ inited /\ request # None
    /\ f \in IF request = "REQUEST" THEN {"DATA_SUCCESS", "DATA_FAILED"}
                                    ELSE {"DATA_CLOSED", "DATA_FAILED"}
    /\ request' = None
    /\ dataOn' = (dataOn \/ f = "DATA_SUCCESS")
    /\ Post(f)
    /\ UNCHANGED <<engVars, event, agpsStatus, statVars, agpsPending,
                   stopPending, dlVars, loc, stopVars, told, ops, ghostVars,
                   modemVars>>

loc_eng_data_conn == \E f \in DataFlags : Answer(f)

(* loc_eng_cleanup: loc_eng_deinit stops a session under way, then closes  *)
(* the client; then the deferred thread is told to quit and joined.        *)
loc_eng_cleanup ==
    /\ FwMay /\ inited
    /\ IF navigating THEN StopCheck("close")
                     ELSE fw' = "close" /\ UNCHANGED <<back, stopPending>>
    /\ UNCHANGED <<engVars, slotVars, statVars, agpsPending, dataOn,
                   dlVars, wake, thrVars, saying, told, request, ghostVars,
                   modemVars>>

Close ==
    /\ fw = "close" /\ fw' = "quit"
    /\ inited' = FALSE /\ clientOpened' = FALSE /\ navigating' = FALSE
    /\ \/ clientOpened /\ fixing' = FALSE /\ UNCHANGED failed
       \/ failed' = TRUE /\ UNCHANGED fixing
    /\ UNCHANGED <<slotVars, statVars, agpsVars, dlVars, wake, thrVars,
                   back, saying, told, request, ops, ghostVars, sent>>

QuitUnsignalled == flags' = flags \cup {"QUIT"} /\ pc' = pc /\ wake' = TRUE
PostQuit == Post("QUIT")
Quit ==
    /\ fw = "quit" /\ PostQuit /\ fw' = "join"
    /\ UNCHANGED <<engVars, event, agpsStatus, statVars, agpsVars, dlVars,
                   loc, back, saying, told, request, ops, ghostVars,
                   modemVars>>

Join ==
    /\ fw = "join" /\ pc = "exit"
    /\ fw' = "idle" /\ pc' = "off" /\ request' = None
    /\ UNCHANGED <<engVars, slotVars, statVars, agpsVars, dlVars, wake,
                   loc, back, saying, told, ops, ghostVars, modemVars>>

-----------------------------------------------------------------------------
(* loc_event_cb, in the RPC callback thread: the event overwrites the one  *)
(* slot, whether or not the deferred thread has emptied it.  The modem     *)
(* sends events to an open client.                                         *)
loc_event_cb(e) ==
    /\ sent < MaxEvents /\ inited /\ clientOpened
    /\ sent' = sent + 1
    /\ event' = e /\ Post("EVENT")
    /\ UNCHANGED <<engVars, agpsStatus, statVars, agpsVars, dlVars, loc,
                   fwVars, fixing, failed>>

-----------------------------------------------------------------------------
(* loc_eng_deferred_action_thread.  With no flag set it gives the wake     *)
(* lock back and waits, once; with QUIT it leaves; otherwise it copies     *)
(* what it needs, empties the slots and works with the mutex released.     *)
ThreadWait ==
    /\ pc = "top" /\ flags = {}
    /\ pc' = "wait" /\ wake' = FALSE
    /\ UNCHANGED <<engVars, slotVars, statVars, agpsVars, dlVars, loc,
                   fwVars, modemVars>>

ThreadCopy ==
    /\ \/ pc = "top" /\ flags # {}
       \/ pc = "woken"
    /\ "QUIT" \notin flags
    /\ loc' = [event |-> event, flags |-> flags, engine |-> engine,
               aiding |-> aiding, status |-> agpsStatus,
               session |-> None, say |-> None]
    /\ event' = None /\ flags' = {} /\ agpsStatus' = None
    /\ wake' = (wake \/ pc = "woken") /\ pc' = "event"
    /\ UNCHANGED <<engVars, statVars, agpsVars, dlVars, fwVars, modemVars>>

ThreadQuit ==
    /\ pc \in {"top", "woken"} /\ "QUIT" \in flags
    /\ pc' = "exit" /\ wake' = FALSE
    /\ UNCHANGED <<engVars, slotVars, statVars, agpsVars, dlVars, loc,
                   fwVars, modemVars>>

(* loc_eng_process_loc_event.  Reports change nothing here.  A request for *)
(* XTRA data waits for the download callback to be registered.  A status   *)
(* report starts with copies of both states; loc.engine is that of the     *)
(* engine, which no other thread writes.                                   *)
EngineAfter(e) == CASE e = "ENGINE_OFF" -> "ENGINE_OFF"
                    [] e \in {"ENGINE_ON", "SESSION_BEGIN"} -> "ENGINE_ON"
                    [] OTHER -> engine
SessionAfter(e) == CASE e = "ENGINE_OFF" -> "SESSION_END"
                     [] e = "SESSION_BEGIN" -> e
                     [] OTHER -> session

(* loc_eng_process_conn_request: posted to the thread itself.              *)
ConnRequest(e) ==
    /\ agpsStatus' = IF e = "SERVER_OPEN" THEN "REQUEST" ELSE "RELEASE"
    /\ agpsPending' = (e = "SERVER_OPEN")
    /\ flags' = flags \cup {"AGPS_STATUS"} /\ wake' = TRUE

ThreadEvent ==
    /\ pc = "event"
    /\ IF loc.event \in StatusEvents
         THEN /\ pc' = "engine" /\ loc' = [loc EXCEPT !.session = session]
         ELSE pc' = "delete" /\ UNCHANGED loc
    /\ IF loc.event \in ServerEvents
         THEN ConnRequest(loc.event)
         ELSE UNCHANGED <<agpsStatus, agpsPending, flags, wake>>
    /\ xtraPending' = ((xtraPending \/ loc.event = "XTRA_REQUEST")
                         /\ (loc.event = None \/ ~xtraCb))
    /\ UNCHANGED <<engVars, event, statVars, stopPending, dataOn, aiding,
                   xtra, xtraCb, agpsCb, fwVars, modemVars>>

(* loc_eng_report_status, without a mutex up to the mute state: write the  *)
(* engine's state, then the session's; tell the framework if the engine's  *)
(* changed, unless a session begins; then if the session's changed, unless *)
(* the engine is off, reading the session once more for the argument.      *)
ReportEngine ==
    /\ pc = "engine" /\ pc' = "session"
    /\ engine' = EngineAfter(loc.event)
    /\ crossed' = IF engine' = engine THEN crossed
                  ELSE fw = "telling" /\ saying = "SESSION_BEGIN"
    /\ UNCHANGED <<engVars, slotVars, session, muted, agpsVars, dlVars, wake,
                   loc, stopVars, told, request, ops, unasked, modemVars>>

ReportSession ==
    /\ pc = "session" /\ pc' = "changed"
    /\ session' = SessionAfter(loc.event)
    /\ UNCHANGED <<engVars, slotVars, engine, muted, agpsVars, dlVars, wake,
                   loc, fwVars, modemVars>>

BeginOnly == session = "SESSION_BEGIN" /\ loc.engine # engine  \* faulty
EngineChanged == session # "SESSION_BEGIN" /\ loc.engine # engine
ReportChanged ==
    /\ pc = "changed"
    /\ IF EngineChanged
         THEN pc' = "tell" /\ loc' = [loc EXCEPT !.say = engine]
         ELSE pc' = "test" /\ UNCHANGED loc
    /\ UNCHANGED <<engVars, slotVars, statVars, agpsVars, dlVars, wake,
                   fwVars, modemVars>>

ReportTest ==
    /\ pc = "test"
    /\ pc' = IF engine # "ENGINE_OFF" /\ loc.session # session
               THEN "arg" ELSE "post"
    /\ UNCHANGED <<engVars, slotVars, statVars, agpsVars, dlVars, wake, loc,
                   fwVars, modemVars>>

ReportArg ==
    /\ pc = "arg" /\ pc' = "tell"
    /\ loc' = [loc EXCEPT !.say = session]
    /\ UNCHANGED <<engVars, slotVars, statVars, agpsVars, dlVars, wake,
                   fwVars, modemVars>>

(* loc_inform_gps_status in the deferred thread.                           *)
Inform ==
    /\ pc = "tell" /\ told' = Tell(loc.say)
    /\ pc' = IF loc.say \in {"ENGINE_ON", "ENGINE_OFF"} THEN "test" ELSE "post"
    /\ UNCHANGED <<engVars, slotVars, statVars, agpsVars, dlVars, wake, loc,
                   stopVars, request, ops, ghostVars, modemVars>>

(* Then move the mute state, under its own mutex, and, the engine being    *)
(* off, post what waited for that; neither reads what the other writes.    *)
(* The copies end with the function.                                       *)
ReportPost ==
    /\ pc = "post" /\ pc' = "delete"
    /\ muted' = CASE engine = "ENGINE_ON" /\ muted = "WAIT" -> "MUTED"
                  [] engine = "ENGINE_OFF" /\ muted = "MUTED" -> "NONE"
                  [] OTHER -> muted
    /\ IF engine # "ENGINE_ON" /\ (aiding \/ xtra)
         THEN flags' = flags \cup {"DELETE_AIDING"} /\ wake' = TRUE
         ELSE UNCHANGED <<flags, wake>>
    /\ loc' = [loc EXCEPT !.session = None, !.say = None]
    /\ UNCHANGED <<engVars, event, agpsStatus, engine, session, agpsVars,
                   dlVars, fwVars, modemVars>>

(* loc_eng_delete_aiding_data_action, decided on the copies taken before   *)
(* the event was processed: clear, ioctl, and clear once more.             *)
ThreadDelete ==
    /\ pc = "delete"
    /\ IF loc.engine # "ENGINE_ON" /\ loc.aiding
         THEN pc' = "deleting" /\ aiding' = FALSE
         ELSE pc' = "xtra" /\ UNCHANGED aiding
    /\ UNCHANGED <<engVars, slotVars, statVars, agpsVars, xtra, xtraCb,
                   xtraPending, agpsCb, wake, loc, fwVars, modemVars>>

ThreadDeleted ==
    /\ pc = "deleting" /\ pc' = "xtra"
    /\ aiding' = FALSE
    /\ UNCHANGED <<engVars, slotVars, statVars, agpsVars, xtra, xtraCb,
                   xtraPending, agpsCb, wake, loc, fwVars, modemVars>>

(* loc_eng_inject_xtra_data_in_buffer; the parts are LocXtra's.            *)
ThreadXtra ==
    /\ pc = "xtra" /\ pc' = "conn"
    /\ xtra' = (xtra /\ engine = "ENGINE_ON")
    /\ UNCHANGED <<engVars, slotVars, statVars, agpsVars, aiding, xtraCb,
                   xtraPending, agpsCb, wake, loc, fwVars, modemVars>>

(* The answer of the framework is passed on: loc_eng_ioctl_data_open_status*)
(* and _close_status.  A failure is reported as one of opening only if a   *)
(* connection was on.                                                      *)
ConnStatus ==
    CASE "DATA_SUCCESS" \in loc.flags -> "OPEN_OK"
      [] "DATA_CLOSED" \in loc.flags -> "CLOSE_OK"
      [] "DATA_FAILED" \in loc.flags /\ dataOn -> "OPEN_FAIL"
      [] "DATA_FAILED" \in loc.flags -> "CLOSE_FAIL"
      [] OTHER -> None

ThreadConn ==
    /\ pc = "conn" /\ pc' = IF ConnStatus = None THEN "atl" ELSE "stop"
    /\ dataOn' = CASE ConnStatus = "OPEN_OK" -> TRUE
                   [] ConnStatus \in {"OPEN_FAIL", "CLOSE_FAIL"} -> FALSE
                   [] OTHER -> dataOn
    /\ UNCHANGED <<engVars, slotVars, statVars, agpsPending, stopPending,
                   dlVars, wake, loc, fwVars, fixing,
                   failed, sent>>

(* The deferred stop, under deferred_stop_mutex.  stop_request_pending     *)
(* stays set.                                                              *)
StopForgotten == FALSE
StopDeferred == stopPending
ThreadStop ==
    /\ pc = "stop" /\ pc' = "atl"
    /\ agpsPending' = FALSE
    /\ \/ /\ StopDeferred
          /\ \/ clientOpened /\ fixing' = FALSE /\ UNCHANGED failed
             \/ failed' = TRUE /\ UNCHANGED fixing
       \/ ~StopDeferred /\ UNCHANGED <<fixing, failed>>
    /\ UNCHANGED <<engVars, slotVars, statVars, stopPending, dataOn, dlVars,
                   wake, loc, fwVars, sent>>

(* loc_eng_process_atl_action: the request reaches the framework, or is    *)
(* dropped when the AGPS callback is not registered yet.  The copies end   *)
(* with the round.                                                         *)
ThreadAtl ==
    /\ pc = "atl" /\ pc' = "top" /\ loc' = NoCopies
    /\ IF loc.status # None /\ agpsCb
         THEN request' = loc.status /\ UNCHANGED unasked
         ELSE /\ unasked' = (unasked \/ loc.status # None)
              /\ UNCHANGED request
    /\ UNCHANGED <<engVars, slotVars, statVars, agpsVars, dlVars, wake,
                   stopVars, told, ops, crossed, modemVars>>

-----------------------------------------------------------------------------
Thread == \/ ThreadWait \/ ThreadCopy \/ ThreadQuit \/ ThreadEvent
          \/ ThreadDelete \/ ThreadDeleted \/ ThreadXtra \/ ThreadConn
          \/ ThreadStop \/ ThreadAtl
          \/ ReportEngine \/ ReportSession \/ ReportChanged \/ ReportTest
          \/ ReportArg \/ Inform \/ ReportPost
Stop == StopFix \/ StopTest \/ StopArg \/ StopTell \/ StopDone
Continue == Stop \/ Close \/ Quit \/ Join
Next ==
    \/ loc_eng_init \/ loc_eng_start \/ loc_eng_stop
    \/ loc_eng_mute_one_session \/ loc_eng_delete_aiding_data
    \/ xtra_init \/ agps_init \/ inject_xtra_data_proxy
    \/ loc_eng_data_conn \/ loc_eng_cleanup
    \/ Continue
    \/ \E e \in Events : loc_event_cb(e)
    \/ Thread

(* The threads run, and the framework answers the requests it is given.    *)
Fairness == WF_vars(Thread) /\ WF_vars(Continue) /\ WF_vars(loc_eng_data_conn)
Spec == Init /\ [][Next]_vars /\ Fairness

-----------------------------------------------------------------------------
TypeOK ==
    /\ {inited, clientOpened, navigating, agpsPending, stopPending, dataOn,
        aiding, xtra, xtraCb, xtraPending, agpsCb, wake, fixing, failed,
        crossed, unasked} \subseteq BOOLEAN
    /\ event \in Events \cup {None} /\ flags \subseteq Flags
    /\ {agpsStatus, request} \subseteq {None, "REQUEST", "RELEASE"}
    /\ engine \in {None, "ENGINE_ON", "ENGINE_OFF"}
    /\ session \in {None, "SESSION_BEGIN", "SESSION_END"}
    /\ muted \in {"NONE", "WAIT", "MUTED"}

(* "hold a wake lock while events are pending for deferred_action_thread": *)
(* until the thread has dealt with everything posted to it, and while it   *)
(* works, the phone is kept awake, although the lock does not count.       *)
Reporting == {"engine", "session", "changed", "tell", "test", "arg", "post"}
Working == Reporting \cup {"event", "delete", "deleting", "xtra", "conn",
                           "stop", "atl"}
WakeWhilePending ==
    pc \notin {"off", "exit"} /\ (flags # {} \/ pc \in Working) => wake

(* Whenever the deferred thread is waiting, the engine state the framework *)
(* was last told, directly or by implication, is the adapter's: merging    *)
(* ENGINE_ON into SESSION_BEGIN and SESSION_END into ENGINE_OFF loses      *)
(* nothing, although a stop on the framework's thread ends and announces   *)
(* sessions between any two steps of a report - with two exceptions, kept  *)
(* in crossed until the engine's state changes again: the stop ends the    *)
(* session between the two tests of a report of SESSION_BEGIN, or it reads *)
(* SESSION_BEGIN for its own announcement before a report of ENGINE_OFF    *)
(* has come to the session, and announces it afterwards.                   *)
EngineTold ==
    inited /\ pc \in {"wait", "woken"} /\ ~crossed => told = engine

(* Without the exceptions it does not hold.                                *)
EngineAlwaysTold == inited /\ pc \in {"wait", "woken"} => told = engine

(* A stop deferred because an AGPS request is pending is carried out in    *)
(* the end, unless the client is closed, the modem refuses, or a request   *)
(* was dropped before the framework had registered its AGPS callback.      *)
StopObeyed ==
    stopPending /\ agpsPending ~> ~fixing \/ failed \/ ~inited \/ unasked

(* loc_eng_cleanup returns: the thread sees the request to quit.           *)
CleanupReturns == fw = "join" ~> fw = "idle"
=============================================================================
