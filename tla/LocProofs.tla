----------------------------- MODULE LocProofs -----------------------------
(***************************************************************************)
(* The location stack, for any number of clients, table entries, handles,  *)
(* events, calls, servers and parts: no client of the Loc API glue acts on *)
(* another's event, the deferred-action thread keeps the phone awake while *)
(* it has work, the framework knows the engine's state, the modem uses the *)
(* servers named last, which XTRA files arrive whole, and the message      *)
(* queue is a FIFO.                                                        *)
(***************************************************************************)
EXTENDS LocEng, LocGlue, LocXtra, LocHal, MsgQueue, SequenceTheorems,
        FiniteSetTheorems, WellFoundedInduction, TLAPS

-----------------------------------------------------------------------------
(* LocGlue.                                                                *)

Entry == [cb : GlueClients \cup {NULL}, handle : Nat]
Session == [handle : Nat \ {NoHandle}, index : Index, opener : GlueClients]

GlueTypes ==
    /\ clnt \in BOOLEAN /\ table \in [Index -> Entry]
    /\ held \in [GlueClients -> Nat] /\ sessions \subseteq Session
    /\ handles \in Nat
    /\ acted \subseteq [opener : GlueClients, client : GlueClients]

(* Handles in use were given out before, so that the next one is new.      *)
HandlesGiven ==
    /\ \A c \in GlueClients : held[c] <= handles
    /\ \A s \in sessions : s.handle <= handles

(* A client holds the handle of a session only if it opened the session;   *)
(* the table, which failed calls leave behind, plays no part in it.        *)
HeldByOpener ==
    \A s \in sessions, c \in GlueClients : s.handle = held[c] => s.opener = c

GlueInv == GlueTypes /\ HandlesGiven /\ HeldByOpener /\ NoForeignEvent

-----------------------------------------------------------------------------
(* The entry loc_open chooses is one of the table or past its end.         *)
LEMMA SlotType ==
    ASSUME GlueTypes, NEW c \in GlueClients, Slot(c) \in Index
    PROVE  [table EXCEPT ![Slot(c)].cb = c] \in [Index -> Entry]
BY DEF GlueTypes, Entry

(* loc_api_glue_init with its fresh table.                                 *)
LEMMA EmptyTableType == EmptyTable \in [Index -> Entry]
BY DEF EmptyTable, Entry, NoHandle

(* Before the first loc_api_glue_init nothing is open and nothing held.     *)
LEMMA GlueStart == GlueInit => GlueInv
<1> SUFFICES ASSUME GlueInit PROVE GlueInv
  OBVIOUS
<1>1. clnt \in BOOLEAN /\ table \in [Index -> Entry]
  BY EmptyTableType DEF GlueInit
<1>2. held \in [GlueClients -> Nat] /\ sessions = {} /\ handles = 0 /\ acted = {}
  BY DEF GlueInit, NoHandle
<1>3. \A c \in GlueClients : held[c] = 0
  BY DEF GlueInit, NoHandle
<1>4. HandlesGiven
  BY <1>2, <1>3 DEF HandlesGiven
<1> QED
  BY <1>1, <1>2, <1>4 DEF GlueInv, GlueTypes, HeldByOpener, NoForeignEvent

(* loc_open: the new handle is held by nobody yet and belongs to no        *)
(* session; every other outcome leaves the client without a handle.        *)
LEMMA OpenStep ==
    ASSUME GlueInv, NEW c \in GlueClients, loc_open(c)
    PROVE  GlueInv'
<1> DEFINE i == Slot(c)
           h == handles + 1
           s0 == [handle |-> h, index |-> i, opener |-> c]
<1> USE DEF GlueInv
<1>1. i \in Index /\ h \in Nat \ {NoHandle} /\ UNCHANGED <<clnt, acted>>
  BY DEF loc_open, GlueTypes, NoHandle
<1>2. CASE /\ handles' = h /\ sessions' = sessions \cup {s0}
           /\ table' = [table EXCEPT ![i] = [cb |-> c, handle |-> h]]
           /\ held' = [held EXCEPT ![c] = h]
  <2>1. GlueTypes'
    BY <1>1, <1>2 DEF GlueTypes, Entry, Session
  <2>2. HandlesGiven'
    BY <1>1, <1>2 DEF GlueTypes, HandlesGiven, Session
  <2>3. HeldByOpener'
    BY <1>1, <1>2 DEF GlueTypes, HandlesGiven, HeldByOpener, Session
  <2> QED
    BY <1>1, <2>1, <2>2, <2>3 DEF NoForeignEvent
<1>3. CASE /\ handles' = h /\ sessions' = sessions \cup {s0}
           /\ table' = [table EXCEPT ![i].cb = c]
           /\ held' = [held EXCEPT ![c] = NoHandle]
  <2>1. GlueTypes'
    BY <1>1, <1>3, SlotType DEF GlueTypes, Session, NoHandle
  <2>2. HandlesGiven'
    BY <1>1, <1>3 DEF GlueTypes, HandlesGiven, Session, NoHandle
  <2>3. HeldByOpener'
    BY <1>1, <1>3 DEF GlueTypes, HandlesGiven, HeldByOpener, Session, NoHandle
  <2> QED
    BY <1>1, <2>1, <2>2, <2>3 DEF NoForeignEvent
<1>4. CASE /\ table' = [table EXCEPT ![i].cb = c]
           /\ held' = [held EXCEPT ![c] = NoHandle]
           /\ UNCHANGED <<sessions, handles>>
  <2>1. GlueTypes'
    BY <1>1, <1>4, SlotType DEF GlueTypes, NoHandle
  <2>2. HandlesGiven'
    BY <1>4 DEF GlueTypes, HandlesGiven, NoHandle
  <2>3. HeldByOpener'
    BY <1>4 DEF GlueTypes, HeldByOpener, Session, NoHandle
  <2> QED
    BY <1>1, <2>1, <2>2, <2>3 DEF NoForeignEvent
<1> QED
  BY <1>2, <1>3, <1>4 DEF loc_open

(* loc_close: the client gives its handle up whatever the modem did.       *)
LEMMA CloseStep ==
    ASSUME GlueInv, NEW c \in GlueClients, loc_close(c)
    PROVE  GlueInv'
<1> USE DEF GlueInv
<1>1. /\ held' = [held EXCEPT ![c] = NoHandle]
      /\ sessions' \subseteq sessions /\ clnt' \in BOOLEAN
      /\ UNCHANGED <<handles, acted>>
  BY DEF loc_close
<1>2. table' \in [Index -> Entry]
  BY DEF loc_close, GlueTypes, Entry, NoHandle
<1>3. GlueTypes'
  BY <1>1, <1>2 DEF GlueTypes, NoHandle
<1>4. HandlesGiven' /\ HeldByOpener'
  BY <1>1 DEF GlueTypes, HandlesGiven, HeldByOpener, Session, NoHandle
<1> QED
  BY <1>1, <1>3, <1>4 DEF NoForeignEvent

(* An event reaches the client in the table's entry, and that client acts  *)
(* only if it holds the event's handle.                                    *)
LEMMA EventStep ==
    ASSUME GlueInv, NEW s \in sessions, rpc_loc_event_cb_f_type_svc(s)
    PROVE  GlueInv'
<1> DEFINE c == table[s.index].cb
<1> USE DEF GlueInv
<1>1. /\ c # NULL /\ s.handle = held[c]
      /\ acted' = acted \cup {[opener |-> s.opener, client |-> c]}
      /\ UNCHANGED <<clnt, table, held, sessions, handles>>
  BY DEF rpc_loc_event_cb_f_type_svc, HandleMatches
<1>2. c \in GlueClients /\ s.opener \in GlueClients
  BY <1>1 DEF GlueTypes, Session, Entry
<1>3. s.opener = c
  BY <1>1, <1>2 DEF HeldByOpener
<1>4. GlueTypes' /\ NoForeignEvent'
  BY <1>1, <1>2, <1>3 DEF GlueTypes, NoForeignEvent
<1> QED
  BY <1>1, <1>4 DEF HandlesGiven, HeldByOpener

(* Every call of the glue and every event keeps the invariant.             *)
LEMMA GlueStep == GlueInv /\ [GlueNext]_glueVars => GlueInv'
<1> SUFFICES ASSUME GlueInv, [GlueNext]_glueVars PROVE GlueInv'
  OBVIOUS
<1>1. CASE loc_api_glue_init
  BY <1>1, EmptyTableType
     DEF loc_api_glue_init, GlueInv, GlueTypes, HandlesGiven, HeldByOpener, NoForeignEvent
<1>2. ASSUME NEW c \in GlueClients, TooManyClients(c) PROVE GlueInv'
  BY <1>2 DEF TooManyClients, GlueInv, GlueTypes, HandlesGiven, HeldByOpener, NoForeignEvent,
              Session, NoHandle
<1>3. CASE UNCHANGED glueVars
  BY <1>3 DEF glueVars, GlueInv, GlueTypes, HandlesGiven, HeldByOpener, NoForeignEvent
<1> QED
  BY <1>1, <1>2, <1>3, OpenStep, CloseStep, EventStep DEF GlueNext

(* rpc_loc_event_cb_f_type_svc never hands a client the event of a session *)
(* another client opened, although the index of the event may name an      *)
(* entry that changed hands since: handles are never reused, and           *)
(* loc_event_cb compares them.                                             *)
THEOREM EventsOwn == GlueSpec => []NoForeignEvent
<1>1. GlueInv => NoForeignEvent
  BY DEF GlueInv
<1> QED
  BY GlueStart, GlueStep, <1>1, PTL DEF GlueSpec
-----------------------------------------------------------------------------
(* LocEng.                                                                 *)

(* The wake lock is held or not; of the loop only the points matter.       *)
WakeInv == wake \in BOOLEAN /\ WakeWhilePending

(* A session that has begun implies an engine that is on, but between the  *)
(* two assignments for an engine that goes off: without it the test of the *)
(* session's state would swallow ENGINE_ON.                                *)
BeginIsOn ==
    session = "SESSION_BEGIN" =>
        \/ engine = "ENGINE_ON"
        \/ engine = "ENGINE_OFF" /\ pc = "session" /\ loc.event = "ENGINE_OFF"

(* What the deferred thread's copies say while it works on a report.       *)
LocShape ==
    loc = [event |-> loc.event, flags |-> loc.flags, engine |-> loc.engine,
           aiding |-> loc.aiding, status |-> loc.status,
           session |-> loc.session, say |-> loc.say]
Copies ==
    /\ pc \in {"event", "engine"} => loc.engine = engine
    /\ pc \in {"engine", "session"} => loc.event \in StatusEvents
    /\ pc = "session" /\ loc.event = "SESSION_BEGIN" => engine = "ENGINE_ON"
    /\ pc \in Reporting =>
         /\ loc.session = "SESSION_BEGIN" => loc.engine = "ENGINE_ON"
         /\ session = None => loc.session = None
         /\ pc = "arg" => session # None

(* What the framework's thread is about to announce in a stop.             *)
Announcing ==
    /\ fw \in {"ended", "reading"} => session # None
    /\ fw = "telling" =>
         /\ saying \in {"SESSION_BEGIN", "SESSION_END"}
         /\ saying = "SESSION_BEGIN" => engine = "ENGINE_ON" \/ crossed

(* The framework knows the engine's state, or the rest of the report will  *)
(* tell it: at each point of the report, how.                              *)
Known == ~crossed => told = engine
Knows ==
    CASE pc \in {"session", "changed"} -> loc.engine = engine => Known
      [] pc = "test" -> \/ Known
                        \/ /\ engine = "ENGINE_ON" /\ session = "SESSION_BEGIN"
                           /\ loc.engine # engine
                           /\ loc.session # "SESSION_BEGIN"
      [] pc = "arg" -> \/ Known
                       \/ /\ engine = "ENGINE_ON" /\ session = "SESSION_BEGIN"
                          /\ loc.engine # engine
      [] pc = "tell" -> \/ loc.say = engine
                        \/ loc.say = "SESSION_BEGIN" /\ engine = "ENGINE_ON"
                        \/ loc.say = "SESSION_END" /\ Known
      [] OTHER -> Known

ToldTypes ==
    /\ engine \in {None, "ENGINE_ON", "ENGINE_OFF"}
    /\ session \in {None, "SESSION_BEGIN", "SESSION_END"}
    /\ crossed \in BOOLEAN /\ LocShape /\ back \in {"idle", "close"}
ToldInv == ToldTypes /\ BeginIsOn /\ Copies /\ Announcing /\ Knows

-----------------------------------------------------------------------------
(* No event is pending before the first loc_eng_init.                      *)
LEMMA WakeStart == Init => WakeInv
BY DEF Init, WakeInv, WakeWhilePending

(* Whoever posts takes the lock first.                                     *)
LEMMA PostAwake ==
    ASSUME NEW f, Post(f)
    PROVE  WakeInv'
BY DEF Post, WakeInv, WakeWhilePending

(* The calls of the framework that post nothing leave flags and wake lock; *)
(* the XTRA proxy may wake the thread, which is then not yet working.      *)
LEMMA CallsAwake ==
    ASSUME WakeInv,
           \/ loc_eng_init \/ loc_eng_start \/ loc_eng_stop
           \/ loc_eng_mute_one_session \/ xtra_init \/ agps_init
           \/ inject_xtra_data_proxy \/ loc_eng_cleanup
           \/ Stop \/ Close \/ Join
    PROVE  WakeInv'
<1> USE DEF WakeInv, WakeWhilePending, Working, Reporting, slotVars, thrVars
<1>1. CASE loc_eng_init
  BY <1>1 DEF loc_eng_init
<1>2. CASE inject_xtra_data_proxy
  BY <1>2 DEF inject_xtra_data_proxy, Signalled
<1>3. CASE Join
  BY <1>3 DEF Join
<1>4. CASE \/ loc_eng_start \/ loc_eng_stop \/ loc_eng_mute_one_session
           \/ xtra_init \/ agps_init \/ loc_eng_cleanup \/ Stop \/ Close
  <2>1. CASE Stop \/ Close
    BY <2>1 DEF Stop, StopFix, StopTest, StopArg, StopTell, StopDone, Close
  <2>2. CASE agps_init
    BY <2>2 DEF agps_init
  <2>3. CASE \/ loc_eng_start \/ loc_eng_stop \/ loc_eng_mute_one_session
             \/ xtra_init \/ loc_eng_cleanup
    BY <2>3 DEF loc_eng_start, loc_eng_stop, loc_eng_mute_one_session,
                xtra_init, loc_eng_cleanup
  <2> QED
    BY <1>4, <2>1, <2>2, <2>3
<1> QED
  BY <1>1, <1>2, <1>3, <1>4

(* The steps of a status report keep the thread at work and release        *)
(* nothing.                                                                *)
LEMMA ReportAwake ==
    ASSUME WakeInv,
           \/ ReportEngine \/ ReportSession \/ ReportChanged \/ ReportTest
           \/ ReportArg \/ Inform \/ ReportPost
    PROVE  WakeInv'
<1> USE DEF WakeInv, WakeWhilePending, Working, Reporting, slotVars
<1>1. wake
  BY DEF ReportEngine, ReportSession, ReportChanged, ReportTest, ReportArg,
         Inform, ReportPost
<1>2. wake' = TRUE \/ wake' = wake
  BY DEF ReportEngine, ReportSession, ReportChanged, ReportTest, ReportArg,
         Inform, ReportPost
<1> QED
  BY <1>1, <1>2

(* The deferred thread gives the lock back only with nothing left to do.   *)
LEMMA ThreadAwake ==
    ASSUME WakeInv, Thread
    PROVE  WakeInv'
<1> USE DEF WakeInv, WakeWhilePending, Working, slotVars
<1>1. CASE ThreadWait
  BY <1>1 DEF ThreadWait, Reporting
<1>2. CASE ThreadCopy
  <2>1. wake' = TRUE
    BY <1>2 DEF ThreadCopy
  <2> QED
    BY <2>1
<1>3. CASE ThreadQuit
  BY <1>3 DEF ThreadQuit
<1>4. CASE ThreadEvent
  <2>1. wake
    BY <1>4 DEF ThreadEvent
  <2>2. wake' = TRUE \/ wake' = wake
    BY <1>4 DEF ThreadEvent, ConnRequest
  <2> QED
    BY <2>1, <2>2
<1>5. CASE ThreadDelete \/ ThreadDeleted \/ ThreadXtra \/ ThreadConn
             \/ ThreadStop \/ ThreadAtl
  <2>1. pc \in Working /\ UNCHANGED <<flags, wake>>
    BY <1>5 DEF ThreadDelete, ThreadDeleted, ThreadXtra, ThreadConn,
                ThreadStop, ThreadAtl
  <2>2. wake' = TRUE
    BY <2>1 DEF Working, Reporting
  <2> QED
    BY <2>2
<1> QED
  BY <1>1, <1>2, <1>3, <1>4, <1>5, ReportAwake DEF Thread

(* Every step of the adapter, its thread and the modem.                    *)
LEMMA WakeStep == WakeInv /\ [Next]_vars => WakeInv'
<1> SUFFICES ASSUME WakeInv, [Next]_vars PROVE WakeInv'
  OBVIOUS
<1>1. CASE loc_eng_delete_aiding_data
  <2>1. Post("DELETE_AIDING") \/ UNCHANGED <<flags, pc, wake>>
    BY <1>1 DEF loc_eng_delete_aiding_data
  <2> QED
    BY <2>1, PostAwake DEF WakeInv, WakeWhilePending
<1>2. CASE loc_eng_data_conn
  BY <1>2, PostAwake DEF loc_eng_data_conn, Answer
<1>3. CASE Quit
  BY <1>3, PostAwake DEF Quit, PostQuit
<1>4. ASSUME NEW e \in Events, loc_event_cb(e) PROVE WakeInv'
  BY <1>4, PostAwake DEF loc_event_cb
<1>5. CASE UNCHANGED vars
  BY <1>5 DEF vars, slotVars, thrVars, WakeInv, WakeWhilePending
<1>6. CASE \/ loc_eng_init \/ loc_eng_start \/ loc_eng_stop
           \/ loc_eng_mute_one_session \/ xtra_init \/ agps_init
           \/ inject_xtra_data_proxy \/ loc_eng_cleanup
           \/ Stop \/ Close \/ Join
  BY <1>6, CallsAwake
<1>7. CASE Thread
  BY <1>7, ThreadAwake
<1> QED
  BY <1>1, <1>2, <1>3, <1>4, <1>5, <1>6, <1>7 DEF Next, Continue

(* loc_eng_deferred_action_thread and those who post to it keep the phone  *)
(* awake while events are pending, whatever order they run in.             *)
THEOREM StaysAwake == Spec => []WakeWhilePending
<1>1. WakeInv => WakeWhilePending
  BY DEF WakeInv
<1> QED
  BY WakeStart, WakeStep, <1>1, PTL DEF Spec

-----------------------------------------------------------------------------
(* Nothing was told and nothing is known.                                  *)
LEMMA ToldStart == Init => ToldInv
<1> SUFFICES ASSUME Init PROVE ToldInv
  OBVIOUS
<1>1. /\ engine = None /\ session = None /\ told = None /\ crossed = FALSE
      /\ pc = "off" /\ fw = "idle" /\ back = "idle" /\ loc = NoCopies
  BY DEF Init
<1>2. ToldTypes
  BY <1>1 DEF ToldTypes, LocShape, NoCopies
<1> QED
  BY <1>1, <1>2
     DEF ToldInv, BeginIsOn, Copies, Announcing, Knows, Known, Reporting, None

(* What a step outside the reports and announcements may do.               *)
Telling == {"ended", "reading", "telling"}
Quiet ==
    /\ UNCHANGED <<engine, session, told, crossed, saying>>
    /\ fw' = fw \/ fw' \notin Telling
    /\ back' \in {back, "idle", "close"}
    /\ \/ UNCHANGED <<pc, loc>>
       \/ /\ pc \notin Reporting \ {"engine", "post"}
          /\ pc' \notin Reporting \cup {"event"}
          /\ LocShape'

LEMMA QuietTold ==
    ASSUME ToldInv, Quiet
    PROVE  ToldInv'
<1> USE DEF ToldInv, Quiet
<1>1. ToldTypes'
  BY DEF ToldTypes, LocShape
<1>2. Announcing'
  BY DEF Announcing, Telling
<1>3. CASE UNCHANGED <<pc, loc>>
  BY <1>1, <1>2, <1>3 DEF BeginIsOn, Copies, Knows, Known
<1>4. CASE /\ pc \notin Reporting \ {"engine", "post"}
           /\ pc' \notin Reporting \cup {"event"}
  <2>1. Known
    BY <1>4 DEF Knows, Reporting
  <2>2. BeginIsOn'
    BY <1>4 DEF BeginIsOn, Reporting
  <2>3. Copies' /\ Knows'
    BY <1>4, <2>1 DEF Copies, Knows, Known, Reporting
  <2> QED
    BY <1>1, <1>2, <2>2, <2>3
<1> QED
  BY <1>3, <1>4

(* The framework's calls and the RPC callback are quiet: they post at most.*)
LEMMA CallsTold ==
    ASSUME ToldInv,
           \/ loc_eng_start \/ loc_eng_stop \/ loc_eng_mute_one_session
           \/ loc_eng_delete_aiding_data \/ xtra_init \/ agps_init
           \/ inject_xtra_data_proxy \/ loc_eng_data_conn \/ loc_eng_cleanup
           \/ Close \/ Quit \/ Join \/ \E e \in Events : loc_event_cb(e)
    PROVE  ToldInv'
<1> DEFINE MayWake == pc' = pc \/ (pc = "wait" /\ pc' = "woken")
<1>1. ASSUME UNCHANGED <<engine, session, told, crossed, saying, loc>>,
             fw' = fw \/ fw' \notin Telling,
             back' \in {back, "idle", "close"}, MayWake
      PROVE  ToldInv'
  BY <1>1, QuietTold DEF Quiet, ToldInv, ToldTypes, LocShape, Reporting
<1>2. CASE loc_eng_start \/ loc_eng_mute_one_session
  BY <1>1, <1>2 DEF loc_eng_start, loc_eng_mute_one_session, statVars,
                    thrVars, stopVars, ghostVars
<1>9. CASE xtra_init \/ agps_init
  BY <1>1, <1>9 DEF xtra_init, agps_init, statVars, thrVars,
                    stopVars, ghostVars, fwVars
<1>3. CASE loc_eng_stop \/ loc_eng_cleanup
  BY <1>1, <1>3 DEF loc_eng_stop, loc_eng_cleanup, StopCheck, Telling, statVars,
                    thrVars, ghostVars
<1>4. CASE loc_eng_delete_aiding_data \/ inject_xtra_data_proxy
  BY <1>1, <1>4 DEF loc_eng_delete_aiding_data, inject_xtra_data_proxy, Post,
                    Signalled, statVars, stopVars, ghostVars
<1>5. CASE loc_eng_data_conn
  BY <1>1, <1>5 DEF loc_eng_data_conn, Answer, Post, Signalled, statVars, stopVars,
                    ghostVars
<1>6. CASE Close \/ Quit
  BY <1>1, <1>6 DEF Close, Quit, PostQuit, Post, Signalled, Telling, statVars,
                    thrVars, ghostVars
<1>7. CASE Join
  <2>1. Quiet
    BY <1>7 DEF Join, Quiet, Telling, Reporting, ToldInv, ToldTypes, LocShape,
                statVars, ghostVars
  <2> QED
    BY <2>1, QuietTold
<1>8. CASE \E e \in Events : loc_event_cb(e)
  BY <1>1, <1>8 DEF loc_event_cb, Post, Signalled, statVars, fwVars, stopVars,
                    ghostVars
<1> QED
  BY <1>2, <1>3, <1>4, <1>5, <1>6, <1>7, <1>8, <1>9

(* loc_eng_init starts afresh, with the threads of nobody.                 *)
LEMMA InitTold ==
    ASSUME ToldInv, loc_eng_init
    PROVE  ToldInv'
<1>1. /\ engine' = None /\ session' = None /\ told' = None /\ crossed' = FALSE
      /\ pc' = "top" /\ fw' = "idle" /\ back' = back /\ loc' = NoCopies
  BY DEF loc_eng_init, FwMay, stopVars
<1>2. ToldTypes'
  BY <1>1 DEF ToldInv, ToldTypes, LocShape, NoCopies
<1> QED
  BY <1>1, <1>2
     DEF ToldInv, BeginIsOn, Copies, Announcing, Knows, Known, Reporting, None

(* The stop of the framework's thread: it ends the session, which counts   *)
(* as crossed where the report has yet to tell that one has begun, and     *)
(* announces a session as begun only while the engine is on or crossed.    *)
LEMMA StopTold ==
    ASSUME ToldInv, Stop
    PROVE  ToldInv'
<1> USE DEF ToldInv, thrVars
<1>1. CASE StopFix
  <2>1. /\ UNCHANGED <<engine, told, saying, pc, loc>>
        /\ \/ /\ session' = "SESSION_END" /\ fw' \in {"ended", "stopped"}
              /\ crossed' = (crossed \/ (pc \in Between /\ loc.engine # engine))
           \/ UNCHANGED <<session, crossed>> /\ fw' = back
    BY <1>1 DEF StopFix
  <2>2. CASE UNCHANGED <<session, crossed>> /\ fw' = back
    <3>1. back \in {"idle", "close"} /\ back' = back
      BY <1>1 DEF StopFix, ToldTypes
    <3>2. Quiet
      BY <2>1, <2>2, <3>1 DEF Quiet, Telling
    <3> QED
      BY <3>2, QuietTold
  <2>3. CASE /\ session' = "SESSION_END" /\ fw' \in {"ended", "stopped"}
             /\ crossed' = (crossed \/ (pc \in Between /\ loc.engine # engine))
    <3>1. back' = back
      BY <1>1 DEF StopFix
    <3>4. ToldTypes' /\ BeginIsOn' /\ Announcing'
      BY <2>1, <2>3, <3>1 DEF ToldTypes, LocShape, BeginIsOn, Announcing, None
    <3>2. Copies'
      BY <2>1, <2>3 DEF Copies, None
    <3>3. Knows'
      BY <2>1, <2>3 DEF Knows, Known, Between, ToldTypes
    <3> QED
      BY <3>2, <3>3, <3>4
  <2> QED
    BY <2>1, <2>2, <2>3
<1>2. CASE StopTest
  <2>1. /\ UNCHANGED <<engine, session, told, crossed, saying, back, pc, loc>>
        /\ fw = "ended" /\ fw' \in {"reading", "stopped"}
    BY <1>2 DEF StopTest, statVars, ghostVars
  <2>2. ToldTypes' /\ BeginIsOn' /\ Copies' /\ Knows'
    BY <2>1 DEF ToldTypes, LocShape, BeginIsOn, Copies, Knows, Known
  <2>3. Announcing'
    BY <2>1 DEF Announcing
  <2> QED
    BY <2>2, <2>3
<1>3. CASE StopArg
  <2>1. /\ UNCHANGED <<engine, session, told, back, pc, loc>>
        /\ fw = "reading" /\ fw' = "telling" /\ saying' = session
        /\ crossed' = (crossed \/ (session = "SESSION_BEGIN"
                                     /\ engine = "ENGINE_OFF"))
    BY <1>3 DEF StopArg, statVars
  <2>2. ToldTypes' /\ BeginIsOn' /\ Copies'
    BY <2>1 DEF ToldTypes, LocShape, BeginIsOn, Copies
  <2>3. Knows'
    BY <2>1 DEF Knows, Known, ToldTypes
  <2>4. Announcing'
    BY <2>1 DEF Announcing, BeginIsOn, ToldTypes
  <2> QED
    BY <2>2, <2>3, <2>4
<1>4. CASE StopTell
  <2>1. /\ UNCHANGED <<engine, session, crossed, back, pc, loc>>
        /\ fw = "telling" /\ fw' = "stopped" /\ told' = Tell(saying)
    BY <1>4 DEF StopTell, statVars, ghostVars
  <2>2. told' = told \/ told' = engine \/ crossed
    BY <2>1 DEF Announcing, Tell
  <2>3. ToldTypes' /\ BeginIsOn' /\ Copies' /\ Announcing'
    BY <2>1 DEF ToldTypes, LocShape, BeginIsOn, Copies, Announcing
  <2>4. Known => Known'
    BY <2>1, <2>2 DEF Known
  <2>5. Knows'
    BY <2>1, <2>4 DEF Knows
  <2> QED
    BY <2>3, <2>5
<1>5. CASE StopDone
  <2>1. Quiet
    BY <1>5 DEF StopDone, Quiet, Telling, ToldTypes, statVars, ghostVars
  <2> QED
    BY <2>1, QuietTold
<1> QED
  BY <1>1, <1>2, <1>3, <1>4, <1>5 DEF Stop

(* loc_eng_report_status: the engine's state changes and the framework is  *)
(* not told yet; where it is not told then, a session begins, its copy     *)
(* says that none had, and its beginning is announced.                     *)
LEMMA ReportTold ==
    ASSUME ToldInv,
           \/ ReportEngine \/ ReportSession \/ ReportChanged \/ ReportTest
           \/ ReportArg \/ Inform \/ ReportPost
    PROVE  ToldInv'
<1> USE DEF ToldInv
<1>1. CASE ReportEngine
  <2>1. /\ UNCHANGED <<session, told, loc, fw, back, saying>>
        /\ pc = "engine" /\ pc' = "session" /\ engine' = EngineAfter(loc.event)
        /\ crossed' = IF engine' = engine THEN crossed
                      ELSE fw = "telling" /\ saying = "SESSION_BEGIN"
    BY <1>1 DEF ReportEngine, stopVars
  <2>2. loc.event \in StatusEvents /\ loc.engine = engine
    BY <2>1 DEF Copies
  <2>3. \/ loc.event = "ENGINE_OFF" /\ engine' = "ENGINE_OFF"
        \/ loc.event \in {"ENGINE_ON", "SESSION_BEGIN"} /\ engine' = "ENGINE_ON"
        \/ loc.event = "SESSION_ENDS" /\ engine' = engine
    BY <2>1, <2>2 DEF EngineAfter, StatusEvents
  <2>4. session = "SESSION_BEGIN" => engine = "ENGINE_ON"
    BY <2>1 DEF BeginIsOn
  <2>5. ToldTypes' /\ BeginIsOn'
    BY <2>1, <2>3, <2>4 DEF ToldTypes, LocShape, BeginIsOn
  <2>6. Copies'
    BY <2>1, <2>2, <2>3 DEF Copies, Reporting
  <2>7. Announcing'
    BY <2>1, <2>3 DEF Announcing
  <2>8. Knows'
    BY <2>1, <2>2 DEF Knows, Known
  <2> QED
    BY <2>5, <2>6, <2>7, <2>8
<1>2. CASE ReportSession
  <2>1. /\ UNCHANGED <<engine, told, crossed, loc, fw, back, saying>>
        /\ pc = "session" /\ pc' = "changed" /\ session' = SessionAfter(loc.event)
    BY <1>2 DEF ReportSession, fwVars, stopVars, ghostVars
  <2>2. \/ loc.event = "ENGINE_OFF" /\ session' = "SESSION_END"
        \/ session' = "SESSION_BEGIN" /\ engine = "ENGINE_ON"
        \/ loc.event # "ENGINE_OFF" /\ session' = session
    BY <2>1 DEF SessionAfter, Copies
  <2>3. ToldTypes' /\ BeginIsOn' /\ Announcing'
    BY <2>1, <2>2 DEF ToldTypes, LocShape, BeginIsOn, Announcing, None
  <2>4. Copies' /\ Knows'
    BY <2>1, <2>2 DEF Copies, Knows, Known, Reporting, None
  <2> QED
    BY <2>3, <2>4
<1>3. CASE ReportChanged
  <2>1. /\ UNCHANGED <<engine, session, told, crossed, fw, back, saying>>
        /\ pc = "changed"
        /\ \/ EngineChanged /\ pc' = "tell" /\ loc' = [loc EXCEPT !.say = engine]
           \/ ~EngineChanged /\ pc' = "test" /\ loc' = loc
    BY <1>3 DEF ReportChanged, fwVars, stopVars, ghostVars, statVars
  <2>2. /\ LocShape' /\ loc'.session = loc.session /\ loc'.engine = loc.engine
        /\ pc' = "tell" => loc'.say = engine
    BY <2>1 DEF ToldTypes, LocShape
  <2>3. ToldTypes' /\ BeginIsOn' /\ Announcing' /\ Copies'
    BY <2>1, <2>2 DEF ToldTypes, BeginIsOn, Announcing, Copies, Reporting
  <2>4. Knows'
    BY <2>1, <2>2 DEF Knows, Known, EngineChanged, BeginIsOn, Copies, Reporting
  <2> QED
    BY <2>3, <2>4
<1>4. CASE ReportTest
  <2>1. /\ UNCHANGED <<engine, session, told, crossed, loc, fw, back, saying>>
        /\ pc = "test"
        /\ pc' = IF engine # "ENGINE_OFF" /\ loc.session # session
                   THEN "arg" ELSE "post"
    BY <1>4 DEF ReportTest, fwVars, stopVars, ghostVars, statVars
  <2>2. ToldTypes' /\ BeginIsOn' /\ Announcing'
    BY <2>1 DEF ToldTypes, LocShape, BeginIsOn, Announcing
  <2>4. Copies'
    BY <2>1 DEF Copies, Reporting
  <2>3. Knows'
    BY <2>1 DEF Knows, Known
  <2> QED
    BY <2>2, <2>3, <2>4
<1>5. CASE ReportArg
  <2>1. /\ UNCHANGED <<engine, session, told, crossed, fw, back, saying>>
        /\ pc = "arg" /\ pc' = "tell" /\ loc' = [loc EXCEPT !.say = session]
    BY <1>5 DEF ReportArg, fwVars, stopVars, ghostVars, statVars
  <2>2. /\ LocShape' /\ loc'.session = loc.session /\ loc'.engine = loc.engine
        /\ loc'.say = session
    BY <2>1 DEF ToldTypes, LocShape
  <2>3. ToldTypes' /\ BeginIsOn' /\ Announcing' /\ Copies'
    BY <2>1, <2>2 DEF ToldTypes, BeginIsOn, Announcing, Copies, Reporting
  <2>4. \/ session = "SESSION_BEGIN" /\ engine = "ENGINE_ON"
        \/ session = "SESSION_END" /\ Known
    BY <2>1 DEF Knows, BeginIsOn, ToldTypes, Copies, Reporting
  <2>5. Knows'
    BY <2>1, <2>2, <2>4 DEF Knows, Known
  <2> QED
    BY <2>3, <2>5
<1>6. CASE Inform
  <2>1. /\ UNCHANGED <<engine, session, crossed, loc, fw, back, saying>>
        /\ pc = "tell" /\ pc' \in {"test", "post"} /\ told' = Tell(loc.say)
    BY <1>6 DEF Inform, stopVars, ghostVars, statVars
  <2>2. ToldTypes' /\ BeginIsOn' /\ Announcing' /\ Copies'
    BY <2>1 DEF ToldTypes, LocShape, BeginIsOn, Announcing, Copies, Reporting
  <2>3. Known'
    BY <2>1 DEF Knows, Known, Tell, ToldTypes, None
  <2>4. Knows'
    BY <2>1, <2>3 DEF Knows
  <2> QED
    BY <2>2, <2>4
<1>7. CASE ReportPost
  <2>1. LocShape'
    BY <1>7 DEF ReportPost, ToldTypes, LocShape
  <2>2. Quiet
    BY <1>7, <2>1 DEF ReportPost, Quiet, Reporting, fwVars, stopVars, ghostVars
  <2> QED
    BY <2>2, QuietTold
<1> QED
  BY <1>1, <1>2, <1>3, <1>4, <1>5, <1>6, <1>7

(* The other steps of the deferred thread: it takes its copies and works   *)
(* on them.                                                                *)
LEMMA ThreadTold ==
    ASSUME ToldInv, Thread
    PROVE  ToldInv'
<1> USE DEF ToldInv
<1>1. CASE ThreadCopy
  <2>1. /\ UNCHANGED <<engine, session, told, crossed, fw, back, saying>>
        /\ pc \in {"top", "woken"} /\ pc' = "event"
        /\ LocShape' /\ loc'.engine = engine
    BY <1>1 DEF ThreadCopy, LocShape, fwVars, stopVars, ghostVars, statVars
  <2>2. ToldTypes' /\ BeginIsOn' /\ Announcing' /\ Copies' /\ Knows'
    BY <2>1 DEF ToldTypes, BeginIsOn, Announcing, Copies, Knows, Known, Reporting
  <2> QED
    BY <2>2
<1>2. CASE ThreadEvent
  <2>1. /\ UNCHANGED <<engine, session, told, crossed, fw, back, saying>>
        /\ pc = "event"
        /\ \/ /\ loc.event \in StatusEvents /\ pc' = "engine"
              /\ loc' = [loc EXCEPT !.session = session]
           \/ pc' = "delete" /\ loc' = loc
    BY <1>2 DEF ThreadEvent, fwVars, stopVars, ghostVars, statVars
  <2>2. CASE pc' = "delete" /\ loc' = loc
    <3>1. Quiet
      BY <2>1, <2>2 DEF Quiet, Reporting, ToldTypes, LocShape
    <3> QED
      BY <3>1, QuietTold
  <2>3. CASE /\ loc.event \in StatusEvents /\ pc' = "engine"
             /\ loc' = [loc EXCEPT !.session = session]
    <3>1. /\ LocShape' /\ loc'.session = session /\ loc'.engine = engine
          /\ loc'.event \in StatusEvents
      BY <2>1, <2>3 DEF ToldTypes, LocShape, Copies
    <3>2. ToldTypes' /\ BeginIsOn' /\ Announcing'
      BY <2>1, <2>3, <3>1 DEF ToldTypes, BeginIsOn, Announcing
    <3>3. Copies' /\ Knows'
      BY <2>1, <2>3, <3>1 DEF Copies, Knows, Known, BeginIsOn, Reporting
    <3> QED
      BY <3>2, <3>3
  <2> QED
    BY <2>1, <2>2, <2>3
<1>3. CASE ThreadAtl
  <2>1. LocShape'
    BY <1>3 DEF ThreadAtl, LocShape, NoCopies
  <2>2. Quiet
    BY <1>3, <2>1 DEF ThreadAtl, Quiet, Reporting, stopVars, statVars
  <2> QED
    BY <2>2, QuietTold
<1>4. CASE \/ ThreadWait \/ ThreadQuit \/ ThreadDelete
           \/ ThreadDeleted \/ ThreadXtra \/ ThreadConn \/ ThreadStop
  <2>1. /\ UNCHANGED <<engine, session, told, crossed, fw, back, saying, loc>>
        /\ pc \notin Reporting /\ pc' \notin Reporting \cup {"event"}
    BY <1>4 DEF ThreadWait, ThreadQuit, ThreadDelete, ThreadDeleted, ThreadXtra,
                ThreadConn, ThreadStop, Reporting, statVars, fwVars, stopVars,
                ghostVars
  <2>2. Quiet
    BY <2>1 DEF Quiet, ToldTypes, LocShape
  <2> QED
    BY <2>2, QuietTold
<1> QED
  BY <1>1, <1>2, <1>3, <1>4, ReportTold DEF Thread

(* Every step of the adapter, its thread and the modem.                    *)
LEMMA ToldStep == ToldInv /\ [Next]_vars => ToldInv'
<1> SUFFICES ASSUME ToldInv, [Next]_vars PROVE ToldInv'
  OBVIOUS
<1>1. CASE UNCHANGED vars
  <2>1. Quiet
    BY <1>1 DEF Quiet, vars, statVars, fwVars, stopVars, ghostVars, thrVars
  <2> QED
    BY <2>1, QuietTold
<1>2. CASE Thread
  BY <1>2, ThreadTold
<1>3. CASE Stop
  BY <1>3, StopTold
<1>4. CASE loc_eng_init
  BY <1>4, InitTold
<1>5. CASE \/ loc_eng_start \/ loc_eng_stop \/ loc_eng_mute_one_session
           \/ loc_eng_delete_aiding_data \/ xtra_init \/ agps_init
           \/ inject_xtra_data_proxy \/ loc_eng_data_conn \/ loc_eng_cleanup
           \/ Close \/ Quit \/ Join \/ \E e \in Events : loc_event_cb(e)
  BY <1>5, CallsTold
<1> QED
  BY <1>1, <1>2, <1>3, <1>4, <1>5 DEF Next, Continue

(* loc_eng_report_status merges engine and session reports into one, while *)
(* a stop on another thread ends and announces sessions between any two of *)
(* its steps; but for the two races in crossed the framework knows the     *)
(* engine state the adapter has, whenever the deferred thread waits.       *)
THEOREM EngineKnown == Spec => []EngineTold
<1>1. ToldInv => EngineTold
  BY DEF ToldInv, Knows, Known, EngineTold
<1> QED
  BY ToldStart, ToldStep, <1>1, PTL DEF Spec

-----------------------------------------------------------------------------
(* LocHal.  Without a buffered server every naming has gone to the modem;  *)
(* a buffered one has been sent since the AGPS interface is initialised.   *)
HalTypes ==
    /\ hosts \in Nat /\ agpsInited \in BOOLEAN /\ halInited \in BOOLEAN
    /\ hostBuf \in [AGpsType -> Nat] /\ lastHost \in [AGpsType -> Nat]
    /\ modemHost \in [AGpsType -> Nat]
    /\ refused \in [AGpsType -> BOOLEAN] /\ overtaken \in [AGpsType -> BOOLEAN]
Sent ==
    \A t \in AGpsType :
        /\ hostBuf[t] = NoHost => modemHost[t] = lastHost[t] \/ refused[t]
        /\ agpsInited => modemHost[t] = lastHost[t] \/ refused[t] \/ overtaken[t]
        /\ hostBuf[t] # NoHost /\ agpsInited => modemHost[t] # NoHost \/ refused[t]
HalInv ==
    /\ HalTypes /\ Sent
    /\ agpsInited => halInited
    /\ operMode # "STANDALONE" => \E t \in AGpsType : hostBuf[t] # NoHost

(* Naming a server while the adapter runs.                                 *)
LEMMA PassOn ==
    ASSUME HalInv, NEW t \in AGpsType, loc_eng_set_server_proxy(t), halInited
    PROVE  HalInv'
<1>1. /\ hosts' \in Nat \ {0} /\ lastHost' = [lastHost EXCEPT ![t] = hosts']
      /\ overtaken' = [overtaken EXCEPT ![t] = FALSE]
      /\ UNCHANGED <<halInited, agpsInited, operMode, hostBuf>>
  BY DEF HalInv, HalTypes, loc_eng_set_server_proxy
<1>2. PICK ok \in SUBSET {t} :
        /\ modemHost' = [u \in AGpsType |-> IF u \in ok THEN lastHost'[u] ELSE modemHost[u]]
        /\ refused' = [u \in AGpsType |-> IF u \in {t} THEN u \notin ok ELSE refused[u]]
  BY DEF loc_eng_set_server_proxy, set_server
<1>3. HalTypes'
  BY <1>1, <1>2 DEF HalInv, HalTypes
<1>4. /\ lastHost'[t] = hosts'
      /\ modemHost'[t] = hosts' \/ refused'[t]
      /\ \A u \in AGpsType \ {t} : /\ lastHost'[u] = lastHost[u]
                                   /\ modemHost'[u] = modemHost[u]
                                   /\ refused'[u] = refused[u]
                                   /\ overtaken'[u] = overtaken[u]
  BY <1>1, <1>2 DEF HalInv, HalTypes
<1>5. Sent'
  BY <1>1, <1>4 DEF HalInv, Sent, NoHost
<1> QED
  BY <1>1, <1>3, <1>5 DEF HalInv

(* loc_eng_agps_init.                                                      *)
LEMMA SendBuffer ==
    ASSUME HalInv, loc_eng_agps_init
    PROVE  HalInv'
<1>1. /\ UNCHANGED <<halInited, hostBuf, operMode, lastHost, hosts>>
      /\ halInited /\ agpsInited' = TRUE
      /\ overtaken' = [t \in AGpsType |-> hostBuf[t] \notin {NoHost, lastHost[t]}]
  BY DEF loc_eng_agps_init
<1>2. PICK ok \in SUBSET Buffered :
        /\ modemHost' = [t \in AGpsType |-> IF t \in ok THEN hostBuf[t] ELSE modemHost[t]]
        /\ refused' = [t \in AGpsType |-> IF t \in Buffered THEN t \notin ok ELSE refused[t]]
  BY DEF loc_eng_agps_init, set_server
<1>3. HalTypes'
  BY <1>1, <1>2 DEF HalInv, HalTypes
<1>4. ASSUME NEW t \in AGpsType, hostBuf[t] # NoHost
      PROVE  /\ modemHost'[t] = hostBuf[t] \/ refused'[t]
             /\ hostBuf[t] = lastHost[t] \/ overtaken'[t]
  BY <1>1, <1>2, <1>4 DEF Buffered
<1>5. ASSUME NEW t \in AGpsType, hostBuf[t] = NoHost
      PROVE  modemHost'[t] = modemHost[t] /\ refused'[t] = refused[t]
  BY <1>2, <1>5 DEF Buffered
<1>6. ASSUME NEW t \in AGpsType, hostBuf[t] = NoHost
      PROVE  modemHost[t] = lastHost[t] \/ refused[t]
  BY <1>6 DEF HalInv, Sent
<1>7. \A t \in AGpsType : hostBuf[t] \in Nat
  BY DEF HalInv, HalTypes
<1>8. Sent'
  BY <1>1, <1>4, <1>5, <1>6, <1>7 DEF Sent, NoHost
<1> QED
  BY <1>1, <1>3, <1>8 DEF HalInv

(* The other steps: a server that is only buffered, and the mode.          *)
LEMMA HalStep == HalInv /\ [HalNext]_halVars => HalInv'
<1> SUFFICES ASSUME HalInv, [HalNext]_halVars PROVE HalInv'
    OBVIOUS
<1>1. ASSUME NEW t \in AGpsType, loc_eng_set_server_proxy(t), ~halInited
      PROVE  HalInv'
  <2>1. /\ hosts' \in Nat \ {0} /\ lastHost' = [lastHost EXCEPT ![t] = hosts']
        /\ hostBuf' = [hostBuf EXCEPT ![t] = hosts']
        /\ overtaken' = [overtaken EXCEPT ![t] = FALSE]
        /\ UNCHANGED <<halInited, agpsInited, operMode, modemHost, refused>>
    BY <1>1 DEF HalInv, HalTypes, loc_eng_set_server_proxy
  <2>2. HalTypes' /\ agpsInited = FALSE
    BY <1>1, <2>1 DEF HalInv, HalTypes
  <2>3. Sent'
    BY <2>1, <2>2 DEF HalInv, HalTypes, Sent, NoHost
  <2>4. \E u \in AGpsType : hostBuf'[u] # NoHost
    BY <2>1 DEF HalInv, HalTypes, NoHost
  <2> QED
    BY <2>1, <2>2, <2>3, <2>4 DEF HalInv
<1>2. CASE HalStart \/ HalCleanup
  <2>1. /\ UNCHANGED <<hostBuf, modemHost, operMode, lastHost, hosts, refused, overtaken>>
        /\ \/ halInited' = TRUE /\ agpsInited' = agpsInited
           \/ halInited' = FALSE /\ agpsInited' = FALSE
    BY <1>2 DEF HalStart, HalCleanup
  <2>2. HalTypes'
    BY <2>1 DEF HalInv, HalTypes
  <2>3. Sent'
    BY <2>1 DEF HalInv, Sent
  <2>4. agpsInited' => halInited'
    BY <2>1 DEF HalInv
  <2> QED
    BY <2>1, <2>2, <2>3, <2>4 DEF HalInv
<1>3. CASE loc_eng_set_position_mode
  <2>1. /\ UNCHANGED <<halInited, agpsInited, hostBuf, modemHost, lastHost, hosts,
                        refused, overtaken>>
        /\ operMode' = operMode \/ \E mode \in Modes : operMode' = OperationMode(mode)
    BY <1>3 DEF loc_eng_set_position_mode
  <2> QED
    BY <2>1 DEF HalInv, HalTypes, Sent, OperationMode
<1>4. CASE UNCHANGED halVars
  BY <1>4 DEF halVars, HalInv, HalTypes, Sent
<1> QED
  BY <1>1, <1>2, <1>3, <1>4, PassOn, SendBuffer DEF HalNext

(* loc_eng_set_server_proxy, loc_eng_agps_init and                         *)
(* loc_eng_set_position_mode, in any order and over any number of inits:   *)
(* the modem uses the servers named last, but for the two exceptions, and  *)
(* an assisted mode only with one.                                         *)
THEOREM ServerKept == HalSpec => []ServerCurrent
<1>1. HalInit => HalInv
  <2> SUFFICES ASSUME HalInit PROVE HalInv
      OBVIOUS
  <2>1. HalTypes
    BY DEF HalInit, HalTypes, NoHost
  <2>2. Sent
    BY DEF HalInit, Sent
  <2> QED
    BY <2>1, <2>2 DEF HalInit, HalInv
<1>2. HalInv => ServerCurrent
  BY DEF HalInv, Sent, ServerCurrent
<1> QED
  BY <1>1, <1>2, HalStep, PTL DEF HalSpec


-----------------------------------------------------------------------------
(* LocXtra.                                                                *)

(* The parts before the last, as long as neither integer has wrapped: the  *)
(* whole blocks up to the offset.                                          *)
Blocks ==
    /\ len_injected = (part - 1) * XTRA_BLOCK_SIZE
    /\ \A i \in 1 .. Len(parts) : /\ parts[i].first = (i - 1) * XTRA_BLOCK_SIZE
                                  /\ parts[i].len = XTRA_BLOCK_SIZE

(* While it runs the part number counts the parts, unless there are too    *)
(* many for it; both integers stay in their ranges.                        *)
Part == [first : Nat, len : Nat \ {0}]
XtraInv ==
    /\ length \in XtraLengths /\ part \in Nat /\ part < UINT8
    /\ len_injected \in Nat /\ len_injected < UINT16 /\ parts \in Seq(Part)
    /\ result \in {"running", "ok", "EIO"}
    /\ result = "running" =>
         /\ total_parts < UINT8 => part <= total_parts /\ Len(parts) + 1 = part
         /\ length <= UINT16 => Blocks
    /\ XtraWhole

(* Multiplication keeps the order; the quotient is the largest factor.     *)
LEMMA Multiples == ASSUME NEW a \in Nat, NEW c \in Nat, NEW b \in Nat, a <= c PROVE a * b <= c * b
OBVIOUS

(* The quotient and the remainder of a file's length by a part's.          *)
LEMMA Quotient ==
    ASSUME NEW x \in Nat, NEW b \in Nat \ {0}
    PROVE  x \div b \in Nat /\ (x \div b) * b <= x /\ x < (x \div b) * b + b
OBVIOUS

(* A number that fits the width keeps its value; any other is brought in.  *)
LEMMA SmallMod == ASSUME NEW x \in Nat, NEW m \in Nat, x < m PROVE x % m = x
OBVIOUS
LEMMA ModRange == ASSUME NEW x \in Nat, NEW m \in Nat \ {0} PROVE x % m \in Nat /\ x % m < m
OBVIOUS

(* Where the parts of a file lie: each but the last ends inside it, the    *)
(* last one at its end, which is past the reach of the offset if the file  *)
(* is longer than that.                                                    *)
LEMMA PartsOfFile ==
    ASSUME length \in XtraLengths, NEW k \in Nat \ {0}
    PROVE  /\ length \in Nat \ {0} /\ total_parts \in Nat \ {0}
           /\ (k - 1) * XTRA_BLOCK_SIZE \in Nat /\ k * XTRA_BLOCK_SIZE \in Nat
           /\ (k - 1) * XTRA_BLOCK_SIZE + XTRA_BLOCK_SIZE = k * XTRA_BLOCK_SIZE
           /\ k < total_parts => k * XTRA_BLOCK_SIZE < length
           /\ k = total_parts =>
                /\ (k - 1) * XTRA_BLOCK_SIZE < length
                /\ length <= (k - 1) * XTRA_BLOCK_SIZE + XTRA_BLOCK_SIZE
                /\ length > UINT16 => UINT16 <= (k - 1) * XTRA_BLOCK_SIZE
           /\ length <= UINT16 => total_parts < UINT8
<1> DEFINE b == XTRA_BLOCK_SIZE
           q == (length - 1) \div b
           n == UINT16 \div b
<1>1. /\ length \in Nat \ {0} /\ length - 1 \in Nat /\ b \in Nat \ {0}
      /\ UINT16 \in Nat /\ UINT16 = n * b /\ total_parts = q + 1
      /\ UINT8 \in Nat /\ n < UINT8
  BY LocXtraAssumption DEF total_parts
<1>2. q \in Nat /\ q * b <= length - 1 /\ length - 1 < q * b + b
  BY <1>1, Quotient
<1>3. n \in Nat
  BY <1>1, Quotient
<1> HIDE DEF q, b, n
<1>4. (k - 1) * b \in Nat /\ k * b \in Nat /\ (k - 1) * b + b = k * b
  BY <1>1
<1>5. k < q + 1 => k * b <= q * b
  BY <1>1, <1>2, Multiples
<1>6. k = q + 1 => (k - 1) * b = q * b
  BY <1>1, <1>2
<1>7. q * b \in Nat /\ n * b \in Nat /\ (q + 1) * b = q * b + b
  BY <1>1, <1>2, <1>3
<1>8. n > q => (q + 1) * b <= n * b
  BY <1>1, <1>2, <1>3, Multiples
<1>9. n <= q => n * b <= q * b
  BY <1>1, <1>2, <1>3, Multiples
<1>10. length > UINT16 => UINT16 <= q * b
  BY <1>1, <1>2, <1>3, <1>7, <1>8, <1>9
<1>11. length <= UINT16 => q + 1 < UINT8
  BY <1>1, <1>2, <1>3, <1>7, <1>9
<1> QED
  BY <1>1, <1>2, <1>4, <1>5, <1>6, <1>7, <1>10, <1>11 DEF b

(* One more part.                                                          *)
LEMMA PartAdded ==
    ASSUME NEW s \in Seq(Part), NEW p \in Part
    PROVE  /\ Append(s, p) \in Seq(Part)
           /\ Len(Append(s, p)) = Len(s) + 1 /\ Len(s) \in Nat
           /\ \A i \in 1 .. Len(s) : Append(s, p)[i] = s[i]
           /\ Append(s, p)[Len(s) + 1] = p
           /\ DOMAIN Append(s, p) = 1 .. (Len(s) + 1)
<1> HIDE DEF Part
<1> QED
  OBVIOUS

(* The next part: nothing is empty, whether or not the offset has wrapped. *)
LEMMA NextPart ==
    ASSUME XtraInv, result = "running", part <= total_parts \/ ~(total_parts < UINT8)
    PROVE  /\ [first |-> len_injected, len |-> PartLen] \in Part
           /\ length \in Nat \ {0} /\ total_parts \in Nat \ {0}
           /\ len_injected + XTRA_BLOCK_SIZE <= length => PartLen = XTRA_BLOCK_SIZE
           /\ length <= len_injected + XTRA_BLOCK_SIZE => PartLen = length - len_injected
<1>1. /\ length \in Nat \ {0} /\ total_parts \in Nat \ {0}
      /\ length <= UINT16 => total_parts < UINT8
  <2>1. 1 \in Nat \ {0} /\ length \in XtraLengths
    BY DEF XtraInv
  <2> QED
    BY <2>1, PartsOfFile
<1>2. /\ XTRA_BLOCK_SIZE \in Nat \ {0} /\ UINT16 \in Nat /\ UINT8 \in Nat
      /\ len_injected \in Nat /\ len_injected < UINT16
  BY LocXtraAssumption DEF XtraInv
<1>3. len_injected < length
  <2>1. CASE length > UINT16
    BY <1>1, <1>2, <2>1
  <2>2. CASE length <= UINT16
    <3>1. /\ total_parts < UINT8 /\ part <= total_parts /\ Len(parts) + 1 = part
          /\ len_injected = (part - 1) * XTRA_BLOCK_SIZE
      BY <1>1, <1>2, <2>2 DEF XtraInv, Blocks
    <3>2. part \in Nat \ {0} /\ length \in XtraLengths
      BY <3>1 DEF XtraInv
    <3>3. part * XTRA_BLOCK_SIZE < length \/ (part - 1) * XTRA_BLOCK_SIZE < length
      BY <1>1, <3>1, <3>2, PartsOfFile
    <3>4. /\ (part - 1) * XTRA_BLOCK_SIZE + XTRA_BLOCK_SIZE = part * XTRA_BLOCK_SIZE
          /\ (part - 1) * XTRA_BLOCK_SIZE \in Nat
      BY <3>2, PartsOfFile
    <3> QED
      BY <1>1, <1>2, <3>1, <3>3, <3>4
  <2> QED
    BY <1>1, <1>2, <2>1, <2>2
<1> QED
  BY <1>1, <1>2, <1>3 DEF PartLen, Part

(* A part before the last: the block it stands for as long as the offset   *)
(* has not wrapped.                                                        *)
LEMMA PartStep ==
    ASSUME XtraInv, InjectPart
    PROVE  XtraInv'
<1> DEFINE b == XTRA_BLOCK_SIZE
           p == [first |-> len_injected, len |-> PartLen]
<1>1. /\ result = "running" /\ result' = "running" /\ part < total_parts
      /\ parts' = Append(parts, p) /\ length' = length
      /\ part' = (part + 1) % UINT8 /\ len_injected' = (len_injected + PartLen) % UINT16
  BY DEF InjectPart
<1>2. /\ length \in XtraLengths /\ part \in Nat /\ part < UINT8
      /\ UINT8 \in Nat \ {0} /\ UINT16 \in Nat \ {0} /\ b \in Nat \ {0}
      /\ parts \in Seq(Part) /\ len_injected \in Nat
  BY LocXtraAssumption DEF XtraInv
<1>3. /\ p \in Part /\ PartLen \in Nat /\ length \in Nat \ {0} /\ total_parts \in Nat \ {0}
      /\ len_injected + b <= length => PartLen = b
  <2>1. /\ p \in Part /\ length \in Nat \ {0}
        /\ len_injected + b <= length => PartLen = b
    BY <1>1, <1>2, NextPart DEF XtraInv
  <2>2. PartLen \in Nat
    BY <2>1 DEF Part
  <2>3. total_parts \in Nat \ {0}
    BY <1>1, <1>2, NextPart DEF XtraInv
  <2> QED
    BY <2>1, <2>2, <2>3
<1>4. part' \in Nat /\ part' < UINT8 /\ len_injected' \in Nat /\ len_injected' < UINT16
  BY <1>1, <1>2, <1>3, ModRange
<1>5. total_parts' = total_parts
  BY <1>1 DEF total_parts
<1> HIDE DEF p, b
<1>6. /\ parts' \in Seq(Part) /\ Len(parts') = Len(parts) + 1 /\ Len(parts) \in Nat
      /\ \A i \in 1 .. Len(parts) : parts'[i] = parts[i]
      /\ parts'[Len(parts) + 1] = p
  BY <1>1, <1>2, <1>3, PartAdded
<1>7. ASSUME total_parts < UINT8
      PROVE  /\ part' = part + 1 /\ part' <= total_parts /\ Len(parts') + 1 = part'
             /\ part \in Nat \ {0} /\ Len(parts) + 1 = part
  <2>1. Len(parts) + 1 = part
    BY <1>1, <1>7 DEF XtraInv
  <2>2. part + 1 \in Nat /\ part + 1 < UINT8
    BY <1>1, <1>2, <1>3, <1>7
  <2>3. part' = part + 1
    BY <1>1, <1>2, <2>2, SmallMod
  <2> QED
    BY <1>1, <1>2, <1>3, <1>6, <2>1, <2>3
<1>8. ASSUME length <= UINT16
      PROVE  Blocks'
  <2>1. total_parts < UINT8
    <3>1. 1 \in Nat \ {0}
      OBVIOUS
    <3> QED
      BY <1>2, <1>8, <3>1, PartsOfFile
  <2>2. /\ len_injected = (part - 1) * b
        /\ \A i \in 1 .. Len(parts) : parts[i].first = (i - 1) * b /\ parts[i].len = b
    BY <1>1, <1>8 DEF XtraInv, Blocks, b
  <2>3. /\ (part - 1) * b + b = part * b /\ part * b \in Nat /\ part * b < length
    BY <1>1, <1>2, <1>7, <2>1, PartsOfFile DEF b
  <2>4. PartLen = b
    BY <1>2, <1>3, <2>2, <2>3
  <2>5. len_injected' = (part * b) % UINT16
    BY <1>1, <2>2, <2>3, <2>4
  <2>6. part * b < UINT16
    BY <1>2, <1>3, <1>8, <2>3
  <2>7. len_injected' = part * b
    BY <1>2, <2>3, <2>5, <2>6, SmallMod
  <2>8. len_injected' = (part' - 1) * b
    BY <1>2, <1>7, <2>1, <2>7
  <2>9. \A i \in 1 .. Len(parts') : parts'[i].first = (i - 1) * b /\ parts'[i].len = b
    <3> SUFFICES ASSUME NEW i \in 1 .. Len(parts')
                 PROVE  parts'[i].first = (i - 1) * b /\ parts'[i].len = b
        OBVIOUS
    <3>1. CASE i = part
      BY <1>6, <1>7, <2>1, <2>2, <2>4, <3>1 DEF p
    <3>2. CASE i \in 1 .. Len(parts)
      BY <1>6, <2>2, <3>2
    <3> QED
      BY <1>6, <1>7, <2>1, <3>1, <3>2
  <2> QED
    BY <2>8, <2>9 DEF Blocks, b
<1>9. XtraWhole'
  BY <1>1 DEF XtraWhole
<1> QED
  BY <1>1, <1>2, <1>4, <1>5, <1>6, <1>7, <1>8, <1>9 DEF XtraInv

(* The last part: it ends at the end of the file.  If the file is longer   *)
(* than the offset reaches, it does not lie where it should.               *)
LEMMA LastStep ==
    ASSUME XtraInv, InjectLast
    PROVE  XtraInv'
<1> DEFINE b == XTRA_BLOCK_SIZE
           p == [first |-> len_injected, len |-> PartLen]
<1>1. /\ result = "running" /\ result' = "ok" /\ part = total_parts
      /\ parts' = Append(parts, p) /\ UNCHANGED <<length, part, len_injected>>
  BY DEF InjectLast
<1>2. /\ length \in XtraLengths /\ part \in Nat /\ part < UINT8
      /\ UINT8 \in Nat \ {0} /\ UINT16 \in Nat \ {0} /\ b \in Nat \ {0}
      /\ parts \in Seq(Part) /\ len_injected \in Nat /\ len_injected < UINT16
  BY LocXtraAssumption DEF XtraInv
<1>3. /\ p \in Part /\ length \in Nat \ {0}
      /\ length <= len_injected + b => PartLen = length - len_injected
  BY <1>1, <1>2, NextPart DEF XtraInv
<1>4. Len(parts) + 1 = part /\ total_parts < UINT8 /\ part \in Nat \ {0}
  BY <1>1, <1>2 DEF XtraInv
<1>5. /\ (part - 1) * b \in Nat /\ (part - 1) * b + b = part * b
      /\ (part - 1) * b < length /\ length <= (part - 1) * b + b
      /\ length > UINT16 => UINT16 <= (part - 1) * b
  BY <1>1, <1>2, <1>4, PartsOfFile
<1> HIDE DEF p, b
<1>6. /\ parts' \in Seq(Part) /\ Len(parts') = part /\ DOMAIN parts' = 1 .. part
      /\ \A i \in 1 .. Len(parts) : parts'[i] = parts[i]
      /\ parts'[part] = p
  BY <1>1, <1>2, <1>3, <1>4, PartAdded
<1>7. ASSUME length <= UINT16 PROVE Whole'
  <2>1. /\ len_injected = (part - 1) * b
        /\ \A i \in 1 .. Len(parts) : parts[i].first = (i - 1) * b /\ parts[i].len = b
    BY <1>1, <1>7 DEF XtraInv, Blocks, b
  <2>2. p.first = (part - 1) * b /\ p.len > 0 /\ p.first + p.len = length
    BY <1>2, <1>3, <1>5, <2>1 DEF p
  <2>3. \A i \in DOMAIN parts' : parts'[i].len > 0 /\ parts'[i].first = (i - 1) * b
    <3> SUFFICES ASSUME NEW i \in 1 .. part
                 PROVE  parts'[i].len > 0 /\ parts'[i].first = (i - 1) * b
        BY <1>6
    <3>1. CASE i = part
      BY <1>6, <2>2, <3>1
    <3>2. CASE i \in 1 .. Len(parts)
      <4>1. parts'[i] = parts[i] /\ parts[i].first = (i - 1) * b /\ parts[i].len = b /\ b > 0
        BY <1>2, <1>6, <2>1, <3>2
      <4> QED
        BY <4>1
    <3> QED
      BY <1>4, <3>1, <3>2
  <2>4. Len(parts') * b < length + b
    BY <1>2, <1>3, <1>5, <1>6
  <2> QED
    BY <1>1, <1>6, <2>2, <2>3, <2>4 DEF Whole, b
<1>8. ASSUME length > UINT16 PROVE ~Whole'
  <2>1. part \in DOMAIN parts' /\ parts'[part].first = len_injected
    BY <1>4, <1>6 DEF p
  <2>2. len_injected # (part - 1) * b
    BY <1>2, <1>5, <1>8
  <2> QED
    BY <2>1, <2>2 DEF Whole, b
<1>9. total_parts' = total_parts
  BY <1>1 DEF total_parts
<1>10. XtraWhole'
  BY <1>1, <1>2, <1>3, <1>4, <1>7, <1>8, <1>9 DEF XtraWhole
<1> QED
  BY <1>1, <1>2, <1>6, <1>10 DEF XtraInv

(* The first part number is below the limit of the last.                   *)
LEMMA Widths == 1 < UINT8 /\ 0 < UINT16 /\ UINT8 \in Nat
<1>1. /\ XTRA_BLOCK_SIZE \in Nat \ {0} /\ UINT16 \in Nat \ {0} /\ UINT8 \in Nat
      /\ UINT16 = (UINT16 \div XTRA_BLOCK_SIZE) * XTRA_BLOCK_SIZE
      /\ UINT16 \div XTRA_BLOCK_SIZE < UINT8
  BY LocXtraAssumption
<1>2. UINT16 \div XTRA_BLOCK_SIZE \in Nat
  BY <1>1, Quotient
<1> QED
  BY <1>1, <1>2

(* The start.                                                              *)
LEMMA XtraFresh ==
    ASSUME length \in XtraLengths, part = 1, len_injected = 0, parts = <<>>,
           result = "running"
    PROVE  XtraInv
<1>1. 1 \in Nat \ {0}
  OBVIOUS
<1>2. /\ total_parts \in Nat \ {0} /\ length \in Nat \ {0}
  BY <1>1, PartsOfFile
<1>4. (1 - 1) * XTRA_BLOCK_SIZE = 0
  BY LocXtraAssumption
<1>5. parts \in Seq(Part) /\ Len(parts) = 0
  OBVIOUS
<1> QED
  BY <1>2, <1>4, <1>5, Widths DEF XtraInv, Blocks, XtraWhole

(* A step of the injection.                                                *)
LEMMA XtraStep == XtraInv /\ [XtraNext]_xtraVars => XtraInv'
<1> SUFFICES ASSUME XtraInv, [XtraNext]_xtraVars PROVE XtraInv'
    OBVIOUS
<1>1. CASE InjectFails
  <2>1. CASE tries < 3
    <3>1. /\ part' = 1 /\ len_injected' = 0 /\ parts' = <<>> /\ result' = "running"
          /\ length' \in XtraLengths
      BY <1>1, <2>1 DEF InjectFails, XtraInv
    <3>2. /\ 1 \in Nat \ {0} /\ total_parts' \in Nat \ {0}
      <4>1. total_parts' = total_parts /\ length \in XtraLengths
        BY <1>1 DEF InjectFails, total_parts, XtraInv
      <4> QED
        BY <4>1, PartsOfFile
    <3>4. (1 - 1) * XTRA_BLOCK_SIZE = 0
      BY LocXtraAssumption
    <3>5. parts' \in Seq(Part) /\ Len(parts') = 0
      BY <3>1
    <3> QED
      BY <3>1, <3>2, <3>4, <3>5, Widths DEF XtraInv, Blocks, XtraWhole
  <2>2. CASE ~(tries < 3)
    BY <1>1, <2>2 DEF InjectFails, XtraInv, XtraWhole, total_parts
  <2> QED
    BY <2>1, <2>2
<1>2. CASE UNCHANGED xtraVars
  BY <1>2 DEF xtraVars, XtraInv, XtraWhole, total_parts, Blocks, Whole
<1> QED
  BY <1>1, <1>2, PartStep, LastStep DEF XtraNext

(* qct_loc_eng_inject_xtra_data: when the injection succeeds the file has  *)
(* arrived whole and in order exactly if it is no longer than the uint16   *)
(* offset reaches, whatever failed before; one of more parts than the      *)
(* uint8 part number counts never succeeds.                                *)
THEOREM XtraArrives == XtraSpec => []XtraWhole
<1>1. XtraInit => XtraInv
  BY XtraFresh DEF XtraInit
<1>2. XtraInv => XtraWhole
  BY DEF XtraInv
<1> QED
  BY <1>1, <1>2, XtraStep, PTL DEF XtraSpec

-----------------------------------------------------------------------------
(* MsgQueue.                                                               *)

(* The fields of a list whose elements, from the tail to the head, are     *)
(* s[1] to s[n].                                                           *)
Links(next, prev, data, s, n) ==
    /\ \A i, j \in 1..n : s[i] = s[j] => i = j
    /\ \A i \in 1..n : s[i] \in Elements
    /\ DOMAIN next = {s[i] : i \in 1..n}
    /\ DOMAIN prev = {s[i] : i \in 1..n}
    /\ DOMAIN data = {s[i] : i \in 1..n}
    /\ \A i \in 1..n : prev[s[i]] = IF i = n THEN Null ELSE s[i + 1]
    /\ \A i \in 1..n : next[s[i]] = IF i = 1 THEN Null ELSE s[i - 1]
    /\ \A i \in 1..n : data[s[i]] \in Messages

(* The list l holds the elements s.                                        *)
Chain(l, s) ==
    /\ s \in Seq(Elements) /\ Links(l.next, l.prev, l.data, s, Len(s))
    /\ l.tail = IF s = <<>> THEN Null ELSE s[1]
    /\ l.head = IF s = <<>> THEN Null ELSE s[Len(s)]

(* A nonempty set of numbers has a least element.                          *)
LEMMA LeastExists ==
    ASSUME NEW T \in SUBSET Nat, T # {}
    PROVE  \E m \in T : \A k \in T : m <= k
<1> DEFINE R == {ss \in Nat \X Nat : ss[1] < ss[2]}
<1>1. IsWellFoundedOn(R, Nat)
  BY NatLessThanWellFounded DEF OpToRel
<1>2. PICK x \in T : \A y \in T : ~ (<<y, x>> \in R)
  BY <1>1, WFMin, Zenon
<1>3. \A y \in T : ~ (y < x)
  BY <1>2
<1> QED
  BY <1>3

(* Two lists from one element on along one field agree as far as the first *)
(* of them goes.                                                           *)
LEMMA LinkedAgree ==
    ASSUME NEW field, NEW e, NEW s \in Seq(Elements), NEW t \in Seq(Elements),
           Linked(field, e, s), Linked(field, e, t)
    PROVE  \A i \in 1..Len(s) : i \in 1..Len(t) /\ s[i] = t[i]
<1>1. Len(s) \in Nat /\ Len(t) \in Nat /\ DOMAIN s = 1..Len(s) /\ DOMAIN t = 1..Len(t)
  BY LenProperties
<1>2. \A i \in 1..Len(s) : s[i] \in Elements /\ s[i] # Null
  BY ElementsAssumption, ElementOfSeq
<1> DEFINE T == {i \in 1..Len(s) : ~(i \in 1..Len(t) /\ s[i] = t[i])}
<1> SUFFICES ASSUME T # {} PROVE FALSE
  OBVIOUS
<1>3. PICK m \in T : \A k \in T : m <= k
  <2>1. T \subseteq Nat
    BY <1>1
  <2> HIDE DEF T
  <2> QED
    BY <2>1, LeastExists
<1>4. m \in 1..Len(s) /\ ~(m \in 1..Len(t) /\ s[m] = t[m])
  BY <1>3
<1>5. CASE m = 1
  <2>1. s # <<>> /\ s[1] = e
    BY <1>1, <1>4, <1>5 DEF Linked
  <2>2. t # <<>>
    BY <1>1, <1>2, <1>4, <1>5, <2>1 DEF Linked
  <2>3. t[1] = e /\ Len(t) # 0
    BY <2>2, EmptySeq DEF Linked
  <2> QED
    BY <1>1, <1>4, <1>5, <2>1, <2>3
<1>6. CASE m # 1
  <2>1. m - 1 \in 1..Len(s) /\ m - 1 \notin T
    BY <1>1, <1>3, <1>4, <1>6
  <2>2. m - 1 \in 1..Len(t) /\ s[m - 1] = t[m - 1]
    BY <2>1
  <2>3. field[s[m - 1]] = s[m]
    <3>1. \A n \in DOMAIN s : field[s[n]] = IF n = Len(s) THEN Null ELSE s[n + 1]
      BY DEF Linked
    <3>2. m - 1 \in DOMAIN s /\ m - 1 # Len(s) /\ m - 1 + 1 = m
      BY <1>1, <1>4, <2>1
    <3> HIDE DEF T
    <3> QED
      BY <3>1, <3>2
  <2>4. field[t[m - 1]] = IF m - 1 = Len(t) THEN Null ELSE t[m]
    BY <1>1, <1>4, <2>2 DEF Linked
  <2> QED
    BY <1>1, <1>2, <1>4, <2>2, <2>3, <2>4
<1> QED
  BY <1>5, <1>6

(* So a list is given by its first element and the field.                  *)
LEMMA LinkedOnce ==
    ASSUME NEW field, NEW e, NEW s \in Seq(Elements), NEW t \in Seq(Elements),
           Linked(field, e, s), Linked(field, e, t)
    PROVE  s = t
<1>1. \A i \in 1..Len(s) : i \in 1..Len(t) /\ s[i] = t[i]
  BY LinkedAgree
<1>2. \A i \in 1..Len(t) : i \in 1..Len(s)
  BY LinkedAgree
<1>3. Len(s) \in Nat /\ Len(t) \in Nat
  BY LenProperties
<1>4. Len(s) = Len(t)
  BY <1>1, <1>2, <1>3
<1> QED
  BY <1>1, <1>4, SeqEqual

(* A list without repetitions has no more elements than there are.         *)
LEMMA LengthBound ==
    ASSUME NEW s \in Seq(Elements), \A i, j \in 1..Len(s) : s[i] = s[j] => i = j
    PROVE  s \in UNION {[1..n -> Elements] : n \in 0..Cardinality(Elements)}
<1>1. Len(s) \in Nat /\ s \in [1..Len(s) -> Elements]
  BY LenProperties
<1>2. s \in Injection(1..Len(s), Elements)
  BY <1>1 DEF Injection, IsInjective
<1>3. Cardinality(1..Len(s)) <= Cardinality(Elements)
  BY <1>2, ElementsAssumption, FS_Injection
<1>4. Cardinality(1..Len(s)) = Len(s)
  <2>1. 1 \in Int /\ Len(s) \in Int
    BY <1>1
  <2>2. Cardinality(1..Len(s)) = IF 1 > Len(s) THEN 0 ELSE Len(s) - 1 + 1
    BY <2>1, FS_Interval, Zenon
  <2> QED
    BY <1>1, <2>2
<1>5. Cardinality(Elements) \in Nat
  BY ElementsAssumption, FS_CardinalityType
<1>6. Len(s) \in 0..Cardinality(Elements)
  BY <1>1, <1>3, <1>4, <1>5
<1> QED
  BY <1>1, <1>6

(* Follow finds the list there is.                                         *)
LEMMA FollowIs ==
    ASSUME NEW field, NEW e, NEW s \in Seq(Elements),
           \A i, j \in 1..Len(s) : s[i] = s[j] => i = j, Linked(field, e, s)
    PROVE  Follow(field, e) = s
<1> DEFINE All == UNION {[1..n -> Elements] : n \in 0..Cardinality(Elements)}
<1>1. s \in All
  BY LengthBound
<1>2. Follow(field, e) \in All /\ Linked(field, e, Follow(field, e))
  BY <1>1, Zenon DEF Follow
<1>3. Follow(field, e) \in Seq(Elements)
  <2>1. Cardinality(Elements) \in Nat
    BY ElementsAssumption, FS_CardinalityType
  <2>2. PICK n \in 0..Cardinality(Elements) : Follow(field, e) \in [1..n -> Elements]
    BY <1>2
  <2>3. n \in Nat
    BY <2>1, <2>2
  <2> HIDE DEF All
  <2> QED
    BY <2>2, <2>3, SeqDef
<1> QED
  BY <1>2, <1>3, LinkedOnce

(* linked_list_add, on the fields.                                         *)
LEMMA AddLinks ==
    ASSUME NEW next, NEW prev, NEW data, NEW s, NEW n \in Nat, Links(next, prev, data, s, n),
           NEW e \in Elements, \A i \in 1..n : s[i] # e, NEW m \in Messages,
           NEW t, t[n + 1] = e, \A i \in 1..n : t[i] = s[i]
    PROVE  Links(Put(next, e, IF n = 0 THEN Null ELSE s[n]),
                 IF n = 0 THEN Put(prev, e, Null) ELSE Put(Put(prev, e, Null), s[n], e),
                 Put(data, e, m), t, n + 1)
<1> DEFINE D == {s[i] : i \in 1..n}
           E == {t[i] : i \in 1..(n + 1)}
           hd == IF n = 0 THEN Null ELSE s[n]
           nx == Put(next, e, hd)
           p1 == Put(prev, e, Null)
           pv == IF n = 0 THEN p1 ELSE Put(p1, s[n], e)
           dt == Put(data, e, m)
<1>1. \A i \in 1..(n + 1) : i \in 1..n \/ i = n + 1
  OBVIOUS
<1>2. DOMAIN next = D /\ DOMAIN prev = D /\ DOMAIN data = D
  BY DEF Links
<1>3. E = D \cup {e} /\ e \notin D
  BY <1>1
<1>4. \A i \in 1..n : s[i] \in D
  OBVIOUS
<1>5. \A i, j \in 1..(n + 1) : t[i] = t[j] => i = j
  <2> SUFFICES ASSUME NEW i \in 1..(n + 1), NEW j \in 1..(n + 1), t[i] = t[j] PROVE i = j
    OBVIOUS
  <2>1. CASE i \in 1..n /\ j \in 1..n
    BY <2>1 DEF Links
  <2>2. CASE i = n + 1 \/ j = n + 1
    BY <1>1, <2>2
  <2> QED
    BY <1>1, <2>1, <2>2
<1>6. \A i \in 1..(n + 1) : t[i] \in Elements
  BY <1>1 DEF Links
<1> HIDE DEF D, E
<1>7. DOMAIN nx = E /\ nx[e] = hd /\ \A x \in D : nx[x] = next[x]
  BY <1>2, <1>3 DEF Put
<1>8. DOMAIN dt = E /\ dt[e] = m /\ \A x \in D : dt[x] = data[x]
  BY <1>2, <1>3 DEF Put
<1>9. DOMAIN p1 = E /\ p1[e] = Null /\ \A x \in D : p1[x] = prev[x]
  BY <1>2, <1>3 DEF Put
<1> HIDE DEF nx, dt, p1
<1>10. n # 0 => n \in 1..n
  OBVIOUS
<1>11. /\ DOMAIN pv = E /\ pv[e] = Null
       /\ \A x \in D : pv[x] = IF n # 0 /\ x = s[n] THEN e ELSE prev[x]
  <2>1. CASE n = 0
    BY <1>9, <2>1
  <2>2. CASE n # 0
    <3>1. s[n] \in D /\ s[n] # e
      BY <1>3, <1>4, <1>10, <2>2
    <3> QED
      BY <1>3, <1>9, <2>2, <3>1 DEF Put
  <2> QED
    BY <2>1, <2>2
<1> HIDE DEF pv
<1>12. \A i \in 1..(n + 1) : nx[t[i]] = IF i = 1 THEN Null ELSE t[i - 1]
  <2>1. ASSUME NEW i \in 1..n PROVE nx[t[i]] = IF i = 1 THEN Null ELSE t[i - 1]
    <3>1. nx[t[i]] = next[s[i]]
      BY <1>4, <1>7, <2>1
    <3>2. next[s[i]] = IF i = 1 THEN Null ELSE s[i - 1]
      BY <2>1 DEF Links
    <3>3. i # 1 => i - 1 \in 1..n
      BY <2>1
    <3> QED
      BY <3>1, <3>2, <3>3
  <2>2. nx[t[n + 1]] = IF n + 1 = 1 THEN Null ELSE t[n + 1 - 1]
    BY <1>7, <1>10
  <2> QED
    BY <1>1, <2>1, <2>2
<1>13. \A i \in 1..(n + 1) : pv[t[i]] = IF i = n + 1 THEN Null ELSE t[i + 1]
  <2>1. ASSUME NEW i \in 1..n PROVE pv[t[i]] = t[i + 1]
    <3>1. pv[t[i]] = IF s[i] = s[n] THEN e ELSE prev[s[i]]
      BY <1>4, <1>11, <2>1
    <3>2. s[i] = s[n] <=> i = n
      BY <1>10, <2>1 DEF Links
    <3>3. i # n => prev[s[i]] = s[i + 1] /\ i + 1 \in 1..n
      BY <2>1 DEF Links
    <3> QED
      BY <3>1, <3>2, <3>3
  <2>2. pv[t[n + 1]] = Null
    BY <1>11
  <2> QED
    BY <1>1, <2>1, <2>2
<1>14. \A i \in 1..(n + 1) : dt[t[i]] \in Messages
  <2>1. \A i \in 1..n : dt[t[i]] = data[s[i]]
    BY <1>4, <1>8
  <2>2. \A i \in 1..n : data[s[i]] \in Messages
    BY DEF Links
  <2> QED
    BY <1>1, <1>8, <2>1, <2>2
<1>15. Links(nx, pv, dt, t, n + 1)
  BY <1>5, <1>6, <1>7, <1>8, <1>11, <1>12, <1>13, <1>14 DEF Links, E
<1> QED
  BY <1>15 DEF nx, pv, dt, p1, hd

(* linked_list_remove, on the fields.                                      *)
LEMMA RemoveLinks ==
    ASSUME NEW next, NEW prev, NEW data, NEW s, NEW n \in Nat \ {0}, Links(next, prev, data, s, n),
           NEW t, \A i \in 1..(n - 1) : t[i] = s[i + 1]
    PROVE  Links(Drop(IF n = 1 THEN next ELSE Put(next, s[2], Null), s[1]),
                 Drop(prev, s[1]), Drop(data, s[1]), t, n - 1)
<1> DEFINE D == {s[i] : i \in 1..n}
           E == {t[i] : i \in 1..(n - 1)}
           p1 == IF n = 1 THEN next ELSE Put(next, s[2], Null)
           nx == Drop(p1, s[1])
           pv == Drop(prev, s[1])
           dt == Drop(data, s[1])
<1>1. \A i \in 1..(n - 1) : i + 1 \in 1..n /\ i + 1 # 1 /\ i \in 1..n
  OBVIOUS
<1>2. DOMAIN next = D /\ DOMAIN prev = D /\ DOMAIN data = D
  BY DEF Links
<1>3. 1 \in 1..n /\ (n # 1 => 2 \in 1..n)
  OBVIOUS
<1>4. \A i \in 1..n : s[i] \in D
  OBVIOUS
<1>5. \A i \in 1..(n - 1) : t[i] # s[1] /\ t[i] \in D
  BY <1>1, <1>3, <1>4 DEF Links
<1>6. \A i \in 1..n : i # 1 => i - 1 \in 1..(n - 1) /\ t[i - 1] = s[i]
  OBVIOUS
<1>7. E = D \ {s[1]}
  <2>1. E \subseteq D \ {s[1]}
    BY <1>5
  <2>2. D \ {s[1]} \subseteq E
    BY <1>6
  <2> QED
    BY <2>1, <2>2
<1>8. \A i, j \in 1..(n - 1) : t[i] = t[j] => i = j
  <2> SUFFICES ASSUME NEW i \in 1..(n - 1), NEW j \in 1..(n - 1), t[i] = t[j] PROVE i = j
    OBVIOUS
  <2>1. i + 1 = j + 1
    BY <1>1 DEF Links
  <2> QED
    BY <2>1
<1>9. \A i \in 1..(n - 1) : t[i] \in Elements /\ t[i] \in E
  BY <1>1 DEF Links
<1> HIDE DEF D, E
<1>10. DOMAIN pv = E /\ \A x \in E : pv[x] = prev[x]
  BY <1>2, <1>7 DEF Drop
<1>11. DOMAIN dt = E /\ \A x \in E : dt[x] = data[x]
  BY <1>2, <1>7 DEF Drop
<1>12. DOMAIN p1 = D /\ \A x \in D : p1[x] = IF n # 1 /\ x = s[2] THEN Null ELSE next[x]
  <2>1. CASE n = 1
    BY <1>2, <2>1
  <2>2. CASE n # 1
    <3>1. s[2] \in D
      BY <1>3, <1>4, <2>2
    <3> QED
      BY <1>2, <2>2, <3>1 DEF Put
  <2> QED
    BY <2>1, <2>2
<1> HIDE DEF p1
<1>13. DOMAIN nx = E /\ \A x \in E : nx[x] = p1[x]
  BY <1>7, <1>12 DEF Drop
<1> HIDE DEF nx, pv, dt
<1>14. \A i \in 1..(n - 1) : pv[t[i]] = IF i = n - 1 THEN Null ELSE t[i + 1]
  <2> SUFFICES ASSUME NEW i \in 1..(n - 1)
               PROVE  pv[t[i]] = IF i = n - 1 THEN Null ELSE t[i + 1]
    OBVIOUS
  <2>1. pv[t[i]] = prev[s[i + 1]]
    BY <1>9, <1>10
  <2>2. prev[s[i + 1]] = IF i + 1 = n THEN Null ELSE s[i + 1 + 1]
    BY <1>1 DEF Links
  <2>3. i # n - 1 => t[i + 1] = s[i + 1 + 1]
    OBVIOUS
  <2> QED
    BY <2>1, <2>2, <2>3
<1>15. \A i \in 1..(n - 1) : nx[t[i]] = IF i = 1 THEN Null ELSE t[i - 1]
  <2> SUFFICES ASSUME NEW i \in 1..(n - 1)
               PROVE  nx[t[i]] = IF i = 1 THEN Null ELSE t[i - 1]
    OBVIOUS
  <2>1. nx[t[i]] = IF s[i + 1] = s[2] THEN Null ELSE next[s[i + 1]]
    BY <1>5, <1>9, <1>12, <1>13
  <2>2. s[i + 1] = s[2] <=> i = 1
    BY <1>1, <1>3 DEF Links
  <2>3. next[s[i + 1]] = s[i]
    <3>1. next[s[i + 1]] = IF i + 1 = 1 THEN Null ELSE s[i + 1 - 1]
      BY <1>1 DEF Links
    <3> QED
      BY <3>1
  <2>4. i # 1 => t[i - 1] = s[i]
    OBVIOUS
  <2> QED
    BY <2>1, <2>2, <2>3, <2>4
<1>16. \A i \in 1..(n - 1) : dt[t[i]] \in Messages
  BY <1>1, <1>9, <1>11 DEF Links
<1>17. Links(nx, pv, dt, t, n - 1)
  BY <1>8, <1>9, <1>10, <1>11, <1>13, <1>14, <1>15, <1>16 DEF Links, E
<1> QED
  BY <1>17 DEF nx, pv, dt, p1

(* linked_list_add puts the new element after the others.                  *)
LEMMA AddIs ==
    ASSUME NEW l, NEW s, Chain(l, s), NEW e \in Elements \ Allocated(l), NEW m \in Messages
    PROVE  Chain(linked_list_add(l, e, m), Append(s, e))
<1> DEFINE n == Len(s)
           t == Append(s, e)
           l2 == linked_list_add(l, e, m)
<1>1. s \in Seq(Elements) /\ n \in Nat
  BY LenProperties DEF Chain
<1>2. t \in Seq(Elements) /\ Len(t) = n + 1 /\ t[n + 1] = e /\ \A i \in 1..n : t[i] = s[i]
  BY <1>1, AppendProperties
<1>3. \A i \in 1..n : s[i] # e
  BY DEF Chain, Links, Allocated
<1>4. (s = <<>> <=> n = 0) /\ t # <<>>
  BY <1>1, <1>2, EmptySeq
<1>5. Links(l.next, l.prev, l.data, s, n)
  BY DEF Chain
<1>6. \A i \in 1..n : s[i] # Null
  BY <1>5, ElementsAssumption DEF Links
<1>7. l.head = (IF n = 0 THEN Null ELSE s[n]) /\ l.tail = IF n = 0 THEN Null ELSE s[1]
  BY <1>4 DEF Chain
<1> HIDE DEF n, t
<1>8. n \in Nat
  BY <1>1
<1>9. l.head = Null <=> n = 0
  BY <1>6, <1>7, <1>8
<1>10. Links(l2.next, l2.prev, l2.data, t, n + 1)
  <2>1. /\ l2.next = Put(l.next, e, IF n = 0 THEN Null ELSE s[n])
        /\ l2.prev = IF n = 0 THEN Put(l.prev, e, Null) ELSE Put(Put(l.prev, e, Null), s[n], e)
        /\ l2.data = Put(l.data, e, m)
    BY <1>7, <1>9 DEF linked_list_add
  <2>2. t[n + 1] = e /\ \A i \in 1..n : t[i] = s[i]
    BY <1>2
  <2> QED
    BY <1>3, <1>5, <1>8, <2>1, <2>2, AddLinks
<1>11. l2.head = t[n + 1] /\ l2.tail = t[1]
  <2>1. l2.head = e /\ l2.tail = IF n = 0 THEN e ELSE s[1]
    BY <1>7, <1>9 DEF linked_list_add
  <2>2. t[n + 1] = e /\ \A i \in 1..n : t[i] = s[i]
    BY <1>2
  <2>3. n # 0 => t[1] = s[1]
    BY <1>8, <2>2
  <2>4. n = 0 => t[1] = e
    BY <2>2
  <2> QED
    BY <2>1, <2>2, <2>3, <2>4
<1> HIDE DEF l2
<1>12. Chain(l2, t)
  BY <1>2, <1>4, <1>10, <1>11 DEF Chain
<1> QED
  BY <1>12 DEF l2, t

(* linked_list_remove takes the first element away.                        *)
LEMMA RemoveIs ==
    ASSUME NEW l, NEW s, Chain(l, s), s # <<>>
    PROVE  Chain(linked_list_remove(l), Tail(s))
<1> DEFINE n == Len(s)
           t == Tail(s)
           l2 == linked_list_remove(l)
<1>1. s \in Seq(Elements) /\ n \in Nat \ {0}
  BY EmptySeq DEF Chain
<1>2. t \in Seq(Elements) /\ Len(t) = n - 1 /\ \A i \in 1..(n - 1) : t[i] = s[i + 1]
  BY <1>1, HeadTailProperties
<1>3. t = <<>> <=> n = 1
  BY <1>1, <1>2, EmptySeq
<1>4. Links(l.next, l.prev, l.data, s, n) /\ l.tail = s[1] /\ l.head = s[n]
  BY DEF Chain
<1> HIDE DEF n, t
<1>5. n \in Nat \ {0} /\ \A i \in 1..(n - 1) : t[i] = s[i + 1]
  BY <1>1, <1>2
<1>6. l.prev[s[1]] = IF n = 1 THEN Null ELSE s[2]
  BY <1>4, <1>5 DEF Links
<1>7. \A i \in 1..n : s[i] # Null
  BY <1>4, ElementsAssumption DEF Links
<1>8. l.prev[s[1]] = Null <=> n = 1
  <2>1. n # 1 => 2 \in 1..n
    BY <1>5
  <2> QED
    BY <1>6, <1>7, <2>1
<1>9. Links(l2.next, l2.prev, l2.data, t, n - 1)
  <2>1. l2.next = Drop(IF n = 1 THEN l.next ELSE Put(l.next, s[2], Null), s[1])
    BY <1>4, <1>6, <1>8 DEF linked_list_remove
  <2>2. l2.prev = Drop(l.prev, s[1]) /\ l2.data = Drop(l.data, s[1])
    BY <1>4 DEF linked_list_remove
  <2>3. Links(Drop(IF n = 1 THEN l.next ELSE Put(l.next, s[2], Null), s[1]),
              Drop(l.prev, s[1]), Drop(l.data, s[1]), t, n - 1)
    BY <1>4, <1>5, RemoveLinks
  <2> QED
    BY <2>1, <2>2, <2>3
<1>10. l2.tail = (IF n = 1 THEN Null ELSE t[1]) /\ l2.head = IF n = 1 THEN Null ELSE t[n - 1]
  <2>1. l2.tail = (IF n = 1 THEN Null ELSE s[2]) /\ l2.head = IF n = 1 THEN Null ELSE s[n]
    BY <1>4, <1>6, <1>8 DEF linked_list_remove
  <2>2. n # 1 => t[1] = s[2] /\ t[n - 1] = s[n]
    BY <1>5
  <2> QED
    BY <2>1, <2>2
<1> HIDE DEF l2
<1>11. Chain(l2, t)
  BY <1>2, <1>3, <1>9, <1>10 DEF Chain
<1> QED
  BY <1>11 DEF l2, t

(* From the tail along prev, Follow finds the elements.                    *)
LEMMA FollowPrev ==
    ASSUME NEW l, NEW s, Chain(l, s)
    PROVE  Follow(l.prev, l.tail) = s
<1>1. s \in Seq(Elements) /\ DOMAIN s = 1..Len(s)
  BY LenProperties DEF Chain
<1>2. Linked(l.prev, l.tail, s)
  BY <1>1 DEF Chain, Links, Linked
<1>3. \A i, j \in 1..Len(s) : s[i] = s[j] => i = j
  BY DEF Chain, Links
<1> QED
  BY <1>1, <1>2, <1>3, FollowIs

(* From the head along next it meets the same elements: a flush, which     *)
(* frees those, leaves none behind.                                        *)
LEMMA FlushIs ==
    ASSUME NEW l, NEW s, Chain(l, s)
    PROVE  Chain(linked_list_flush(l), <<>>)
<1> DEFINE n == Len(s)
           t == [i \in 1..n |-> s[n + 1 - i]]
           D == {s[i] : i \in 1..n}
           l2 == linked_list_flush(l)
<1>1. s \in Seq(Elements) /\ n \in Nat /\ (s = <<>> <=> n = 0)
  BY LenProperties, EmptySeq DEF Chain
<1>2. Links(l.next, l.prev, l.data, s, n)
  BY DEF Chain
<1>3. l.head = IF n = 0 THEN Null ELSE s[n]
  BY <1>1 DEF Chain
<1> HIDE DEF n
<1>4. n \in Nat
  BY <1>1
<1>5. \A i \in 1..n : n + 1 - i \in 1..n /\ s[n + 1 - i] \in Elements /\ t[i] = s[n + 1 - i]
  BY <1>2, <1>4 DEF Links
<1>6. t \in [1..n -> Elements] /\ DOMAIN t = 1..n
  BY <1>5
<1> HIDE DEF t
<1>7. t \in Seq(Elements) /\ Len(t) = n
  BY <1>4, <1>6, SeqDef
<1>8. \A i, j \in 1..n : t[i] = t[j] => i = j
  <2> SUFFICES ASSUME NEW i \in 1..n, NEW j \in 1..n, t[i] = t[j] PROVE i = j
    OBVIOUS
  <2>1. n + 1 - i = n + 1 - j
    BY <1>2, <1>5 DEF Links
  <2> QED
    BY <1>4, <2>1
<1>9. Linked(l.next, l.head, t)
  <2>1. IF t = <<>> THEN l.head = Null ELSE t[1] = l.head
    <3>1. t = <<>> <=> n = 0
      BY <1>7, EmptySeq
    <3>2. n # 0 => 1 \in 1..n /\ n + 1 - 1 = n
      BY <1>4
    <3> QED
      BY <1>3, <1>5, <3>1, <3>2
  <2>2. \A i \in 1..n : t[i] \in DOMAIN l.next
    BY <1>2, <1>5 DEF Links
  <2>3. \A i \in 1..n : l.next[t[i]] = IF i = n THEN Null ELSE t[i + 1]
    <3> SUFFICES ASSUME NEW i \in 1..n PROVE l.next[t[i]] = IF i = n THEN Null ELSE t[i + 1]
      OBVIOUS
    <3> DEFINE k == n + 1 - i
    <3>1. t[i] = s[k] /\ k \in 1..n
      BY <1>5
    <3>2. k = 1 <=> i = n
      BY <1>4
    <3>3. i # n => t[i + 1] = s[k - 1]
      <4>1. i # n => i + 1 \in 1..n /\ n + 1 - (i + 1) = k - 1
        BY <1>4
      <4> QED
        BY <1>5, <4>1
    <3> HIDE DEF k
    <3>4. l.next[s[k]] = IF k = 1 THEN Null ELSE s[k - 1]
      BY <1>2, <3>1 DEF Links
    <3> QED
      BY <3>1, <3>2, <3>3, <3>4
  <2> QED
    BY <1>6, <1>7, <2>1, <2>2, <2>3 DEF Linked
<1>10. Follow(l.next, l.head) = t
  BY <1>7, <1>8, <1>9, FollowIs
<1>11. {t[i] : i \in DOMAIN t} = D
  <2>1. \A i \in 1..n : s[i] = t[n + 1 - i]
    BY <1>4, <1>5
  <2> QED
    BY <1>5, <1>6, <2>1
<1>12. DOMAIN l.next = D /\ DOMAIN l.prev = D /\ DOMAIN l.data = D
  BY <1>2 DEF Links
<1> HIDE DEF D
<1>13. DOMAIN l2.next = {} /\ DOMAIN l2.prev = {} /\ DOMAIN l2.data = {}
  BY <1>10, <1>11, <1>12 DEF linked_list_flush
<1>14. l2.head = Null /\ l2.tail = Null
  BY DEF linked_list_flush
<1> HIDE DEF l2
<1>15. <<>> \in Seq(Elements) /\ Len(<<>>) = 0
  BY EmptySeq
<1>16. Links(l2.next, l2.prev, l2.data, <<>>, 0)
  BY <1>13 DEF Links
<1>17. Chain(l2, <<>>)
  BY <1>14, <1>15, <1>16 DEF Chain
<1> QED
  BY <1>17 DEF l2

(* The messages of the elements s.                                         *)
Values(l, s) == [n \in 1..Len(s) |-> l.data[s[n]]]

(* They are messages, one for each element.                                *)
LEMMA ValuesSeq ==
    ASSUME NEW l, NEW s, Chain(l, s)
    PROVE  /\ Values(l, s) \in Seq(Messages) /\ Len(Values(l, s)) = Len(s)
           /\ \A i \in 1..Len(s) : Values(l, s)[i] = l.data[s[i]]
           /\ Values(l, s) = <<>> <=> s = <<>>
<1>1. s \in Seq(Elements) /\ Len(s) \in Nat
  BY LenProperties DEF Chain
<1>2. \A i \in 1..Len(s) : l.data[s[i]] \in Messages
  BY DEF Chain, Links
<1> DEFINE v == Values(l, s)
<1>3. v \in [1..Len(s) -> Messages] /\ \A i \in 1..Len(s) : v[i] = l.data[s[i]]
  BY <1>2 DEF Values
<1> HIDE DEF v
<1>4. v \in Seq(Messages) /\ Len(v) = Len(s)
  BY <1>1, <1>3, SeqDef
<1>5. v = <<>> <=> s = <<>>
  BY <1>1, <1>4, EmptySeq
<1> QED
  BY <1>3, <1>4, <1>5 DEF v

(* The messages in the order they leave in.                                *)
LEMMA FollowValues ==
    ASSUME NEW l, NEW s, Chain(l, s)
    PROVE  LET order == Follow(l.prev, l.tail)
           IN [n \in DOMAIN order |-> l.data[order[n]]] = Values(l, s)
<1>1. Follow(l.prev, l.tail) = s /\ DOMAIN s = 1..Len(s)
  BY FollowPrev, LenProperties DEF Chain
<1> QED
  BY <1>1 DEF Values

(* A message sent is the last of them.                                     *)
LEMMA AddValues ==
    ASSUME NEW l, NEW s, Chain(l, s), NEW e \in Elements \ Allocated(l), NEW m \in Messages
    PROVE  Values(linked_list_add(l, e, m), Append(s, e)) = Append(Values(l, s), m)
<1> DEFINE n == Len(s)
           t == Append(s, e)
           l2 == linked_list_add(l, e, m)
           v == Values(l, s)
           w == Values(l2, t)
<1>1. s \in Seq(Elements) /\ n \in Nat
  BY LenProperties DEF Chain
<1>2. Len(t) = n + 1 /\ t[n + 1] = e /\ \A i \in 1..n : t[i] = s[i]
  BY <1>1, AppendProperties
<1>3. Chain(l2, t)
  BY AddIs
<1>4. v \in Seq(Messages) /\ Len(v) = n /\ \A i \in 1..n : v[i] = l.data[s[i]]
  BY ValuesSeq
<1>5. DOMAIN l.data = DOMAIN l.next /\ \A i \in 1..n : s[i] \in DOMAIN l.data
  BY DEF Chain, Links
<1>6. l2.data = Put(l.data, e, m)
  BY DEF linked_list_add
<1> HIDE DEF l2, t
<1>7. w \in Seq(Messages) /\ Len(w) = n + 1 /\ \A i \in 1..(n + 1) : w[i] = l2.data[t[i]]
  BY <1>2, <1>3, ValuesSeq
<1> HIDE DEF n, v, w
<1>8. w[n + 1] = m
  <2>1. l2.data[e] = m
    BY <1>6 DEF Put
  <2>2. n + 1 \in 1..(n + 1)
    BY <1>1
  <2> QED
    BY <1>2, <1>7, <2>1, <2>2
<1>9. \A i \in 1..n : w[i] = v[i]
  <2> SUFFICES ASSUME NEW i \in 1..n PROVE w[i] = v[i]
    OBVIOUS
  <2>1. s[i] # e /\ s[i] \in DOMAIN l.data
    BY <1>5 DEF Allocated
  <2>2. l2.data[s[i]] = l.data[s[i]]
    BY <1>6, <2>1 DEF Put
  <2>3. i \in 1..(n + 1)
    BY <1>1
  <2> QED
    BY <1>2, <1>4, <1>7, <2>2, <2>3
<1> DEFINE a == Append(v, m)
<1>10. a \in Seq(Messages) /\ Len(a) = n + 1 /\ a[n + 1] = m /\ \A i \in 1..n : a[i] = v[i]
  BY <1>4, AppendProperties
<1> HIDE DEF a
<1>11. \A i \in 1..(n + 1) : w[i] = a[i]
  <2>1. \A i \in 1..(n + 1) : i \in 1..n \/ i = n + 1
    BY <1>1
  <2> QED
    BY <1>8, <1>9, <1>10, <2>1
<1>12. w = a
  BY <1>7, <1>10, <1>11, SeqEqual
<1> QED
  BY <1>12 DEF w, a, v, l2, t

(* The one removed is the first of them.                                   *)
LEMMA RemoveValues ==
    ASSUME NEW l, NEW s, Chain(l, s), s # <<>>
    PROVE  /\ Values(linked_list_remove(l), Tail(s)) = Tail(Values(l, s))
           /\ l.data[l.tail] = Head(Values(l, s))
           /\ Values(l, s) # <<>>
<1> DEFINE n == Len(s)
           t == Tail(s)
           l2 == linked_list_remove(l)
           v == Values(l, s)
           w == Values(l2, t)
           a == Tail(v)
<1>1. s \in Seq(Elements) /\ n \in Nat \ {0}
  BY EmptySeq DEF Chain
<1>2. Len(t) = n - 1 /\ \A i \in 1..(n - 1) : t[i] = s[i + 1]
  BY <1>1, HeadTailProperties
<1>3. Chain(l2, t)
  BY RemoveIs
<1>4. v \in Seq(Messages) /\ Len(v) = n /\ v # <<>> /\ \A i \in 1..n : v[i] = l.data[s[i]]
  BY ValuesSeq
<1>5. /\ \A i \in 1..n : s[i] \in DOMAIN l.data
      /\ \A i, j \in 1..n : s[i] = s[j] => i = j
  BY DEF Chain, Links
<1>6. l.tail = s[1]
  BY DEF Chain
<1>7. l2.data = Drop(l.data, s[1])
  BY <1>6 DEF linked_list_remove
<1> HIDE DEF l2, t
<1>8. w \in Seq(Messages) /\ Len(w) = n - 1 /\ \A i \in 1..(n - 1) : w[i] = l2.data[t[i]]
  BY <1>2, <1>3, ValuesSeq
<1> HIDE DEF n, v, w
<1>9. a \in Seq(Messages) /\ Len(a) = n - 1 /\ \A i \in 1..(n - 1) : a[i] = v[i + 1]
  BY <1>4, HeadTailProperties
<1> HIDE DEF a
<1>10. \A i \in 1..(n - 1) : w[i] = a[i]
  <2> SUFFICES ASSUME NEW i \in 1..(n - 1) PROVE w[i] = a[i]
    OBVIOUS
  <2>1. i + 1 \in 1..n /\ 1 \in 1..n /\ i + 1 # 1
    BY <1>1
  <2>2. s[i + 1] # s[1] /\ s[i + 1] \in DOMAIN l.data
    BY <1>5, <2>1
  <2>3. l2.data[s[i + 1]] = l.data[s[i + 1]]
    BY <1>7, <2>2 DEF Drop
  <2>4. w[i] = l.data[s[i + 1]]
    BY <1>2, <1>8, <2>3
  <2>5. a[i] = l.data[s[i + 1]]
    BY <1>4, <1>9, <2>1
  <2> QED
    BY <2>4, <2>5
<1>11. w = a
  BY <1>8, <1>9, <1>10, SeqEqual
<1>12. l.data[l.tail] = Head(v)
  <2>1. 1 \in 1..n
    BY <1>1
  <2>2. v[1] = l.data[s[1]]
    BY <1>4, <2>1
  <2>3. Head(v) = v[1]
    BY <1>4
  <2> QED
    BY <1>6, <2>2, <2>3
<1> QED
  BY <1>4, <1>11, <1>12 DEF w, a, v, l2, t

(* The list is always whole; without a queue it is empty and nobody is     *)
(* inside a call.                                                          *)
QueueInv ==
    /\ live \in BOOLEAN /\ unblocked \in BOOLEAN
    /\ rcv \in [Receivers -> {"out", "waiting", "woken"}]
    /\ \E s : Chain(list, s) /\ (~live => s = <<>>)
    /\ ~live => \A r \in Receivers : rcv[r] = "out"

Asking == {r \in Receivers : rcv[r] # "out"}

(* What a step of the abstract queue is, in the variables of the code.     *)
FifoStep == [Abstract!FifoNext]_(Abstract!fifoVars)

(* A list just made is empty.                                              *)
LEMMA EmptyChain == Chain(linked_list_init, <<>>)
<1>1. <<>> \in Seq(Elements) /\ Len(<<>>) = 0
  BY EmptySeq
<1>2. Links(<<>>, <<>>, <<>>, <<>>, 0)
  BY DEF Links
<1> QED
  BY <1>1, <1>2 DEF Chain, linked_list_init

(* Contents, in a state and in the next one, from the elements of the list.*)
LEMMA ContentsAre ==
    /\ \A s : Chain(list, s) => Contents = Values(list, s)
    /\ \A s : Chain(list', s) => Contents' = Values(list', s)
<1>1. ASSUME NEW s, Chain(list, s) PROVE Contents = Values(list, s)
  BY <1>1, FollowValues DEF Contents
<1>2. ASSUME NEW s, Chain(list', s) PROVE Contents' = Values(list', s)
  BY <1>2, FollowValues DEF Contents
<1> QED
  BY <1>1, <1>2

(* Both ends are NULL exactly when the list is empty.                      *)
LEMMA EmptyEnds ==
    ASSUME NEW l, NEW s, Chain(l, s)
    PROVE  (l.tail = Null <=> s = <<>>) /\ (l.head = Null <=> s = <<>>)
<1>1. s \in Seq(Elements)
  BY DEF Chain
<1>2. ASSUME s # <<>> PROVE s[1] # Null /\ s[Len(s)] # Null
  <2>1. 1 \in 1..Len(s) /\ Len(s) \in 1..Len(s)
    BY <1>1, <1>2, EmptySeq
  <2>2. s[1] \in Elements /\ s[Len(s)] \in Elements
    BY <1>1, <2>1, ElementOfSeq
  <2> QED
    BY <2>2, ElementsAssumption
<1> QED
  BY <1>2 DEF Chain

(* msg_q_init opens the queue.                                             *)
LEMMA QueueInitStep ==
    ASSUME QueueInv, msg_q_init
    PROVE  QueueInv' /\ FifoStep
<1>1. ~live /\ live' = TRUE /\ list' = linked_list_init /\ unblocked' = FALSE /\ UNCHANGED <<rcv, msg_obj>>
  BY DEF msg_q_init
<1>2. Chain(list, <<>>) /\ Chain(list', <<>>)
  BY <1>1, EmptyChain DEF QueueInv
<1>3. Contents = <<>> /\ Contents' = <<>>
  BY <1>2, ContentsAre, ValuesSeq
<1>4. Asking = {} /\ Asking' = {}
  BY <1>1 DEF QueueInv, Asking
<1>5. Abstract!Open
  BY <1>1, <1>3, <1>4 DEF Abstract!Open, Asking
<1>6. QueueInv'
  BY <1>1, <1>2 DEF QueueInv
<1> QED
  BY <1>5, <1>6 DEF FifoStep, Abstract!FifoNext

(* msg_q_flush and msg_q_destroy empty it.                                 *)
LEMMA QueueFlushStep ==
    ASSUME QueueInv, msg_q_flush \/ msg_q_destroy
    PROVE  QueueInv' /\ FifoStep
<1>1. /\ live /\ list' = linked_list_flush(list) /\ UNCHANGED <<rcv, msg_obj>>
      /\ (live' /\ ~unblocked') = (live /\ ~unblocked)
      /\ live' \in BOOLEAN /\ unblocked' \in BOOLEAN
      /\ ~live' => \A r \in Receivers : rcv[r] = "out"
  <2>1. CASE msg_q_flush
    BY <2>1 DEF msg_q_flush, QueueInv
  <2>2. CASE msg_q_destroy
    BY <2>2 DEF msg_q_destroy
  <2> QED
    BY <2>1, <2>2
<1>2. PICK s : Chain(list, s)
  BY DEF QueueInv
<1>3. Chain(list', <<>>)
  BY <1>1, <1>2, FlushIs
<1>4. Contents' = <<>>
  BY <1>3, ContentsAre, ValuesSeq
<1>5. QueueInv'
  BY <1>1, <1>3 DEF QueueInv
<1>6. CASE Contents = <<>>
  BY <1>1, <1>4, <1>5, <1>6 DEF FifoStep, Abstract!fifoVars
<1>7. CASE Contents # <<>>
  <2>1. Abstract!Flush
    BY <1>1, <1>4, <1>7 DEF Abstract!Flush
  <2> QED
    BY <1>5, <2>1 DEF FifoStep, Abstract!FifoNext
<1> QED
  BY <1>6, <1>7

(* Waking somebody leaves everybody where they are in the abstract queue.  *)
LEMMA WokenAsking ==
    ASSUME rcv \in [Receivers -> {"out", "waiting", "woken"}],
           NEW set \in SUBSET Waiting
    PROVE  /\ Woken(set) \in [Receivers -> {"out", "waiting", "woken"}]
           /\ \A r \in Receivers : (Woken(set)[r] # "out") <=> (rcv[r] # "out")
BY DEF Woken, Waiting

(* msg_q_unblock closes the queue.                                         *)
LEMMA QueueUnblockStep ==
    ASSUME QueueInv, msg_q_unblock
    PROVE  QueueInv' /\ FifoStep
<1>1. /\ live /\ ~unblocked /\ unblocked' = TRUE /\ rcv' = Woken(Waiting)
      /\ UNCHANGED <<list, live, msg_obj>>
  BY DEF msg_q_unblock, cond_broadcast
<1>2. /\ rcv' \in [Receivers -> {"out", "waiting", "woken"}]
      /\ \A r \in Receivers : (rcv'[r] # "out") <=> (rcv[r] # "out")
  BY <1>1, WokenAsking DEF QueueInv
<1>3. Asking' = Asking
  BY <1>2 DEF Asking
<1>4. Contents' = Contents
  BY <1>1 DEF Contents
<1>5. Abstract!Close
  BY <1>1, <1>3, <1>4 DEF Abstract!Close, Asking
<1>6. QueueInv'
  BY <1>1, <1>2 DEF QueueInv
<1> QED
  BY <1>5, <1>6 DEF FifoStep, Abstract!FifoNext

(* msg_q_snd sends, or, when malloc fails, only wakes.                     *)
LEMMA QueueSendStep ==
    ASSUME QueueInv, NEW m \in Messages, msg_q_snd(m)
    PROVE  QueueInv' /\ FifoStep
<1>1. live /\ ~unblocked /\ UNCHANGED <<live, unblocked, msg_obj>>
  BY DEF msg_q_snd
<1>2. \E set \in SUBSET Waiting : rcv' = rcv \/ rcv' = Woken(set)
  BY DEF msg_q_snd, cond_signal
<1>3. /\ rcv' \in [Receivers -> {"out", "waiting", "woken"}]
      /\ \A r \in Receivers : (rcv'[r] # "out") <=> (rcv[r] # "out")
  BY <1>2, WokenAsking DEF QueueInv
<1>4. Asking' = Asking
  BY <1>3 DEF Asking
<1>5. PICK s : Chain(list, s)
  BY DEF QueueInv
<1>6. CASE UNCHANGED list
  <2>1. QueueInv'
    BY <1>1, <1>3, <1>6 DEF QueueInv
  <2>2. Contents' = Contents
    BY <1>6 DEF Contents
  <2> QED
    BY <1>1, <1>4, <2>1, <2>2 DEF FifoStep, Abstract!fifoVars, Asking
<1>7. ASSUME NEW e \in Elements \ Allocated(list), list' = linked_list_add(list, e, m)
      PROVE  QueueInv' /\ FifoStep
  <2>1. Chain(list', Append(s, e))
    BY <1>5, <1>7, AddIs
  <2>2. Contents' = Append(Contents, m)
    BY <1>5, <1>7, <2>1, ContentsAre, AddValues
  <2>3. Abstract!Send(m)
    BY <1>1, <1>4, <2>2 DEF Abstract!Send, Asking
  <2>4. QueueInv'
    BY <1>1, <1>3, <2>1 DEF QueueInv
  <2> QED
    BY <2>3, <2>4 DEF FifoStep, Abstract!FifoNext
<1> QED
  BY <1>6, <1>7 DEF msg_q_snd

(* A receiver takes the first message, waits, or is let go.                *)
LEMMA QueueReceiveStep ==
    ASSUME QueueInv, NEW r \in Receivers, msg_q_rcv(r) \/ RcvWake(r)
    PROVE  QueueInv' /\ FifoStep
<1>1. WaitOrRemove(r) /\ UNCHANGED <<live, unblocked>>
  BY DEF msg_q_rcv, RcvWake
<1>2. live
  BY DEF msg_q_rcv, RcvWake, QueueInv
<1>3. PICK s : Chain(list, s)
  BY DEF QueueInv
<1>4. (list.tail = Null <=> s = <<>>) /\ (linked_list_empty(list) <=> s = <<>>)
  BY <1>3, EmptyEnds DEF linked_list_empty
<1>5. Contents = Values(list, s) /\ (Contents = <<>> <=> s = <<>>)
  BY <1>3, ContentsAre, ValuesSeq
<1>6. CASE linked_list_empty(list) /\ ~unblocked
  <2>1. rcv' = [rcv EXCEPT ![r] = "waiting"] /\ UNCHANGED <<list, msg_obj>>
    BY <1>1, <1>6 DEF WaitOrRemove
  <2>2. QueueInv'
    BY <1>1, <1>2, <1>3, <2>1 DEF QueueInv
  <2>3. Contents' = Contents
    BY <2>1 DEF Contents
  <2>4. Asking' = Asking \cup {r}
    BY <2>1 DEF Asking, QueueInv
  <2>5. CASE r \in Asking
    <3>1. Asking' = Asking
      BY <2>4, <2>5
    <3> QED
      BY <1>1, <2>1, <2>2, <2>3, <3>1 DEF FifoStep, Abstract!fifoVars, Asking
  <2>6. CASE r \notin Asking
    <3>1. Abstract!Ask(r)
      BY <1>1, <1>2, <1>4, <1>5, <1>6, <2>1, <2>3, <2>4, <2>6 DEF Abstract!Ask, Asking
    <3> QED
      BY <2>2, <3>1 DEF FifoStep, Abstract!FifoNext
  <2> QED
    BY <2>5, <2>6
<1>7. CASE ~(linked_list_empty(list) /\ ~unblocked)
  <2>1. Remove(r)
    BY <1>1, <1>7 DEF WaitOrRemove
  <2>2. rcv' = [rcv EXCEPT ![r] = "out"]
    BY <2>1 DEF Remove
  <2>3. rcv' \in [Receivers -> {"out", "waiting", "woken"}]
    BY <2>2 DEF QueueInv
  <2>4. Asking' = Asking \ {r}
    BY <2>2 DEF Asking, QueueInv
  <2>5. CASE list.tail = Null
    <3>1. UNCHANGED <<list, msg_obj>>
      BY <2>1, <2>5 DEF Remove
    <3>2. Contents' = Contents /\ Contents = <<>>
      BY <1>4, <1>5, <2>5, <3>1 DEF Contents
    <3>3. unblocked
      BY <1>4, <1>7, <2>5
    <3>4. r \in Asking
      BY <3>3 DEF msg_q_rcv, RcvWake, Asking
    <3>5. Abstract!LetGo(r)
      BY <1>1, <2>4, <3>1, <3>2, <3>3, <3>4 DEF Abstract!LetGo, Asking
    <3>6. QueueInv'
      BY <1>1, <1>2, <1>3, <2>3, <3>1 DEF QueueInv
    <3>7. Abstract!Serve
      BY <3>4, <3>5 DEF Abstract!Serve, Asking
    <3> QED
      BY <3>6, <3>7 DEF FifoStep, Abstract!FifoNext
  <2>6. CASE list.tail # Null
    <3>1. /\ msg_obj' = [msg_obj EXCEPT ![r] = {list.data[list.tail]}]
          /\ list' = linked_list_remove(list)
      BY <2>1, <2>6 DEF Remove
    <3>2. s # <<>>
      BY <1>4, <2>6
    <3>3. Chain(list', Tail(s))
      BY <1>3, <3>1, <3>2, RemoveIs
    <3>4. /\ Contents' = Tail(Contents) /\ Contents # <<>>
          /\ list.data[list.tail] = Head(Contents)
      BY <1>3, <1>5, <3>1, <3>2, <3>3, ContentsAre, RemoveValues
    <3>5. Abstract!Deliver(r)
      BY <1>1, <2>4, <3>1, <3>4 DEF Abstract!Deliver, Asking
    <3>6. QueueInv'
      BY <1>1, <1>2, <2>3, <3>3 DEF QueueInv
    <3> QED
      BY <3>5, <3>6 DEF FifoStep, Abstract!FifoNext
  <2> QED
    BY <2>5, <2>6
<1> QED
  BY <1>6, <1>7

(* A spurious wake-up is no step of the abstract queue.                    *)
LEMMA QueueSpuriousStep ==
    ASSUME QueueInv, NEW r \in Receivers, Spurious(r)
    PROVE  QueueInv' /\ FifoStep
<1>1. rcv' = Woken({r}) /\ {r} \subseteq Waiting /\ UNCHANGED <<list, live, unblocked, msg_obj>>
  BY DEF Spurious, Waiting
<1>2. /\ rcv' \in [Receivers -> {"out", "waiting", "woken"}]
      /\ \A q \in Receivers : (rcv'[q] # "out") <=> (rcv[q] # "out")
  BY <1>1, WokenAsking DEF QueueInv
<1>3. Asking' = Asking
  BY <1>2 DEF Asking
<1>4. Contents' = Contents
  BY <1>1 DEF Contents
<1>5. QueueInv'
  BY <1>1, <1>2 DEF QueueInv
<1> QED
  BY <1>1, <1>3, <1>4, <1>5 DEF FifoStep, Abstract!fifoVars, Asking

(* Every step of msg_q.c keeps the list whole and is one of the abstract   *)
(* queue, or none.                                                         *)
LEMMA QueueStep ==
    ASSUME QueueInv, [QueueNext]_queueVars
    PROVE  QueueInv' /\ FifoStep
<1>1. CASE UNCHANGED queueVars
  <2>1. QueueInv'
    BY <1>1 DEF QueueInv, queueVars
  <2>2. Contents' = Contents /\ Asking' = Asking
    BY <1>1 DEF Contents, Asking, queueVars
  <2> QED
    BY <1>1, <2>1, <2>2 DEF FifoStep, Abstract!fifoVars, Asking, queueVars
<1>2. CASE QueueNext
  BY <1>2, QueueInitStep, QueueFlushStep, QueueUnblockStep, QueueSendStep,
     QueueReceiveStep, QueueSpuriousStep DEF QueueNext
<1> QED
  BY <1>1, <1>2

(* The message queue of msg_q.c and linked_list.c implements the abstract  *)
(* one, for any number of messages, receivers, elements and queues: every  *)
(* step is one the abstract queue allows.                                  *)
THEOREM QueueRefinesFifo == QueueSpec => Abstract!FifoSafe
<1>1. QueueInit => QueueInv
  BY EmptyChain DEF QueueInit, QueueInv
<1>2. QueueInit => Abstract!FifoInit
  <2> SUFFICES ASSUME QueueInit PROVE Abstract!FifoInit
    OBVIOUS
  <2>1. Contents = <<>>
    BY EmptyChain, ContentsAre, ValuesSeq DEF QueueInit
  <2> QED
    BY <2>1 DEF Abstract!FifoInit, QueueInit
<1>3. QueueInv /\ [QueueNext]_queueVars => QueueInv'
  BY QueueStep
<1>4. QueueInv /\ [QueueNext]_queueVars => [Abstract!FifoNext]_(Abstract!fifoVars)
  BY QueueStep DEF FifoStep
<1> QED
  BY <1>1, <1>2, <1>3, <1>4, PTL DEF QueueSpec, Abstract!FifoSafe
=============================================================================
