------------------------------ MODULE RilEvent ------------------------------
(***************************************************************************)
(* libril's event loop: ril_event.cpp and the start-up and wake-up code of *)
(* ril.cpp that drives it (eventLoop, triggerEvLoop, rilEventAddWakeup,    *)
(* processWakeupCallback, internalRequestTimedCallback).                   *)
(*                                                                         *)
(* One loop thread runs select() and the callbacks.  Other threads (the    *)
(* main thread in RIL_register, the vendor RIL's threads in                *)
(* RIL_requestTimedCallback) add events and timers under listMutex and     *)
(* then write a byte into the wake-up pipe.  The loop copies readFds,      *)
(* reads the first timer and reads nfds without the mutex, so each of      *)
(* these reads is a step of its own.  Locals are reset once they are dead. *)
(*                                                                         *)
(* A callback is modelled by the library calls it may make, one per step;  *)
(* RilSession has the callbacks that ril.cpp installs.                     *)
(***************************************************************************)
EXTENDS RilWatch, Sequences

CONSTANTS
    Timers,       \* the ril_event objects of timed callbacks
    Threads,      \* threads other than the loop thread
    Wakeup,       \* s_wakeupfd_event, a member of Events
    FdOf,         \* the descriptor of each event
    Persistent,   \* the events that were set with persist = true
    Delays,       \* relative times given to ril_timer_add
    MaxTime,      \* bound: the clock stops here
    PipeCap       \* capacity of the wake-up pipe: a write to a full pipe blocks

ASSUME EventAssumption ==
    /\ Wakeup \in Events
    /\ FdOf \in [Events -> Fds]
    /\ \A e, f \in Events : e # f => FdOf[e] # FdOf[f]
    /\ Persistent \subseteq Events /\ Wakeup \in Persistent
    /\ Delays \subseteq Nat /\ MaxTime \in Nat
    /\ PipeCap \in Nat \ {0}
    /\ IsFiniteSet(Events) /\ Cardinality(Events) <= MAX_FD_EVENTS  \* ril.cpp has 5 events, 8 slots
    /\ NULL \notin Threads
    /\ Events \cap Timers = {} /\ NULL \notin Timers

NoDeadline == -1
Time == 0 .. MaxTime

VARIABLES
    watch,        \* the watch table (RilWatch)
    timer_list,   \* armed timers, by deadline
    timeout,      \* the timeout field of each timer
    pending_list, \* events and timers to fire
    listMutex,    \* the thread inside ril_event_add, or NULL
    now,          \* the monotonic clock
    readable,     \* descriptors other than the pipe with unread input
    pipe,         \* bytes in the wake-up pipe
    s_started,    \* threads may call the library
    lpc,          \* where the loop thread is
    rfds,         \* the loop's copy of readFds, then select's result
    sel_nfds,     \* the nfds select was called with
    deadline,     \* when select times out
    cur,          \* the event or timer whose callback runs
    tpc,          \* where each other thread is
    tev           \* the event it is adding

libVars  == <<watch, timer_list, timeout, pending_list, listMutex>>
loopVars == <<lpc, rfds, sel_nfds, deadline, cur>>
thrVars  == <<tpc, tev>>
vars == <<libVars, loopVars, thrVars, now, readable, pipe, s_started>>

ClientEvents == Events \ {Wakeup}
WakeupFd == FdOf[Wakeup]
Members(s) == {s[i] : i \in 1 .. Len(s)}
-----------------------------------------------------------------------------
(* ril_timer_add walks past every timer with an earlier deadline and links *)
(* the new one in front of the first that is not earlier.                  *)
InsertPos(list, d) ==
    {k \in 1 .. (Len(list) + 1) :
        /\ \A j \in 1 .. (k - 1) : timeout[list[j]] < d
        /\ k <= Len(list) => timeout[list[k]] >= d}
InsertAt(list, k, tm) ==
    [i \in 1 .. (Len(list) + 1) |->
        IF i < k THEN list[i] ELSE IF i = k THEN tm ELSE list[i - 1]]

ril_timer_add(tm, d) ==
    /\ tm \notin Members(timer_list) \cup Members(pending_list) \cup {cur}
    /\ now + d < MaxTime
    /\ \E k \in InsertPos(timer_list, now + d) : timer_list' = InsertAt(timer_list, k, tm)
    /\ timeout' = [timeout EXCEPT ![tm] = now + d]

(* Faulty variant: the comparison the wrong way round.                     *)
ExpiredInverted ==
    {k \in 0 .. Len(timer_list) :
        /\ \A j \in 1 .. k : now < timeout[timer_list[j]]
        /\ k < Len(timer_list) => ~(now < timeout[timer_list[k + 1]])}

(* How many timers at the head of the list are due: now > timeout.         *)
Expired ==
    {k \in 0 .. Len(timer_list) :
        /\ \A j \in 1 .. k : now > timeout[timer_list[j]]
        /\ k < Len(timer_list) => ~(now > timeout[timer_list[k + 1]])}

(* The enumeration of a set of slots in table order.                       *)
InTableOrder(slots) ==
    {s \in [1 .. Cardinality(slots) -> slots] :
        \A i, j \in 1 .. Cardinality(slots) : i < j => s[i] < s[j]}
-----------------------------------------------------------------------------
(* Threads other than the loop.                                            *)

(* rilEventAddWakeup: ril_event_add, its two writes, then triggerEvLoop.   *)
AddEvent(t, e) ==
    /\ s_started /\ tpc[t] = "idle" /\ listMutex = NULL
    /\ ~Watched(watch, e) /\ e # cur /\ e \notin Members(pending_list)
    /\ listMutex' = t
    /\ watch' = AddSlot(watch, e)
    /\ tpc' = [tpc EXCEPT ![t] = "nfds"]
    /\ tev' = [tev EXCEPT ![t] = e]
    /\ UNCHANGED <<timer_list, timeout, pending_list, loopVars, now, readable, pipe, s_started>>

(* Faulty variant: no wake-up byte, as if ril_event_add alone were called. *)
AddEventNfdsSilent(t) ==
    /\ tpc[t] = "nfds"
    /\ watch' = AddNfds(watch, tev[t])
    /\ listMutex' = NULL
    /\ tpc' = [tpc EXCEPT ![t] = "idle"]
    /\ tev' = [tev EXCEPT ![t] = NULL]
    /\ UNCHANGED <<timer_list, timeout, pending_list, loopVars, now, readable, pipe, s_started>>

AddEventNfds(t) ==
    /\ tpc[t] = "nfds"
    /\ watch' = AddNfds(watch, tev[t])
    /\ listMutex' = NULL
    /\ tpc' = [tpc EXCEPT ![t] = "trigger"]
    /\ tev' = [tev EXCEPT ![t] = NULL]
    /\ UNCHANGED <<timer_list, timeout, pending_list, loopVars, now, readable, pipe, s_started>>

(* internalRequestTimedCallback: ril_timer_add, then triggerEvLoop.        *)
AddTimer(t, tm, d) ==
    /\ s_started /\ tpc[t] = "idle" /\ listMutex = NULL
    /\ ril_timer_add(tm, d)
    /\ tpc' = [tpc EXCEPT ![t] = "trigger"]
    /\ UNCHANGED <<watch, pending_list, listMutex, loopVars, tev, now, readable, pipe, s_started>>

(* triggerEvLoop: before eventLoop has created the pipe s_fdWakeupWrite is *)
(* 0 and the byte goes to standard input; a full pipe blocks the writer.   *)
TriggerEvLoop(t) ==
    /\ tpc[t] = "trigger"
    /\ IF lpc \in {"init", "pipe"} THEN UNCHANGED pipe
       ELSE pipe < PipeCap /\ pipe' = pipe + 1
    /\ tpc' = [tpc EXCEPT ![t] = "idle"]
    /\ UNCHANGED <<libVars, loopVars, tev, now, readable, s_started>>
-----------------------------------------------------------------------------
(* The loop thread: eventLoop up to the call of ril_event_loop.            *)
Start ==
    /\ lpc = "init"
    /\ s_started' = TRUE
    /\ lpc' = "pipe"
    /\ UNCHANGED <<libVars, rfds, sel_nfds, deadline, cur, thrVars, now, readable, pipe>>

CreatePipe ==
    /\ lpc = "pipe"
    /\ lpc' = "addWakeup"
    /\ UNCHANGED <<libVars, rfds, sel_nfds, deadline, cur, thrVars, now, readable, pipe, s_started>>

AddWakeup ==
    /\ lpc = "addWakeup" /\ listMutex = NULL
    /\ watch' = EventAdd(watch, Wakeup)
    /\ lpc' = "copy"
    /\ UNCHANGED <<timer_list, timeout, pending_list, listMutex, rfds, sel_nfds, deadline, cur,
                   thrVars, now, readable, pipe, s_started>>

(* ril_event_loop, without listMutex: the copy of readFds ...              *)
CopyReadFds ==
    /\ lpc = "copy"
    /\ rfds' = watch.readFds
    /\ lpc' = "calc"
    /\ UNCHANGED <<libVars, sel_nfds, deadline, cur, thrVars, now, readable, pipe, s_started>>

(* ... calcNextTimeout: the time until the first timer, or no timeout.     *)
(* The interval is kept as the moment it ends.                             *)
CalcNextTimeout ==
    /\ lpc = "calc"
    /\ deadline' = IF timer_list = <<>> THEN NoDeadline
                   ELSE IF timeout[timer_list[1]] > now THEN timeout[timer_list[1]] ELSE now
    /\ lpc' = "enter"
    /\ UNCHANGED <<libVars, rfds, sel_nfds, cur, thrVars, now, readable, pipe, s_started>>

(* ... and the call of select with nfds.                                   *)
EnterSelect ==
    /\ lpc = "enter"
    /\ sel_nfds' = watch.nfds
    /\ lpc' = "select"
    /\ UNCHANGED <<libVars, rfds, deadline, cur, thrVars, now, readable, pipe, s_started>>

ReadableFds == readable \cup (IF pipe > 0 THEN {WakeupFd} ELSE {})
SelectResult == {f \in rfds : f < sel_nfds /\ f \in ReadableFds}

SelectReturn ==
    /\ lpc = "select"
    /\ \/ SelectResult # {}
       \/ deadline # NoDeadline /\ now >= deadline
    /\ rfds' = SelectResult
    /\ sel_nfds' = 0 /\ deadline' = NoDeadline
    /\ lpc' = "timeouts"
    /\ UNCHANGED <<libVars, cur, thrVars, now, readable, pipe, s_started>>

(* EINTR: select reports a signal only when it has nothing else to report. *)
SelectInterrupted ==
    /\ lpc = "select" /\ SelectResult = {}
    /\ sel_nfds' = 0 /\ deadline' = NoDeadline /\ rfds' = {}
    /\ lpc' = "copy"
    /\ UNCHANGED <<libVars, cur, thrVars, now, readable, pipe, s_started>>

ProcessTimeouts ==
    /\ lpc = "timeouts" /\ listMutex = NULL
    /\ \E k \in Expired :
          /\ pending_list' = pending_list \o SubSeq(timer_list, 1, k)
          /\ timer_list' = SubSeq(timer_list, k + 1, Len(timer_list))
    /\ lpc' = "ready"
    /\ UNCHANGED <<watch, timeout, listMutex, rfds, sel_nfds, deadline, cur, thrVars, now,
                   readable, pipe, s_started>>

ProcessReadReadies ==
    /\ lpc = "ready" /\ listMutex = NULL
    /\ \E s \in InTableOrder(ReadySlots(watch, rfds)) :
          pending_list' = pending_list \o [k \in DOMAIN s |-> watch.table[s[k]]]
    /\ watch' = DropOneShots(watch, ReadySlots(watch, rfds))
    /\ rfds' = {}
    /\ lpc' = "fire"
    /\ UNCHANGED <<timer_list, timeout, listMutex, sel_nfds, deadline, cur, thrVars, now,
                   readable, pipe, s_started>>

(* firePending takes the head off the list, without listMutex: only the    *)
(* loop thread touches pending_list.                                       *)
FirePending ==
    /\ lpc = "fire" /\ pending_list # <<>>
    /\ cur' = Head(pending_list)
    /\ pending_list' = Tail(pending_list)
    /\ lpc' = "callback"
    /\ UNCHANGED <<watch, timer_list, timeout, listMutex, rfds, sel_nfds, deadline, thrVars, now,
                   readable, pipe, s_started>>

FireDone ==
    /\ lpc = "fire" /\ pending_list = <<>>
    /\ lpc' = "copy"
    /\ UNCHANGED <<libVars, rfds, sel_nfds, deadline, cur, thrVars, now, readable, pipe, s_started>>
-----------------------------------------------------------------------------
(* What a callback may do on the loop thread; no wake-up byte is written.  *)
InCallback == lpc = "callback"

CallbackDel(e) ==
    /\ InCallback /\ cur \in ClientEvents /\ listMutex = NULL
    /\ watch' = EventDel(watch, e)
    /\ UNCHANGED <<timer_list, timeout, pending_list, listMutex, loopVars, thrVars, now, readable,
                   pipe, s_started>>

CallbackAdd(e) ==
    /\ InCallback /\ cur \in ClientEvents /\ listMutex = NULL
    /\ ~Watched(watch, e)
    /\ watch' = EventAdd(watch, e)
    /\ UNCHANGED <<timer_list, timeout, pending_list, listMutex, loopVars, thrVars, now, readable,
                   pipe, s_started>>

CallbackTimer(tm, d) ==
    /\ InCallback /\ cur # Wakeup /\ listMutex = NULL
    /\ ril_timer_add(tm, d)
    /\ UNCHANGED <<watch, pending_list, listMutex, loopVars, thrVars, now, readable, pipe,
                   s_started>>

(* processWakeupCallback empties the pipe; another callback reads its      *)
(* descriptor dry or, reading too little, leaves it readable.              *)
CallbackReturn ==
    /\ InCallback
    /\ IF cur = Wakeup THEN pipe' = 0 /\ UNCHANGED readable
       ELSE /\ UNCHANGED pipe
            /\ \/ UNCHANGED readable
               \/ cur \in Events /\ readable' = readable \ {FdOf[cur]}
    /\ cur' = NULL
    /\ lpc' = "fire"
    /\ UNCHANGED <<libVars, rfds, sel_nfds, deadline, thrVars, now, s_started>>
-----------------------------------------------------------------------------
(* The environment: the clock, and input on a descriptor.                  *)
Tick ==
    /\ now < MaxTime
    /\ now' = now + 1
    /\ UNCHANGED <<libVars, loopVars, thrVars, readable, pipe, s_started>>

Arrive(e) ==
    /\ FdOf[e] \notin readable
    /\ readable' = readable \cup {FdOf[e]}
    /\ UNCHANGED <<libVars, loopVars, thrVars, now, pipe, s_started>>

Init ==
    /\ watch = NoWatch(FdOf, [e \in Events |-> e \in Persistent])
    /\ timer_list = <<>> /\ pending_list = <<>>
    /\ timeout = [tm \in Timers |-> 0]
    /\ listMutex = NULL
    /\ now = 0 /\ readable = {} /\ pipe = 0
    /\ s_started = FALSE /\ lpc = "init"
    /\ rfds = {} /\ sel_nfds = 0 /\ deadline = NoDeadline /\ cur = NULL
    /\ tpc = [t \in Threads |-> "idle"]
    /\ tev = [t \in Threads |-> NULL]

ThreadStep(t) ==
    \/ \E e \in ClientEvents : AddEvent(t, e)
    \/ AddEventNfds(t)
    \/ \E tm \in Timers, d \in Delays : AddTimer(t, tm, d)
    \/ TriggerEvLoop(t)

LoopStep ==
    \/ Start \/ CreatePipe \/ AddWakeup
    \/ CopyReadFds \/ CalcNextTimeout \/ EnterSelect \/ SelectReturn
    \/ ProcessTimeouts \/ ProcessReadReadies \/ FirePending \/ FireDone
    \/ CallbackReturn

CallbackStep ==
    \/ \E e \in ClientEvents : CallbackDel(e) \/ CallbackAdd(e)
    \/ \E tm \in Timers, d \in Delays : CallbackTimer(tm, d)

Next ==
    \/ \E t \in Threads : ThreadStep(t)
    \/ LoopStep \/ CallbackStep \/ SelectInterrupted
    \/ Tick
    \/ \E e \in ClientEvents : Arrive(e)

Spec == Init /\ [][Next]_vars

(* The loop thread and a thread inside a library call are never stopped    *)
(* for ever by the scheduler, time passes, and signals do not interrupt    *)
(* every single select().                                                  *)
Fairness ==
    /\ WF_vars(LoopStep) /\ SF_vars(SelectReturn) /\ WF_vars(Tick)
    /\ \A t \in Threads : WF_vars(AddEventNfds(t)) /\ WF_vars(TriggerEvLoop(t))
FairSpec == Spec /\ Fairness
-----------------------------------------------------------------------------
TypeOK ==
    /\ watch \in Watch
    /\ timer_list \in Seq(Timers)
    /\ timeout \in [Timers -> Time]
    /\ pending_list \in Seq(Events \cup Timers)
    /\ listMutex \in Threads \cup {NULL}
    /\ now \in Time
    /\ readable \subseteq Fds
    /\ pipe \in 0 .. PipeCap
    /\ s_started \in BOOLEAN
    /\ lpc \in {"init", "pipe", "addWakeup", "copy", "calc", "enter", "select", "timeouts",
                 "ready", "fire", "callback"}
    /\ rfds \subseteq Fds
    /\ sel_nfds \in 0 .. (MaxFd + 1)
    /\ deadline \in Time \cup {NoDeadline}
    /\ cur \in Events \cup Timers \cup {NULL}
    /\ tpc \in [Threads -> {"idle", "nfds", "trigger"}]
    /\ tev \in [Threads -> Events \cup {NULL}]

(* Between ril_event_add's FD_SET and its update of nfds only the event    *)
(* being added may lie beyond nfds.                                        *)
BeingAdded(e) == \E t \in Threads : tpc[t] = "nfds" /\ tev[t] = e

(* The watch table stays usable under every interleaving of adds, deletes, *)
(* one-shot removals and the loop: slots and index fields agree, readFds   *)
(* holds exactly the watched descriptors, and select's nfds covers every   *)
(* watched descriptor except that of an add in progress.                   *)
TableConsistent ==
    /\ IndexOK(watch) /\ FdsOK(watch)
    /\ \A e \in Events : Watched(watch, e) => watch.fd[e] < watch.nfds \/ BeingAdded(e)

(* Somebody has written, or is about to write, the byte that pops the loop *)
(* out of select().                                                        *)
WakeComing == pipe > 0 \/ \E t \in Threads : tpc[t] \in {"nfds", "trigger"}

(* Lost wake-ups: when the loop is committed to a select() that does not   *)
(* cover a watched event, or that sleeps past the first timer, a wake-up   *)
(* byte is in the pipe or on its way, and the select covers the pipe.      *)
NoLostWakeup ==
    /\ lpc \in {"calc", "enter", "select"} =>
          \A e \in Events :
             Watched(watch, e) /\ (watch.fd[e] \notin rfds
                                   \/ (lpc = "select" /\ watch.fd[e] >= sel_nfds))
             => WakeComing
    /\ lpc \in {"enter", "select"} /\ timer_list # <<>> =>
          \/ deadline # NoDeadline /\ (deadline <= timeout[timer_list[1]] \/ deadline <= now)
          \/ WakeComing
    /\ lpc = "select" => WakeupFd \in rfds /\ WakeupFd < sel_nfds

(* A timer is armed until its callback runs: in timer_list, then, due, in  *)
(* pending_list.                                                           *)
Service == INSTANCE RilTimerService WITH
    armed <- Members(timer_list) \cup (Members(pending_list) \cap Timers),
    due   <- timeout

(* The event loop implements the timer service: no callback early, none    *)
(* twice, and always the earliest deadline first.                          *)
TimerService == Service!TSpec

(* Every armed timer's callback runs, whatever the other threads do.       *)
TimersFire == \A tm \in Timers : (tm \in Members(timer_list)) ~> (cur = tm)

(* A watched descriptor with input gets its callback, unless some callback *)
(* deletes the event first.                                                *)
ReadyServed ==
    \A e \in ClientEvents :
        (Watched(watch, e) /\ FdOf[e] \in readable) ~> (cur = e \/ ~Watched(watch, e))

(* Both kinds of event are served by the one loop: neither timers that are *)
(* re-armed nor descriptors that stay readable starve the other.           *)
EventsServed == TimersFire /\ ReadyServed
=============================================================================
