--------------------------- MODULE RilEventProofs ---------------------------
(***************************************************************************)
(* libril's event loop, proved for any number of events, timers, threads   *)
(* and slots: type correctness, the consistency of the watch table, the    *)
(* absence of lost wake-ups, and that it implements the timer service.     *)
(***************************************************************************)
EXTENDS RilEvent, RilWatchProofs, FiniteSetTheorems

(* A thread between ril_event_add's two writes is inside listMutex.        *)
Holding == \A t \in Threads : tpc[t] = "nfds" => tev[t] \in ClientEvents /\ listMutex = t

(* The descriptor and the persist flag of an event never change.           *)
EventsFixed == watch.fd = FdOf /\ watch.persist = [e \in Events |-> e \in Persistent]

(* From rilEventAddWakeup(&s_wakeupfd_event) on, and not before, the loop   *)
(* watches the read end of the wake-up pipe.                               *)
WakeupWatched == Watched(watch, Wakeup) <=> lpc \notin {"init", "pipe", "addWakeup"}

TypeInv  == TypeOK /\ Holding
TableInv == TypeInv /\ EventsFixed /\ WakeupWatched /\ TableConsistent

(* The types of the state as facts the provers can use one by one.         *)
LEMMA Constants ==
    /\ MAX_FD_EVENTS \in Nat \ {0} /\ MaxFd \in Nat /\ MaxTime \in Nat /\ PipeCap \in Nat \ {0}
    /\ Wakeup \in Events /\ FdOf \in [Events -> Fds] /\ Delays \subseteq Nat
    /\ NULL \notin Events /\ NULL \notin Threads /\ NULL \notin Timers
    /\ ClientEvents \subseteq Events
    /\ Fds \subseteq Nat
BY WatchAssumption, EventAssumption DEF ClientEvents, Fds

(* The slots that processReadReadies visits hold events, and there are     *)
(* finitely many of them.                                                  *)
LEMMA ReadySlotsType ==
    ASSUME NEW w \in Watch, NEW r
    PROVE  /\ ReadySlots(w, r) \in SUBSET Slots
           /\ \A i \in ReadySlots(w, r) : w.table[i] \in Events
           /\ Cardinality(ReadySlots(w, r)) \in Nat
<1>1. ReadySlots(w, r) \in SUBSET Slots /\ \A i \in ReadySlots(w, r) : w.table[i] \in Events
  BY DEF ReadySlots, Watch
<1>2. IsFiniteSet(Slots)
  BY FS_Interval, Constants DEF Slots
<1> QED
  BY <1>1, <1>2, FS_Subset, FS_CardinalityType

(* The events that processReadReadies queues.                              *)
LEMMA ReadyQueueType ==
    ASSUME NEW w \in Watch, NEW r, NEW s \in InTableOrder(ReadySlots(w, r))
    PROVE  [k \in DOMAIN s |-> w.table[s[k]]] \in Seq(Events \cup Timers)
<1> DEFINE n == Cardinality(ReadySlots(w, r))
<1>1. n \in Nat /\ \A i \in ReadySlots(w, r) : w.table[i] \in Events
  BY ReadySlotsType
<1>2. s \in [1 .. n -> ReadySlots(w, r)]
  BY DEF InTableOrder
<1> HIDE DEF n
<1>3. DOMAIN s = 1 .. n /\ \A k \in DOMAIN s : w.table[s[k]] \in Events \cup Timers
  BY <1>1, <1>2
<1> QED
  BY <1>1, <1>3

(* ril_timer_add keeps the timer list and the deadlines well typed.        *)
LEMMA TimerAddType ==
    ASSUME TypeOK, NEW tm \in Timers, NEW d \in Delays, ril_timer_add(tm, d)
    PROVE  timer_list' \in Seq(Timers) /\ timeout' \in [Timers -> Time]
<1>1. PICK k \in InsertPos(timer_list, now + d) : timer_list' = InsertAt(timer_list, k, tm)
  BY DEF ril_timer_add
<1>2. timer_list \in Seq(Timers) /\ Len(timer_list) \in Nat
  BY DEF TypeOK
<1>3. k \in 1 .. (Len(timer_list) + 1)
  BY DEF InsertPos
<1>4. InsertAt(timer_list, k, tm) \in [1 .. (Len(timer_list) + 1) -> Timers]
  <2>1. ASSUME NEW i \in 1 .. (Len(timer_list) + 1)
        PROVE  (IF i < k THEN timer_list[i] ELSE IF i = k THEN tm ELSE timer_list[i - 1]) \in Timers
    <3>1. CASE i < k
      BY <1>2, <1>3, <3>1
    <3>2. CASE i = k
      BY <1>2, <1>3, <3>2
    <3>3. CASE i > k
      <4>1. i - 1 \in 1 .. Len(timer_list)
        BY <1>2, <1>3, <3>3
      <4> QED
        BY <1>2, <1>3, <3>3, <4>1
    <3> QED
      BY <1>2, <1>3, <3>1, <3>2, <3>3
  <2> QED
    BY <2>1 DEF InsertAt
<1>5. timer_list' \in Seq(Timers)
  BY <1>1, <1>2, <1>4
<1>6. now + d \in Time
  BY Constants DEF ril_timer_add, TypeOK, Time
<1> QED
  BY <1>5, <1>6 DEF ril_timer_add, TypeOK

(* The table operations of the actions keep the table well typed.          *)
LEMMA WatchType ==
    ASSUME NEW w \in Watch
    PROVE  /\ \A e \in Events : AddSlot(w, e) \in Watch /\ AddNfds(w, e) \in Watch
           /\ \A e \in Events : EventAdd(w, e) \in Watch /\ EventDel(w, e) \in Watch
           /\ \A r : DropOneShots(w, ReadySlots(w, r)) \in Watch
<1>1. ASSUME NEW e \in Events PROVE AddSlot(w, e) \in Watch /\ AddNfds(w, e) \in Watch
  BY AddSlotFields, AddNfdsFields
<1>2. ASSUME NEW e \in Events PROVE EventAdd(w, e) \in Watch
  BY AddSlotFields, AddNfdsFields DEF EventAdd
<1>3. ASSUME NEW e \in Events PROVE EventDel(w, e) \in Watch
  <2>1. w.index[e] \in Slots => {w.index[e]} \in SUBSET Slots
    OBVIOUS
  <2> QED
    BY <2>1, RemoveWatchFields DEF EventDel
<1>4. ASSUME NEW r PROVE DropOneShots(w, ReadySlots(w, r)) \in Watch
  <2>1. {i \in ReadySlots(w, r) : ~w.persist[w.table[i]]} \in SUBSET Slots
    BY ReadySlotsType
  <2> QED
    BY <2>1, RemoveWatchFields DEF DropOneShots
<1> QED
  BY <1>1, <1>2, <1>3, <1>4
-----------------------------------------------------------------------------
LEMMA TypeInit == Init => TypeInv
<1> SUFFICES ASSUME Init PROVE TypeInv
  OBVIOUS
<1>1. watch \in Watch
  BY Constants DEF Init, NoWatch, Watch
<1>2. <<>> \in Seq(Timers) /\ <<>> \in Seq(Events \cup Timers)
  OBVIOUS
<1>3. 0 \in Time /\ 0 \in 0 .. PipeCap /\ 0 \in 0 .. (MaxFd + 1)
  BY Constants DEF Time
<1> QED
  BY <1>1, <1>2, <1>3 DEF Init, TypeInv, TypeOK, Holding

(* Every step keeps the types, and a thread keeps listMutex while it is    *)
(* inside ril_event_add.                                                   *)
LEMMA TypeStep == TypeInv /\ [Next]_vars => TypeInv'
<1> SUFFICES ASSUME TypeInv, [Next]_vars PROVE TypeInv'
  OBVIOUS
<1> USE DEF TypeInv
<1>w. watch \in Watch
  BY DEF TypeOK
<1>1. CASE UNCHANGED vars
  BY <1>1 DEF TypeOK, Holding, vars, libVars, loopVars, thrVars
<1>2. ASSUME NEW t \in Threads, NEW e \in ClientEvents, AddEvent(t, e) PROVE TypeInv'
  <2>1. watch' \in Watch
    BY <1>w, <1>2, WatchType, Constants DEF AddEvent
  <2>2. \A u \in Threads : tpc[u] # "nfds"
    BY <1>2, Constants DEF AddEvent, Holding
  <2>3. TypeOK'
    BY <1>2, <2>1, Constants DEF AddEvent, TypeOK, loopVars
  <2>4. Holding'
    BY <1>2, <2>2 DEF AddEvent, TypeOK, Holding
  <2> QED
    BY <2>3, <2>4
<1>3. ASSUME NEW t \in Threads, AddEventNfds(t) PROVE TypeInv'
  <2>1. tev[t] \in Events /\ listMutex = t
    BY <1>3, Constants DEF AddEventNfds, Holding
  <2>2. watch' \in Watch
    BY <1>w, <1>3, <2>1, WatchType DEF AddEventNfds
  <2>3. TypeOK'
    BY <1>3, <2>2 DEF AddEventNfds, TypeOK, loopVars
  <2>4. Holding'
    BY <1>3, <2>1 DEF AddEventNfds, TypeOK, Holding
  <2> QED
    BY <2>3, <2>4
<1>4. ASSUME NEW t \in Threads, NEW tm \in Timers, NEW d \in Delays, AddTimer(t, tm, d)
      PROVE  TypeInv'
  <2>1. timer_list' \in Seq(Timers) /\ timeout' \in [Timers -> Time]
    BY <1>4, TimerAddType DEF AddTimer
  <2>2. TypeOK'
    BY <1>4, <2>1 DEF AddTimer, TypeOK, loopVars
  <2>3. Holding'
    BY <1>4 DEF AddTimer, TypeOK, Holding
  <2> QED
    BY <2>2, <2>3
<1>5. ASSUME NEW t \in Threads, TriggerEvLoop(t) PROVE TypeInv'
  <2>1. pipe' \in 0 .. PipeCap
    BY <1>5, Constants DEF TriggerEvLoop, TypeOK
  <2>2. TypeOK'
    BY <1>5, <2>1 DEF TriggerEvLoop, TypeOK, libVars, loopVars
  <2>3. Holding'
    BY <1>5 DEF TriggerEvLoop, TypeOK, Holding, libVars
  <2> QED
    BY <2>2, <2>3
<1>6. CASE Start
  BY <1>6 DEF Start, TypeOK, Holding, libVars, thrVars
<1>7. CASE CreatePipe
  BY <1>7 DEF CreatePipe, TypeOK, Holding, libVars, thrVars
<1>8. CASE AddWakeup
  <2>1. watch' \in Watch
    BY <1>w, <1>8, WatchType, Constants DEF AddWakeup
  <2> QED
    BY <1>8, <2>1 DEF AddWakeup, TypeOK, Holding, thrVars
<1>9. CASE CopyReadFds
  <2>1. watch.readFds \subseteq Fds
    BY <1>w DEF Watch
  <2> QED
    BY <1>9, <2>1 DEF CopyReadFds, TypeOK, Holding, libVars, thrVars
<1>10. CASE CalcNextTimeout
  <2>1. timer_list # <<>> => timer_list[1] \in Timers
    BY DEF TypeOK
  <2>2. now \in Time /\ (timer_list # <<>> => timeout[timer_list[1]] \in Time)
    BY <2>1 DEF TypeOK
  <2>3. deadline' \in Time \cup {NoDeadline}
    BY <1>10, <2>2 DEF CalcNextTimeout
  <2> QED
    BY <1>10, <2>3 DEF CalcNextTimeout, TypeOK, Holding, libVars, thrVars
<1>11. CASE EnterSelect
  <2>1. watch.nfds \in 0 .. (MaxFd + 1)
    BY <1>w DEF Watch
  <2> QED
    BY <1>11, <2>1 DEF EnterSelect, TypeOK, Holding, libVars, thrVars
<1>12. CASE SelectReturn \/ SelectInterrupted
  <2>1. SelectResult \subseteq Fds
    BY DEF SelectResult, TypeOK
  <2>2. 0 \in 0 .. (MaxFd + 1)
    BY Constants
  <2> QED
    BY <1>12, <2>1, <2>2 DEF SelectReturn, SelectInterrupted, TypeOK, Holding, libVars, thrVars
<1>13. CASE ProcessTimeouts
  <2>1. PICK k \in Expired : /\ pending_list' = pending_list \o SubSeq(timer_list, 1, k)
                             /\ timer_list' = SubSeq(timer_list, k + 1, Len(timer_list))
    BY <1>13 DEF ProcessTimeouts
  <2>2. timer_list \in Seq(Timers) /\ Len(timer_list) \in Nat /\ k \in 0 .. Len(timer_list)
    BY DEF TypeOK, Expired
  <2>3. SubSeq(timer_list, 1, k) \in Seq(Events \cup Timers)
    BY <2>2
  <2>4. SubSeq(timer_list, k + 1, Len(timer_list)) \in Seq(Timers)
    BY <2>2
  <2>5. pending_list' \in Seq(Events \cup Timers) /\ timer_list' \in Seq(Timers)
    BY <2>1, <2>3, <2>4 DEF TypeOK
  <2> QED
    BY <1>13, <2>5 DEF ProcessTimeouts, TypeOK, Holding, thrVars
<1>14. CASE ProcessReadReadies
  <2>1. watch' \in Watch
    BY <1>w, <1>14, WatchType DEF ProcessReadReadies
  <2>2. PICK s \in InTableOrder(ReadySlots(watch, rfds)) :
           pending_list' = pending_list \o [k \in DOMAIN s |-> watch.table[s[k]]]
    BY <1>14 DEF ProcessReadReadies
  <2>3. [k \in DOMAIN s |-> watch.table[s[k]]] \in Seq(Events \cup Timers)
    BY <1>w, ReadyQueueType
  <2>4. pending_list' \in Seq(Events \cup Timers)
    BY <2>2, <2>3 DEF TypeOK
  <2> QED
    BY <1>14, <2>1, <2>4 DEF ProcessReadReadies, TypeOK, Holding, thrVars
<1>15. CASE FirePending
  <2>1. Head(pending_list) \in Events \cup Timers /\ Tail(pending_list) \in Seq(Events \cup Timers)
    BY <1>15 DEF FirePending, TypeOK
  <2> QED
    BY <1>15, <2>1 DEF FirePending, TypeOK, Holding, thrVars
<1>16. CASE FireDone
  BY <1>16 DEF FireDone, TypeOK, Holding, libVars, thrVars
<1>17. CASE CallbackReturn
  <2>1. pipe' \in 0 .. PipeCap
    BY <1>17, Constants DEF CallbackReturn, TypeOK
  <2>2. readable' \subseteq Fds
    BY <1>17 DEF CallbackReturn, TypeOK
  <2> QED
    BY <1>17, <2>1, <2>2 DEF CallbackReturn, TypeOK, Holding, libVars, thrVars
<1>18. ASSUME NEW e \in ClientEvents, CallbackDel(e) \/ CallbackAdd(e) PROVE TypeInv'
  <2>1. watch' \in Watch
    BY <1>w, <1>18, WatchType, Constants DEF CallbackDel, CallbackAdd
  <2> QED
    BY <1>18, <2>1 DEF CallbackDel, CallbackAdd, TypeOK, Holding, loopVars, thrVars
<1>19. ASSUME NEW tm \in Timers, NEW d \in Delays, CallbackTimer(tm, d) PROVE TypeInv'
  <2>1. timer_list' \in Seq(Timers) /\ timeout' \in [Timers -> Time]
    BY <1>19, TimerAddType DEF CallbackTimer
  <2> QED
    BY <1>19, <2>1 DEF CallbackTimer, TypeOK, Holding, loopVars, thrVars
<1>20. CASE Tick
  <2>1. now' \in Time
    BY <1>20, Constants DEF Tick, TypeOK, Time
  <2> QED
    BY <1>20, <2>1 DEF Tick, TypeOK, Holding, libVars, loopVars, thrVars
<1>21. ASSUME NEW e \in ClientEvents, Arrive(e) PROVE TypeInv'
  <2>1. FdOf[e] \in Fds
    BY Constants
  <2> QED
    BY <1>21, <2>1 DEF Arrive, TypeOK, Holding, libVars, loopVars, thrVars
<1> QED
  BY <1>1, <1>2, <1>3, <1>4, <1>5, <1>6, <1>7, <1>8, <1>9, <1>10, <1>11, <1>12, <1>13, <1>14,
     <1>15, <1>16, <1>17, <1>18, <1>19, <1>20, <1>21
     DEF Next, ThreadStep, LoopStep, CallbackStep

(* The state of the event loop keeps its types under every interleaving of *)
(* the loop with threads in rilEventAddWakeup and RIL_requestTimedCallback.*)
THEOREM TypeCorrect == Spec => []TypeOK
<1>1. Spec => []TypeInv
  BY TypeInit, TypeStep, PTL DEF Spec
<1>2. TypeInv => TypeOK
  BY DEF TypeInv
<1> QED
  BY <1>1, <1>2, PTL
-----------------------------------------------------------------------------
(* While nobody is inside listMutex, nfds covers every watched event.      *)
LEMMA Unlocked ==
    ASSUME TableInv, listMutex = NULL
    PROVE  /\ NfdsOK(watch) /\ IndexOK(watch) /\ FdsOK(watch)
           /\ \A t \in Threads : tpc[t] # "nfds"
<1>1. \A t \in Threads : tpc[t] # "nfds"
  BY Constants DEF TableInv, TypeInv, Holding
<1> QED
  BY <1>1 DEF TableInv, TableConsistent, BeingAdded, NfdsOK

(* Distinct events have distinct descriptors, all of them real.            *)
LEMMA OwnFd ==
    ASSUME EventsFixed, NEW e \in Events
    PROVE  /\ watch.fd[e] \in Fds
           /\ \A f \in Events : f # e => watch.fd[f] # watch.fd[e]
BY Constants, EventAssumption DEF EventsFixed

(* There is a slot for every event, so rilEventAddWakeup never drops one.  *)
LEMMA RoomForEvent ==
    ASSUME NEW w \in Watch, IndexOK(w), NEW e \in Events, ~Watched(w, e)
    PROVE  FreeSlots(w) # {}
<1> SUFFICES ASSUME FreeSlots(w) = {} PROVE FALSE
  OBVIOUS
<1> DEFINE others == Events \ {e}
<1>1. \A i \in Slots : w.table[i] \in Events /\ w.index[w.table[i]] = i
  BY DEF FreeSlots, Watch, IndexOK
<1>2. \A i \in Slots : w.table[i] \in others
  <2>1. -1 \notin Slots
    BY Constants DEF Slots
  <2> QED
    BY <1>1, <2>1 DEF Watched
<1>3. w.table \in Injection(Slots, others)
  <2>1. w.table \in [Slots -> others]
    BY <1>2 DEF Watch
  <2>2. IsInjective(w.table)
    BY <1>1, <2>1 DEF IsInjective
  <2> QED
    BY <2>1, <2>2 DEF Injection
<1>4. IsFiniteSet(Events) /\ Cardinality(Events) <= MAX_FD_EVENTS /\ MAX_FD_EVENTS \in Nat \ {0}
  BY EventAssumption, Constants
<1>5. IsFiniteSet(others) /\ Cardinality(others) = Cardinality(Events) - 1
  BY <1>4, FS_RemoveElement
<1>6. Cardinality(Slots) <= Cardinality(others)
  BY <1>3, <1>5, FS_Injection
<1>7. Cardinality(Slots) = MAX_FD_EVENTS
  <2>1. 0 \in Int /\ MAX_FD_EVENTS - 1 \in Int /\ ~(0 > MAX_FD_EVENTS - 1)
    BY <1>4
  <2>2. Cardinality(0 .. (MAX_FD_EVENTS - 1)) = MAX_FD_EVENTS - 1 - 0 + 1
    BY <2>1, FS_Interval
  <2> QED
    BY <1>4, <2>2 DEF Slots
<1>8. Cardinality(Events) \in Nat
  BY <1>4, FS_CardinalityType
<1> QED
  BY <1>4, <1>5, <1>6, <1>7, <1>8

LEMMA TableInit == Init => TableInv
<1> SUFFICES ASSUME Init PROVE TableInv
  OBVIOUS
<1>1. TypeInv
  BY TypeInit
<1>2. EventsFixed /\ \A e \in Events : ~Watched(watch, e)
  BY DEF Init, NoWatch, EventsFixed, Watched
<1>3. WakeupWatched
  BY <1>2, Constants DEF Init, WakeupWatched
<1>4. IndexOK(watch) /\ FdsOK(watch)
  BY <1>2 DEF Init, NoWatch, IndexOK, FdsOK, Watched
<1> QED
  BY <1>1, <1>2, <1>3, <1>4 DEF TableInv, TableConsistent

(* The steps that work on the table outside ril_event_add.                 *)
LEMMA TableKept ==
    ASSUME TableInv, TypeInv', listMutex = NULL, UNCHANGED tpc,
           watch'.fd = watch.fd, watch'.persist = watch.persist,
           IndexOK(watch)', FdsOK(watch)', NfdsOK(watch)', WakeupWatched'
    PROVE  TableInv'
BY DEF TableInv, EventsFixed, TableConsistent, NfdsOK

LEMMA TableStep == TableInv /\ [Next]_vars => TableInv'
<1> SUFFICES ASSUME TableInv, [Next]_vars PROVE TableInv'
  OBVIOUS
<1>t. TypeInv /\ TypeInv'
  BY TypeStep DEF TableInv
<1>w. watch \in Watch /\ lpc \in {"init", "pipe", "addWakeup", "copy", "calc", "enter", "select",
                                  "timeouts", "ready", "fire", "callback"}
  BY <1>t DEF TypeInv, TypeOK
<1>f. EventsFixed /\ IndexOK(watch) /\ FdsOK(watch)
  BY DEF TableInv, TableConsistent
<1>0. ASSUME UNCHANGED <<watch, tpc, tev>>, UNCHANGED lpc PROVE TableInv'
  BY <1>t, <1>0 DEF TableInv, EventsFixed, WakeupWatched, TableConsistent, BeingAdded, IndexOK,
                    FdsOK, Watched
<1>1. ASSUME UNCHANGED <<watch, tpc, tev>>,
             \/ lpc \in {"init", "pipe"} /\ lpc' \in {"pipe", "addWakeup"}
             \/ lpc \notin {"init", "pipe", "addWakeup"} /\ lpc' \notin {"init", "pipe", "addWakeup"}
      PROVE  TableInv'
  <2>1. WakeupWatched'
    BY <1>1 DEF TableInv, WakeupWatched, Watched
  <2> QED
    BY <1>t, <1>1, <2>1 DEF TableInv, EventsFixed, TableConsistent, BeingAdded, IndexOK, FdsOK, Watched
<1>2. ASSUME NEW t \in Threads, NEW e \in ClientEvents, AddEvent(t, e) PROVE TableInv'
  <2>1. e \in Events /\ ~Watched(watch, e) /\ watch' = AddSlot(watch, e) /\ e # Wakeup
    BY <1>2 DEF AddEvent, ClientEvents
  <2>2. NfdsOK(watch)
    BY <1>2, Unlocked DEF AddEvent
  <2>3. watch.fd[e] \in Fds /\ \A f \in Events : f # e => watch.fd[f] # watch.fd[e]
    BY <1>f, <2>1, OwnFd
  <2>4. watch'.fd = watch.fd /\ watch'.persist = watch.persist /\ watch'.nfds = watch.nfds
    BY <1>w, <2>1, AddSlotFields
  <2>5. /\ IndexOK(watch)' /\ FdsOK(watch)'
        /\ \A f \in Events : f # e => (Watched(watch, f)' <=> Watched(watch, f))
    <3> DEFINE v == AddSlot(watch, e)
    <3>1. \A f \in Events : Watched(watch, f) => watch.fd[f] # watch.fd[e]
      BY <2>1, <2>3
    <3>2. /\ IndexOK(v) /\ FdsOK(v)
          /\ \A f \in Events : f # e => (Watched(v, f) <=> Watched(watch, f))
      BY <1>w, <1>f, <2>1, <2>3, <3>1, AddSlotKeepsTable
    <3> QED
      BY <2>1, <3>2 DEF IndexOK, FdsOK, Watched
  <2>6. BeingAdded(e)'
    BY <1>2, <1>t DEF AddEvent, BeingAdded, TypeInv, TypeOK
  <2>7. TableConsistent'
    BY <2>2, <2>4, <2>5, <2>6 DEF TableConsistent, NfdsOK
  <2>8. WakeupWatched'
    BY <1>2, <2>1, <2>5, Constants DEF AddEvent, loopVars, TableInv, WakeupWatched
  <2> QED
    BY <1>t, <2>4, <2>7, <2>8 DEF TableInv, EventsFixed
<1>3. ASSUME NEW t \in Threads, AddEventNfds(t) PROVE TableInv'
  <2> DEFINE e == tev[t]
             v == AddNfds(watch, e)
  <2>1. e \in Events /\ listMutex = t /\ watch' = v
    BY <1>3, <1>t, Constants DEF AddEventNfds, TypeInv, Holding
  <2>2. \A f \in Events : BeingAdded(f) => f = e
    BY <1>t, <2>1 DEF BeingAdded, TypeInv, Holding
  <2>3. /\ v.fd = watch.fd /\ v.persist = watch.persist /\ watch.nfds <= v.nfds /\ v \in Watch
        /\ watch.index[e] # -1 => watch.fd[e] < v.nfds
    BY <1>w, <2>1, AddNfdsFields
  <2>4. IndexOK(v) /\ FdsOK(v) /\ \A f \in Events : Watched(v, f) <=> Watched(watch, f)
    BY <1>w, <1>f, <2>1, AddNfdsKeepsTable
  <2> HIDE DEF v
  <2>5. ASSUME NEW f \in Events, Watched(v, f) PROVE v.fd[f] < v.nfds
    <3>1. CASE f = e
      BY <2>3, <2>4, <2>5, <3>1 DEF Watched
    <3>2. CASE f # e
      <4>1. watch.fd[f] < watch.nfds
        BY <2>2, <2>4, <2>5, <3>2 DEF TableInv, TableConsistent
      <4>2. watch.fd[f] \in Int /\ watch.nfds \in Int /\ v.nfds \in Int
        BY <1>w, <2>3, Constants DEF Watch, Fds
      <4> QED
        BY <2>3, <4>1, <4>2
    <3> QED
      BY <3>1, <3>2
  <2>6. TableConsistent'
    BY <2>1, <2>4, <2>5 DEF TableConsistent, IndexOK, FdsOK, Watched
  <2>7. WakeupWatched'
    BY <1>3, <2>1, <2>4, Constants DEF AddEventNfds, loopVars, TableInv, WakeupWatched, Watched
  <2> QED
    BY <1>t, <2>1, <2>3, <2>6, <2>7 DEF TableInv, EventsFixed
<1>4. ASSUME NEW t \in Threads, NEW tm \in Timers, NEW d \in Delays, AddTimer(t, tm, d)
      PROVE  TableInv'
  <2>1. \A f \in Events : ~BeingAdded(f)
    BY <1>4, Unlocked DEF AddTimer, BeingAdded
  <2>2. TableConsistent'
    BY <1>4, <2>1 DEF AddTimer, TableInv, TableConsistent, IndexOK, FdsOK, Watched
  <2> QED
    BY <1>4, <1>t, <2>2 DEF AddTimer, loopVars, TableInv, EventsFixed, WakeupWatched, Watched
<1>5. ASSUME NEW t \in Threads, TriggerEvLoop(t) PROVE TableInv'
  <2>1. \A f \in Events : BeingAdded(f) => BeingAdded(f)'
    BY <1>5, <1>t DEF TriggerEvLoop, BeingAdded, TypeInv, TypeOK
  <2>2. TableConsistent'
    BY <1>5, <2>1 DEF TriggerEvLoop, libVars, TableInv, TableConsistent, IndexOK, FdsOK, Watched
  <2> QED
    BY <1>5, <1>t, <2>2
    DEF TriggerEvLoop, libVars, loopVars, TableInv, EventsFixed, WakeupWatched, Watched
<1>6. ASSUME NEW e \in Events, listMutex = NULL, ~Watched(watch, e), watch' = EventAdd(watch, e),
             UNCHANGED tpc,
             \/ e = Wakeup /\ lpc' = "copy"
             \/ e # Wakeup /\ UNCHANGED lpc
      PROVE  TableInv'
  <2> DEFINE v == EventAdd(watch, e)
  <2>1. NfdsOK(watch)
    BY <1>6, Unlocked
  <2>2. watch.fd[e] \in Fds /\ \A f \in Events : f # e => watch.fd[f] # watch.fd[e]
    BY <1>f, OwnFd
  <2>3. \A f \in Events : Watched(watch, f) => watch.fd[f] # watch.fd[e]
    BY <1>6, <2>2
  <2>4. FreeSlots(watch) # {}
    BY <1>w, <1>f, <1>6, RoomForEvent
  <2>5. /\ v.fd = watch.fd /\ v.persist = watch.persist
        /\ IndexOK(v) /\ FdsOK(v) /\ NfdsOK(v)
        /\ \A f \in Events \ {e} : Watched(v, f) <=> Watched(watch, f)
        /\ Watched(v, e)
    BY <1>w, <1>f, <1>6, <2>1, <2>2, <2>3, <2>4, EventAddKeepsTable
  <2> HIDE DEF v
  <2>6. WakeupWatched'
    BY <1>6, <2>5, Constants DEF v, TableInv, WakeupWatched, Watched
  <2>7. watch' = v
    BY <1>6 DEF v
  <2>8. IndexOK(watch)' /\ FdsOK(watch)' /\ NfdsOK(watch)'
    BY <2>5, <2>7 DEF IndexOK, FdsOK, NfdsOK, Watched
  <2> QED
    BY <1>t, <1>6, <2>5, <2>6, <2>7, <2>8, TableKept
<1>7. ASSUME NEW e \in ClientEvents, CallbackDel(e) PROVE TableInv'
  <2> DEFINE v == EventDel(watch, e)
  <2>1. e \in Events /\ e # Wakeup /\ watch' = v /\ listMutex = NULL /\ UNCHANGED <<tpc, lpc>>
    BY <1>7 DEF CallbackDel, ClientEvents, loopVars, thrVars
  <2>2. NfdsOK(watch)
    BY <2>1, Unlocked
  <2>3. /\ v.fd = watch.fd /\ v.persist = watch.persist
        /\ IndexOK(v) /\ FdsOK(v) /\ NfdsOK(v)
        /\ \A f \in Events \ {e} : Watched(v, f) <=> Watched(watch, f)
    BY <1>w, <1>f, <2>1, <2>2, EventDelKeepsTable
  <2> HIDE DEF v
  <2>4. WakeupWatched'
    BY <2>1, <2>3, Constants DEF TableInv, WakeupWatched, Watched
  <2>5. IndexOK(watch)' /\ FdsOK(watch)' /\ NfdsOK(watch)'
    BY <2>1, <2>3 DEF IndexOK, FdsOK, NfdsOK, Watched
  <2> QED
    BY <1>t, <2>1, <2>3, <2>4, <2>5, TableKept
<1>8. CASE ProcessReadReadies
  <2> DEFINE slots == ReadySlots(watch, rfds)
             v     == DropOneShots(watch, slots)
  <2>1. watch' = v /\ listMutex = NULL /\ UNCHANGED tpc /\ lpc = "ready" /\ lpc' = "fire"
    BY <1>8 DEF ProcessReadReadies, thrVars
  <2>2. NfdsOK(watch)
    BY <2>1, Unlocked
  <2>3. slots \in SUBSET Slots /\ \A i \in slots : watch.table[i] # NULL
    BY <1>w, ReadySlotsType, Constants
  <2> HIDE DEF slots
  <2>4. /\ v.fd = watch.fd /\ v.persist = watch.persist
        /\ IndexOK(v) /\ FdsOK(v) /\ NfdsOK(v)
        /\ \A f \in Events : watch.persist[f] => (Watched(v, f) <=> Watched(watch, f))
    BY <1>w, <1>f, <2>2, <2>3, DropOneShotsKeepsTable
  <2>5. watch.persist[Wakeup]
    BY <1>f, EventAssumption DEF EventsFixed
  <2> HIDE DEF v
  <2>6. WakeupWatched'
    BY <2>1, <2>4, <2>5, Constants DEF TableInv, WakeupWatched, Watched
  <2>7. IndexOK(watch)' /\ FdsOK(watch)' /\ NfdsOK(watch)'
    BY <2>1, <2>4 DEF IndexOK, FdsOK, NfdsOK, Watched
  <2> QED
    BY <1>t, <2>1, <2>4, <2>6, <2>7, TableKept
<1>9. CASE AddWakeup
  <2>1. ~Watched(watch, Wakeup)
    BY <1>9 DEF AddWakeup, TableInv, WakeupWatched
  <2>2. /\ Wakeup \in Events /\ listMutex = NULL /\ watch' = EventAdd(watch, Wakeup)
        /\ UNCHANGED tpc /\ lpc' = "copy"
    BY <1>9, Constants DEF AddWakeup, thrVars
  <2> QED
    BY <1>6, <2>1, <2>2
<1>10. ASSUME NEW e \in ClientEvents, CallbackAdd(e) PROVE TableInv'
  <2>1. e \in Events /\ e # Wakeup
    BY DEF ClientEvents
  <2> QED
    BY <1>6, <1>10, <2>1 DEF CallbackAdd, loopVars, thrVars
<1>11. CASE Start \/ CreatePipe
  <2>1. /\ UNCHANGED <<watch, tpc, tev>>
        /\ lpc \in {"init", "pipe"} /\ lpc' \in {"pipe", "addWakeup"}
    BY <1>11 DEF Start, CreatePipe, libVars, thrVars
  <2> QED
    BY <1>1, <2>1
<1>12. CASE CopyReadFds \/ CalcNextTimeout \/ EnterSelect \/ SelectReturn \/ SelectInterrupted
  BY <1>1, <1>12 DEF CopyReadFds, CalcNextTimeout, EnterSelect, SelectReturn, SelectInterrupted,
                     libVars, thrVars
<1>13. CASE ProcessTimeouts \/ FirePending \/ FireDone \/ CallbackReturn
  BY <1>1, <1>13 DEF ProcessTimeouts, FirePending, FireDone, CallbackReturn, InCallback, libVars,
                     thrVars
<1>14. ASSUME NEW tm \in Timers, NEW d \in Delays, CallbackTimer(tm, d) PROVE TableInv'
  BY <1>0, <1>14 DEF CallbackTimer, loopVars, thrVars
<1>15. ASSUME Tick \/ (\E e \in ClientEvents : Arrive(e)) \/ UNCHANGED vars PROVE TableInv'
  BY <1>0, <1>15 DEF Tick, Arrive, vars, libVars, loopVars, thrVars
<1> QED
  BY <1>2, <1>3, <1>4, <1>5, <1>7, <1>8, <1>9, <1>10, <1>11, <1>12, <1>13, <1>14, <1>15
     DEF Next, ThreadStep, LoopStep, CallbackStep

(* The watch table stays usable under every interleaving: slots and index  *)
(* fields agree, readFds is exactly the set of watched descriptors, and    *)
(* nfds covers them all except the one being added.                        *)
THEOREM TableSafe == Spec => []TableConsistent
<1>1. Spec => []TableInv
  BY TableInit, TableStep, PTL DEF Spec
<1>2. TableInv => TableConsistent
  BY DEF TableInv
<1> QED
  BY <1>1, <1>2, PTL
-----------------------------------------------------------------------------
(* The loop's copy of readFds covers the wake-up pipe from the copy on.    *)
Listening == lpc \in {"calc", "enter", "select"} => WakeupFd \in rfds

(* The parts of NoLostWakeup.                                              *)
EventsHeard ==
    lpc \in {"calc", "enter", "select"} =>
       \A e \in Events :
          Watched(watch, e) /\ (watch.fd[e] \notin rfds
                                \/ (lpc = "select" /\ watch.fd[e] >= sel_nfds))
          => WakeComing
TimersHeard ==
    lpc \in {"enter", "select"} /\ timer_list # <<>> =>
       \/ deadline # NoDeadline /\ (deadline <= timeout[timer_list[1]] \/ deadline <= now)
       \/ WakeComing
PipeSelected == lpc = "select" => WakeupFd \in rfds /\ WakeupFd < sel_nfds

WakeInv == TableInv /\ Listening /\ EventsHeard /\ TimersHeard /\ PipeSelected

LEMMA WakeInit == Init => WakeInv
BY TableInit DEF Init, WakeInv, Listening, EventsHeard, TimersHeard, PipeSelected

(* What a loop that is about to sleep needs only matters while it is.      *)
LEMMA NotAsleep ==
    ASSUME TableInv', lpc' \notin {"calc", "enter", "select"}
    PROVE  WakeInv'
BY DEF WakeInv, Listening, EventsHeard, TimersHeard, PipeSelected

(* A step of another thread that leaves a wake-up coming, while the loop   *)
(* stays where it is.                                                      *)
LEMMA WokenUp ==
    ASSUME WakeInv, TableInv', WakeComing', UNCHANGED loopVars
    PROVE  WakeInv'
BY DEF WakeInv, Listening, EventsHeard, TimersHeard, PipeSelected, loopVars

LEMMA WakeStep == WakeInv /\ [Next]_vars => WakeInv'
<1> SUFFICES ASSUME WakeInv, [Next]_vars PROVE WakeInv'
  OBVIOUS
<1>t. TableInv /\ TableInv'
  BY TableStep DEF WakeInv
<1>y. TypeOK /\ TypeOK'
  BY <1>t DEF TableInv, TypeInv
<1>1. ASSUME UNCHANGED <<watch, timer_list, timeout, loopVars, tpc, pipe>>, now' >= now
      PROVE  WakeInv'
  <2>1. WakeComing' <=> WakeComing
    BY <1>1 DEF WakeComing
  <2>2. EventsHeard'
    BY <1>1, <2>1 DEF WakeInv, EventsHeard, loopVars, Watched
  <2>3. TimersHeard'
    <3> SUFFICES ASSUME lpc' \in {"enter", "select"}, timer_list' # <<>>, ~WakeComing'
                 PROVE  /\ deadline' # NoDeadline
                        /\ deadline' <= timeout'[timer_list'[1]] \/ deadline' <= now'
      BY DEF TimersHeard
    <3>1. deadline # NoDeadline /\ (deadline <= timeout[timer_list[1]] \/ deadline <= now)
      BY <1>1, <2>1 DEF WakeInv, TimersHeard, loopVars
    <3>2. deadline \in Int /\ now \in Int /\ now' \in Int
      BY <1>y DEF TypeOK, Time, NoDeadline
    <3> QED
      BY <1>1, <3>1, <3>2 DEF loopVars
  <2> QED
    BY <1>t, <1>1, <2>2, <2>3 DEF WakeInv, Listening, PipeSelected, loopVars
<1>2. ASSUME NEW t \in Threads, NEW e \in ClientEvents, AddEvent(t, e) PROVE WakeInv'
  <2>1. WakeComing'
    BY <1>2, <1>y DEF AddEvent, WakeComing, TypeOK
  <2> QED
    BY <1>2, <1>t, <2>1, WokenUp DEF AddEvent
<1>3. ASSUME NEW t \in Threads, AddEventNfds(t) PROVE WakeInv'
  <2>1. WakeComing'
    BY <1>3, <1>y DEF AddEventNfds, WakeComing, TypeOK
  <2> QED
    BY <1>3, <1>t, <2>1, WokenUp DEF AddEventNfds
<1>4. ASSUME NEW t \in Threads, NEW tm \in Timers, NEW d \in Delays, AddTimer(t, tm, d)
      PROVE  WakeInv'
  <2>1. WakeComing'
    BY <1>4, <1>y DEF AddTimer, WakeComing, TypeOK
  <2> QED
    BY <1>4, <1>t, <2>1, WokenUp DEF AddTimer
<1>5. ASSUME NEW t \in Threads, TriggerEvLoop(t) PROVE WakeInv'
  <2>1. CASE lpc \in {"init", "pipe"}
    BY <1>5, <1>t, <2>1, NotAsleep DEF TriggerEvLoop, loopVars
  <2>2. CASE lpc \notin {"init", "pipe"}
    <3>1. WakeComing'
      BY <1>5, <1>y, <2>2 DEF TriggerEvLoop, WakeComing, TypeOK
    <3> QED
      BY <1>5, <1>t, <3>1, WokenUp DEF TriggerEvLoop
  <2> QED
    BY <2>1, <2>2
<1>6. CASE CopyReadFds
  <2>1. /\ lpc' = "calc" /\ rfds' = watch.readFds /\ UNCHANGED watch /\ lpc = "copy"
    BY <1>6 DEF CopyReadFds, libVars
  <2>2. \A e \in Events : Watched(watch, e) => watch.fd[e] \in watch.readFds
    BY <1>t DEF TableInv, TableConsistent, FdsOK
  <2>3. Watched(watch, Wakeup) /\ watch.fd[Wakeup] = WakeupFd
    BY <1>t, <2>1 DEF TableInv, WakeupWatched, EventsFixed, WakeupFd
  <2>4. Listening'
    BY <2>1, <2>2, <2>3, Constants DEF Listening, WakeupFd
  <2>5. EventsHeard'
    BY <2>1, <2>2 DEF EventsHeard, Watched
  <2> QED
    BY <1>t, <2>1, <2>4, <2>5 DEF WakeInv, TimersHeard, PipeSelected
<1>7. CASE CalcNextTimeout
  <2>1. /\ lpc = "calc" /\ lpc' = "enter" /\ UNCHANGED <<watch, timer_list, timeout, rfds, now, tpc, pipe>>
    BY <1>7 DEF CalcNextTimeout, libVars, thrVars
  <2>2. TimersHeard'
    <3> SUFFICES ASSUME timer_list # <<>>
                 PROVE  deadline' # NoDeadline /\ (deadline' <= timeout[timer_list[1]] \/ deadline' <= now)
      BY <2>1 DEF TimersHeard
    <3>1. timer_list[1] \in Timers
      BY <1>y DEF TypeOK
    <3>2. now \in Nat /\ timeout[timer_list[1]] \in Nat
      BY <1>y, <3>1, Constants DEF TypeOK, Time
    <3>3. deadline' = IF timeout[timer_list[1]] > now THEN timeout[timer_list[1]] ELSE now
      BY <1>7 DEF CalcNextTimeout
    <3> QED
      BY <3>2, <3>3 DEF NoDeadline
  <2>3. EventsHeard'
    BY <2>1 DEF WakeInv, EventsHeard, Watched, WakeComing
  <2> QED
    BY <1>t, <2>1, <2>2, <2>3 DEF WakeInv, Listening, PipeSelected
<1>8. CASE EnterSelect
  <2>1. /\ lpc = "enter" /\ lpc' = "select" /\ sel_nfds' = watch.nfds
        /\ UNCHANGED <<watch, timer_list, timeout, rfds, deadline, now, tpc, pipe>>
    BY <1>8 DEF EnterSelect, libVars, thrVars
  <2>2. WakeComing' <=> WakeComing
    BY <2>1 DEF WakeComing
  <2>3. ASSUME NEW e \in Events, Watched(watch, e), watch.fd[e] >= watch.nfds PROVE WakeComing
    <3>1. watch.fd[e] \in Int /\ watch.nfds \in Int
      BY <1>y, Constants DEF TypeOK, Watch, Fds
    <3>2. BeingAdded(e)
      BY <1>t, <2>3, <3>1 DEF TableInv, TableConsistent
    <3> QED
      BY <3>2 DEF BeingAdded, WakeComing
  <2>4. EventsHeard'
    BY <2>1, <2>2, <2>3 DEF WakeInv, EventsHeard, Watched
  <2>5. TimersHeard'
    BY <2>1, <2>2 DEF WakeInv, TimersHeard
  <2>6. WakeupFd \in rfds /\ WakeupFd < watch.nfds
    <3>1. Watched(watch, Wakeup) /\ watch.fd[Wakeup] = WakeupFd
      BY <1>t, <2>1 DEF TableInv, WakeupWatched, EventsFixed, WakeupFd
    <3>2. ~BeingAdded(Wakeup)
      BY <1>t DEF TableInv, TypeInv, Holding, BeingAdded, ClientEvents
    <3> QED
      BY <1>t, <2>1, <3>1, <3>2, Constants DEF WakeInv, Listening, TableInv, TableConsistent
  <2> QED
    BY <1>t, <2>1, <2>4, <2>5, <2>6 DEF WakeInv, Listening, PipeSelected
<1>9. CASE SelectReturn \/ SelectInterrupted \/ ProcessTimeouts \/ ProcessReadReadies
  BY <1>9, <1>t, NotAsleep
  DEF SelectReturn, SelectInterrupted, ProcessTimeouts, ProcessReadReadies
<1>10. CASE Start \/ CreatePipe \/ AddWakeup \/ FirePending \/ FireDone \/ CallbackReturn
  BY <1>10, <1>t, NotAsleep DEF Start, CreatePipe, AddWakeup, FirePending, FireDone, CallbackReturn
<1>11. CASE CallbackStep
  <2>1. lpc' = "callback"
    BY <1>11 DEF CallbackStep, CallbackDel, CallbackAdd, CallbackTimer, InCallback, loopVars
  <2> QED
    BY <1>t, <2>1, NotAsleep
<1>12. CASE Tick
  <2>1. now' >= now
    BY <1>12, <1>y DEF Tick, TypeOK, Time
  <2> QED
    BY <1>1, <1>12, <2>1 DEF Tick, libVars, thrVars
<1>13. ASSUME (\E e \in ClientEvents : Arrive(e)) \/ UNCHANGED vars PROVE WakeInv'
  <2>1. now \in Int /\ now' = now
    BY <1>13, <1>y DEF Arrive, vars, TypeOK, Time
  <2>2. UNCHANGED <<watch, timer_list, timeout, loopVars, tpc, pipe>>
    BY <1>13 DEF Arrive, vars, libVars, thrVars
  <2> QED
    BY <1>1, <2>1, <2>2
<1> QED
  BY <1>2, <1>3, <1>4, <1>5, <1>6, <1>7, <1>8, <1>9, <1>10, <1>11, <1>12, <1>13
     DEF Next, ThreadStep, LoopStep

(* No wake-up is lost: whenever the loop is committed to a select() that   *)
(* misses a watched event or sleeps past the first timer, a byte is in the *)
(* wake-up pipe or a thread is about to write one, and select covers the   *)
(* pipe, although the loop reads readFds, the timers and nfds unlocked.    *)
THEOREM WakeupSafe == Spec => []NoLostWakeup
<1>1. Spec => []WakeInv
  BY WakeInit, WakeStep, PTL DEF Spec
<1>2. WakeInv => NoLostWakeup
  BY DEF WakeInv, EventsHeard, TimersHeard, PipeSelected, NoLostWakeup
<1> QED
  BY <1>1, <1>2, PTL
-----------------------------------------------------------------------------
(* Timers wait in the order of their deadlines, each in one list once; the *)
(* ones in pending_list are due, and no later than those in timer_list.    *)
ListOrdered ==
    \A i, j \in 1 .. Len(timer_list) : i < j =>
      /\ timer_list[i] # timer_list[j]
      /\ timeout[timer_list[i]] <= timeout[timer_list[j]]
PendingOrdered ==
    \A i, j \in 1 .. Len(pending_list) :
      i < j /\ pending_list[i] \in Timers /\ pending_list[j] \in Timers =>
        /\ pending_list[i] # pending_list[j]
        /\ timeout[pending_list[i]] <= timeout[pending_list[j]]
PendingDue ==
    \A i \in 1 .. Len(pending_list) : pending_list[i] \in Timers =>
      /\ timeout[pending_list[i]] < now
      /\ \A j \in 1 .. Len(timer_list) :
           /\ pending_list[i] # timer_list[j]
           /\ timeout[pending_list[i]] <= timeout[timer_list[j]]
TimerOrder == ListOrdered /\ PendingOrdered /\ PendingDue
TimerInv == TypeInv /\ TimerOrder

(* ril_timer_add: the new list, entry by entry.                            *)
LEMMA Inserted ==
    ASSUME TypeOK, NEW tm \in Timers, NEW d \in Delays, ril_timer_add(tm, d)
    PROVE  \E k \in 1 .. (Len(timer_list) + 1) :
             /\ Len(timer_list') = Len(timer_list) + 1
             /\ \A i \in 1 .. Len(timer_list') : i < k => timer_list'[i] = timer_list[i]
             /\ timer_list'[k] = tm
             /\ \A i \in 1 .. Len(timer_list') : i > k => timer_list'[i] = timer_list[i - 1]
             /\ \A j \in 1 .. Len(timer_list) : j < k => timeout[timer_list[j]] < now + d
             /\ k <= Len(timer_list) => timeout[timer_list[k]] >= now + d
<1>1. PICK k \in InsertPos(timer_list, now + d) : timer_list' = InsertAt(timer_list, k, tm)
  BY DEF ril_timer_add
<1>2. timer_list \in Seq(Timers) /\ Len(timer_list) \in Nat
  BY DEF TypeOK
<1>3. k \in 1 .. (Len(timer_list) + 1)
  BY DEF InsertPos
<1>4. timer_list' \in Seq(Timers)
  BY TimerAddType
<1>5. DOMAIN timer_list' = 1 .. (Len(timer_list) + 1)
  BY <1>1 DEF InsertAt
<1>6. Len(timer_list') = Len(timer_list) + 1
  BY <1>2, <1>4, <1>5
<1>7. \A i \in 1 .. (Len(timer_list) + 1) :
        timer_list'[i] = IF i < k THEN timer_list[i] ELSE IF i = k THEN tm ELSE timer_list[i - 1]
  BY <1>1 DEF InsertAt
<1>8. /\ \A j \in 1 .. Len(timer_list) : j < k => timeout[timer_list[j]] < now + d
      /\ k <= Len(timer_list) => timeout[timer_list[k]] >= now + d
  BY <1>2, <1>3 DEF InsertPos
<1>9. /\ \A i \in 1 .. Len(timer_list') : i < k => timer_list'[i] = timer_list[i]
      /\ timer_list'[k] = tm
      /\ \A i \in 1 .. Len(timer_list') : i > k => timer_list'[i] = timer_list[i - 1]
  BY <1>2, <1>3, <1>6, <1>7
<1> QED
  BY <1>3, <1>6, <1>8, <1>9

(* The members of the list are the old ones and the new timer.             *)
LEMMA InsertedMembers ==
    ASSUME TypeOK, NEW tm \in Timers, NEW d \in Delays, ril_timer_add(tm, d)
    PROVE  Members(timer_list') = Members(timer_list) \cup {tm}
<1>1. PICK k \in 1 .. (Len(timer_list) + 1) :
        /\ Len(timer_list') = Len(timer_list) + 1
        /\ \A i \in 1 .. Len(timer_list') : i < k => timer_list'[i] = timer_list[i]
        /\ timer_list'[k] = tm
        /\ \A i \in 1 .. Len(timer_list') : i > k => timer_list'[i] = timer_list[i - 1]
  BY Inserted
<1>2. Len(timer_list) \in Nat
  BY DEF TypeOK
<1>3. ASSUME NEW x \in Members(timer_list') PROVE x \in Members(timer_list) \cup {tm}
  <2>1. PICK i \in 1 .. Len(timer_list') : x = timer_list'[i]
    BY <1>3 DEF Members
  <2>2. CASE i < k
    <3>1. i \in 1 .. Len(timer_list) /\ x = timer_list[i]
      BY <1>1, <1>2, <2>1, <2>2
    <3> QED
      BY <3>1 DEF Members
  <2>3. CASE i = k
    BY <1>1, <2>1, <2>3
  <2>4. CASE i > k
    <3>1. i - 1 \in 1 .. Len(timer_list) /\ x = timer_list[i - 1]
      BY <1>1, <1>2, <2>1, <2>4
    <3> QED
      BY <3>1 DEF Members
  <2> QED
    BY <1>1, <1>2, <2>1, <2>2, <2>3, <2>4
<1>4. ASSUME NEW x \in Members(timer_list) PROVE x \in Members(timer_list')
  <2>1. PICK i \in 1 .. Len(timer_list) : x = timer_list[i]
    BY <1>4 DEF Members
  <2>2. CASE i < k
    <3>1. i \in 1 .. Len(timer_list') /\ x = timer_list'[i]
      BY <1>1, <1>2, <2>1, <2>2
    <3> QED
      BY <3>1 DEF Members
  <2>3. CASE i >= k
    <3>1. i + 1 \in 1 .. Len(timer_list') /\ i + 1 > k /\ (i + 1) - 1 = i
      BY <1>1, <1>2, <2>1, <2>3
    <3>2. x = timer_list'[i + 1]
      BY <1>1, <2>1, <3>1
    <3> QED
      BY <3>1, <3>2 DEF Members
  <2> QED
    BY <1>1, <1>2, <2>1, <2>2, <2>3
<1>5. tm \in Members(timer_list')
  BY <1>1, <1>2 DEF Members
<1> QED
  BY <1>3, <1>4, <1>5

(* ril_timer_add keeps the order: the new deadline is not before now.      *)
LEMMA InsertedInOrder ==
    ASSUME TypeOK, TimerOrder, NEW tm \in Timers, NEW d \in Delays, ril_timer_add(tm, d),
           UNCHANGED <<pending_list, now>>
    PROVE  TimerOrder'
<1> DEFINE due == now + d
<1>1. /\ Len(timer_list) \in Nat /\ timer_list \in Seq(Timers) /\ timeout \in [Timers -> Time]
      /\ pending_list \in Seq(Events \cup Timers) /\ Len(pending_list) \in Nat
      /\ Time \subseteq Int /\ now \in Int /\ due \in Int /\ due >= now /\ due \in Time
  BY Constants DEF TypeOK, Time, ril_timer_add
<1>2. PICK k \in 1 .. (Len(timer_list) + 1) :
        /\ Len(timer_list') = Len(timer_list) + 1
        /\ \A i \in 1 .. Len(timer_list') : i < k => timer_list'[i] = timer_list[i]
        /\ timer_list'[k] = tm
        /\ \A i \in 1 .. Len(timer_list') : i > k => timer_list'[i] = timer_list[i - 1]
        /\ \A j \in 1 .. Len(timer_list) : j < k => timeout[timer_list[j]] < due
        /\ k <= Len(timer_list) => timeout[timer_list[k]] >= due
  BY Inserted
<1>3. /\ \A i \in 1 .. Len(timer_list) : timer_list[i] # tm
      /\ \A i \in 1 .. Len(pending_list) : pending_list[i] # tm
  BY DEF ril_timer_add, Members
<1>4. timeout'[tm] = due /\ \A u \in Timers : u # tm => timeout'[u] = timeout[u]
  BY <1>1 DEF ril_timer_add
<1> HIDE DEF due
<1>5. \A j \in 1 .. Len(timer_list) :
        /\ timer_list[j] \in Timers /\ timeout'[timer_list[j]] = timeout[timer_list[j]]
        /\ timeout[timer_list[j]] \in Int
  <2> SUFFICES ASSUME NEW j \in 1 .. Len(timer_list)
               PROVE  /\ timer_list[j] \in Timers
                      /\ timeout'[timer_list[j]] = timeout[timer_list[j]]
                      /\ timeout[timer_list[j]] \in Int
      OBVIOUS
  <2>1. timer_list[j] \in Timers
    BY <1>1
  <2> QED
    BY <1>1, <1>3, <1>4, <2>1
<1>6. \A j \in 1 .. Len(timer_list) : j >= k => timeout[timer_list[j]] >= due
  <2> SUFFICES ASSUME NEW j \in 1 .. Len(timer_list), j > k PROVE timeout[timer_list[j]] >= due
      BY <1>1, <1>2
  <2>1. k \in 1 .. Len(timer_list) /\ timeout[timer_list[k]] >= due
    BY <1>1, <1>2
  <2>2. timeout[timer_list[k]] <= timeout[timer_list[j]]
    BY <2>1 DEF TimerOrder, ListOrdered
  <2> QED
    BY <1>1, <1>5, <2>1, <2>2
<1>7. ListOrdered'
  <2> SUFFICES ASSUME NEW i \in 1 .. Len(timer_list'), NEW j \in 1 .. Len(timer_list'), i < j
               PROVE  /\ timer_list'[i] # timer_list'[j]
                      /\ timeout'[timer_list'[i]] <= timeout'[timer_list'[j]]
      BY DEF ListOrdered
  <2>1. CASE j < k
    <3>1. i \in 1 .. Len(timer_list) /\ j \in 1 .. Len(timer_list) /\ i < k
      BY <1>1, <1>2, <2>1
    <3> QED
      BY <1>2, <1>5, <2>1, <3>1 DEF TimerOrder, ListOrdered
  <2>2. CASE j = k
    <3>1. i \in 1 .. Len(timer_list) /\ i < k
      BY <1>1, <1>2, <2>2
    <3> QED
      BY <1>1, <1>2, <1>3, <1>4, <1>5, <2>2, <3>1
  <2>3. CASE i = k
    <3>1. j - 1 \in 1 .. Len(timer_list) /\ j - 1 >= k /\ timer_list'[j] = timer_list[j - 1]
      BY <1>1, <1>2, <2>3
    <3> QED
      BY <1>1, <1>2, <1>3, <1>4, <1>5, <1>6, <2>3, <3>1
  <2>4. CASE i < k /\ j > k
    <3>1. /\ i \in 1 .. Len(timer_list) /\ j - 1 \in 1 .. Len(timer_list) /\ i < j - 1
          /\ timer_list'[i] = timer_list[i] /\ timer_list'[j] = timer_list[j - 1]
      BY <1>1, <1>2, <2>4
    <3> QED
      BY <1>5, <3>1 DEF TimerOrder, ListOrdered
  <2>5. CASE i > k
    <3>1. /\ i - 1 \in 1 .. Len(timer_list) /\ j - 1 \in 1 .. Len(timer_list) /\ i - 1 < j - 1
          /\ timer_list'[i] = timer_list[i - 1] /\ timer_list'[j] = timer_list[j - 1]
      BY <1>1, <1>2, <2>5
    <3> QED
      BY <1>5, <3>1 DEF TimerOrder, ListOrdered
  <2> QED
    BY <1>1, <1>2, <2>1, <2>2, <2>3, <2>4, <2>5
<1>8. PendingOrdered'
  BY <1>3, <1>4 DEF TimerOrder, PendingOrdered
<1>9. PendingDue'
  <2> SUFFICES ASSUME NEW i \in 1 .. Len(pending_list), pending_list[i] \in Timers
               PROVE  /\ timeout'[pending_list[i]] < now
                      /\ \A j \in 1 .. Len(timer_list') :
                           /\ pending_list[i] # timer_list'[j]
                           /\ timeout'[pending_list[i]] <= timeout'[timer_list'[j]]
      BY DEF PendingDue
  <2>1. timeout'[pending_list[i]] = timeout[pending_list[i]] /\ timeout[pending_list[i]] < now
    BY <1>3, <1>4 DEF TimerOrder, PendingDue
  <2>2. timeout[pending_list[i]] \in Int
    BY <1>1
  <2>3. ASSUME NEW j \in 1 .. Len(timer_list')
        PROVE  /\ pending_list[i] # timer_list'[j]
               /\ timeout'[pending_list[i]] <= timeout'[timer_list'[j]]
    <3>1. timer_list'[j] = tm \/ \E m \in 1 .. Len(timer_list) : timer_list'[j] = timer_list[m]
      <4>1. CASE j < k
        <5>1. j \in 1 .. Len(timer_list) /\ timer_list'[j] = timer_list[j]
          BY <1>1, <1>2, <4>1
        <5> QED
          BY <5>1
      <4>2. CASE j > k
        <5>1. j - 1 \in 1 .. Len(timer_list) /\ timer_list'[j] = timer_list[j - 1]
          BY <1>1, <1>2, <4>2
        <5> QED
          BY <5>1
      <4>3. CASE j = k
        BY <1>2, <4>3
      <4> QED
        BY <1>1, <1>2, <4>1, <4>2, <4>3
    <3>2. CASE timer_list'[j] = tm
      BY <1>1, <1>3, <1>4, <2>1, <2>2, <3>2
    <3>3. ASSUME NEW m \in 1 .. Len(timer_list), timer_list'[j] = timer_list[m]
          PROVE  /\ pending_list[i] # timer_list'[j]
                 /\ timeout'[pending_list[i]] <= timeout'[timer_list'[j]]
      BY <1>5, <2>1, <3>3 DEF TimerOrder, PendingDue
    <3> QED
      BY <3>1, <3>2, <3>3
  <2> QED
    BY <2>1, <2>3
<1> QED
  BY <1>7, <1>8, <1>9 DEF TimerOrder

(* processTimeouts moves the head of timer_list, which is due, behind      *)
(* pending_list.                                                           *)
LEMMA TimeoutsInOrder ==
    ASSUME TypeOK, TimerOrder, ProcessTimeouts
    PROVE  /\ TimerOrder'
           /\ Members(timer_list') \cup (Members(pending_list') \cap Timers)
              = Members(timer_list) \cup (Members(pending_list) \cap Timers)
<1> DEFINE n == Len(timer_list)
           p == Len(pending_list)
<1>1. /\ timer_list \in Seq(Timers) /\ pending_list \in Seq(Events \cup Timers)
      /\ n \in Nat /\ p \in Nat /\ timeout \in [Timers -> Time] /\ Time \subseteq Int /\ now \in Int
  BY Constants DEF TypeOK, Time
<1>2. PICK k \in Expired : /\ pending_list' = pending_list \o SubSeq(timer_list, 1, k)
                           /\ timer_list' = SubSeq(timer_list, k + 1, Len(timer_list))
  BY DEF ProcessTimeouts
<1>3. timeout' = timeout /\ now' = now
  BY DEF ProcessTimeouts
<1>4. k \in 0 .. n /\ \A j \in 1 .. k : now > timeout[timer_list[j]]
  BY <1>2 DEF Expired
<1>5. /\ Len(SubSeq(timer_list, 1, k)) = k /\ SubSeq(timer_list, 1, k) \in Seq(Timers)
      /\ \A i \in 1 .. k : SubSeq(timer_list, 1, k)[i] = timer_list[i]
  BY <1>1, <1>4
<1>6. /\ Len(timer_list') = n - k
      /\ \A i \in 1 .. (n - k) : timer_list'[i] = timer_list[i + k]
  BY <1>1, <1>2, <1>4
<1>7. /\ Len(pending_list') = p + k
      /\ \A i \in 1 .. p : pending_list'[i] = pending_list[i]
      /\ \A i \in 1 .. k : pending_list'[i + p] = timer_list[i]
  BY <1>1, <1>2, <1>4, <1>5, SMTT(60)
<1>8. \A i \in 1 .. (p + k) : i > p => i - p \in 1 .. k /\ pending_list'[i] = timer_list[i - p]
  <2> SUFFICES ASSUME NEW i \in 1 .. (p + k), i > p
               PROVE  i - p \in 1 .. k /\ pending_list'[i] = timer_list[i - p]
      OBVIOUS
  <2>1. i - p \in 1 .. k /\ (i - p) + p = i
    BY <1>1, <1>4
  <2> QED
    BY <1>7, <2>1
<1>9. \A i \in 1 .. n : timer_list[i] \in Timers /\ timeout[timer_list[i]] \in Int
  <2> SUFFICES ASSUME NEW i \in 1 .. n
               PROVE  timer_list[i] \in Timers /\ timeout[timer_list[i]] \in Int
      OBVIOUS
  <2>1. timer_list[i] \in Timers
    BY <1>1
  <2> QED
    BY <1>1, <2>1
<1> HIDE DEF n, p
<1>10. /\ \A i, j \in 1 .. n : i < j => /\ timer_list[i] # timer_list[j]
                                        /\ timeout[timer_list[i]] <= timeout[timer_list[j]]
       /\ \A i \in 1 .. p : pending_list[i] \in Timers =>
            /\ timeout[pending_list[i]] < now
            /\ \A j \in 1 .. n : /\ pending_list[i] # timer_list[j]
                                 /\ timeout[pending_list[i]] <= timeout[timer_list[j]]
  BY DEF TimerOrder, ListOrdered, PendingDue, n, p
<1>11. ListOrdered'
  <2> SUFFICES ASSUME NEW i \in 1 .. (n - k), NEW j \in 1 .. (n - k), i < j
               PROVE  /\ timer_list'[i] # timer_list'[j]
                      /\ timeout[timer_list'[i]] <= timeout[timer_list'[j]]
      BY <1>3, <1>6 DEF ListOrdered
  <2>1. i + k \in 1 .. n /\ j + k \in 1 .. n /\ i + k < j + k
    BY <1>1, <1>4
  <2> QED
    BY <1>6, <1>10, <2>1
<1>12. PendingOrdered'
  <2> SUFFICES ASSUME NEW i \in 1 .. (p + k), NEW j \in 1 .. (p + k), i < j,
                      pending_list'[i] \in Timers, pending_list'[j] \in Timers
               PROVE  /\ pending_list'[i] # pending_list'[j]
                      /\ timeout[pending_list'[i]] <= timeout[pending_list'[j]]
      BY <1>3, <1>7 DEF PendingOrdered
  <2>1. CASE j <= p
    <3>1. i \in 1 .. p /\ j \in 1 .. p
      BY <1>1, <2>1
    <3> QED
      BY <1>7, <3>1 DEF TimerOrder, PendingOrdered, p
  <2>2. CASE i <= p /\ j > p
    <3>1. i \in 1 .. p /\ j - p \in 1 .. n /\ pending_list'[j] = timer_list[j - p]
      BY <1>1, <1>4, <1>8, <2>2
    <3> QED
      BY <1>7, <1>10, <3>1
  <2>3. CASE i > p
    <3>1. /\ i - p \in 1 .. n /\ j - p \in 1 .. n /\ i - p < j - p
          /\ pending_list'[i] = timer_list[i - p] /\ pending_list'[j] = timer_list[j - p]
      BY <1>1, <1>4, <1>8, <2>3, SMTT(60)
    <3> QED
      BY <1>10, <3>1
  <2> QED
    BY <1>1, <1>4, <2>1, <2>2, <2>3
<1>13. PendingDue'
  <2> SUFFICES ASSUME NEW i \in 1 .. (p + k), pending_list'[i] \in Timers
               PROVE  /\ timeout[pending_list'[i]] < now
                      /\ \A j \in 1 .. (n - k) :
                           /\ pending_list'[i] # timer_list'[j]
                           /\ timeout[pending_list'[i]] <= timeout[timer_list'[j]]
      BY <1>3, <1>6, <1>7 DEF PendingDue
  <2>1. \A j \in 1 .. (n - k) : j + k \in 1 .. n /\ timer_list'[j] = timer_list[j + k]
    BY <1>1, <1>4, <1>6
  <2>2. CASE i <= p
    <3>1. i \in 1 .. p /\ pending_list'[i] = pending_list[i]
      BY <1>1, <1>7, <2>2
    <3> QED
      BY <1>10, <2>1, <3>1
  <2>3. CASE i > p
    <3>1. i - p \in 1 .. k /\ i - p \in 1 .. n /\ pending_list'[i] = timer_list[i - p]
      BY <1>1, <1>4, <1>8, <2>3
    <3>2. \A j \in 1 .. (n - k) : i - p < j + k
      BY <1>1, <1>4, <3>1
    <3> QED
      BY <1>1, <1>4, <1>9, <1>10, <2>1, <3>1, <3>2
  <2> QED
    BY <1>1, <1>4, <2>2, <2>3
<1>14. ASSUME NEW x \in Members(timer_list) \cup (Members(pending_list) \cap Timers)
       PROVE  x \in Members(timer_list') \cup (Members(pending_list') \cap Timers)
  <2>1. CASE x \in Members(timer_list)
    <3>1. PICK i \in 1 .. n : x = timer_list[i]
      BY <2>1 DEF Members, n
    <3>2. CASE i <= k
      <4>1. i \in 1 .. k /\ i + p \in 1 .. (p + k) /\ x = pending_list'[i + p] /\ x \in Timers
        BY <1>1, <1>4, <1>7, <1>9, <3>1, <3>2
      <4> QED
        BY <1>7, <4>1 DEF Members
    <3>3. CASE i > k
      <4>1. i - k \in 1 .. (n - k) /\ (i - k) + k = i
        BY <1>1, <1>4, <3>3
      <4>2. x = timer_list'[i - k]
        BY <1>6, <3>1, <4>1
      <4> QED
        BY <1>6, <4>1, <4>2 DEF Members
    <3> QED
      BY <1>1, <1>4, <3>2, <3>3
  <2>2. CASE x \in Members(pending_list) \cap Timers
    <3>1. PICK i \in 1 .. p : x = pending_list[i]
      BY <2>2 DEF Members, p
    <3>2. i \in 1 .. (p + k) /\ x = pending_list'[i]
      BY <1>1, <1>4, <1>7, <3>1
    <3> QED
      BY <1>7, <2>2, <3>2 DEF Members
  <2> QED
    BY <1>14, <2>1, <2>2
<1>15. ASSUME NEW x \in Members(timer_list') \cup (Members(pending_list') \cap Timers)
       PROVE  x \in Members(timer_list) \cup (Members(pending_list) \cap Timers)
  <2>1. CASE x \in Members(timer_list')
    <3>1. PICK i \in 1 .. (n - k) : x = timer_list'[i]
      BY <1>6, <2>1 DEF Members
    <3>2. i + k \in 1 .. n /\ x = timer_list[i + k]
      BY <1>1, <1>4, <1>6, <3>1
    <3> QED
      BY <3>2 DEF Members, n
  <2>2. CASE x \in Members(pending_list') \cap Timers
    <3>1. PICK i \in 1 .. (p + k) : x = pending_list'[i]
      BY <1>7, <2>2 DEF Members
    <3>2. CASE i <= p
      <4>1. i \in 1 .. p /\ x = pending_list[i]
        BY <1>1, <1>7, <3>1, <3>2
      <4> QED
        BY <2>2, <4>1 DEF Members, p
    <3>3. CASE i > p
      <4>1. i - p \in 1 .. n /\ x = timer_list[i - p]
        BY <1>1, <1>4, <1>8, <3>1, <3>3
      <4> QED
        BY <4>1 DEF Members, n
    <3> QED
      BY <1>1, <1>4, <3>2, <3>3
  <2> QED
    BY <1>15, <2>1, <2>2
<1> QED
  BY <1>11, <1>12, <1>13, <1>14, <1>15 DEF TimerOrder

(* processReadReadies appends events, and no timer is one.                 *)
LEMMA ReadiesInOrder ==
    ASSUME TypeOK, TimerOrder, ProcessReadReadies
    PROVE  /\ TimerOrder'
           /\ Members(pending_list') \cap Timers = Members(pending_list) \cap Timers
<1>1. PICK s \in InTableOrder(ReadySlots(watch, rfds)) :
        pending_list' = pending_list \o [k \in DOMAIN s |-> watch.table[s[k]]]
  BY DEF ProcessReadReadies
<1> DEFINE q == [k \in DOMAIN s |-> watch.table[s[k]]]
           c == Cardinality(ReadySlots(watch, rfds))
           p == Len(pending_list)
<1>2. c \in Nat /\ \A i \in ReadySlots(watch, rfds) : watch.table[i] \in Events
  BY ReadySlotsType DEF TypeOK
<1>3. s \in [1 .. c -> ReadySlots(watch, rfds)]
  BY DEF InTableOrder
<1>4. DOMAIN s = 1 .. c /\ \A k \in 1 .. c : watch.table[s[k]] \in Events
  <2> HIDE DEF c
  <2> QED
    BY <1>2, <1>3
<1>5. q \in Seq(Events) /\ Len(q) = c
  <2> HIDE DEF c
  <2>1. q \in [1 .. c -> Events]
    BY <1>4
  <2> HIDE DEF q
  <2> QED
    BY <1>2, <2>1
<1>6. pending_list \in Seq(Events \cup Timers) /\ p \in Nat
  BY DEF TypeOK
<1>7. pending_list' = pending_list \o q
  BY <1>1
<1> HIDE DEF q, c
<1>8. /\ Len(pending_list') = p + c
      /\ \A i \in 1 .. p : pending_list'[i] = pending_list[i]
      /\ \A i \in 1 .. (p + c) : i > p => pending_list'[i] \in Events
  <2>1. Len(pending_list') = p + c
    <3>1. q \in Seq(Events \cup Timers)
      BY <1>5
    <3>2. Len(pending_list \o q) = Len(pending_list) + Len(q)
      BY <1>6, <3>1
    <3> QED
      BY <1>5, <1>7, <3>2
  <2>2. \A i \in 1 .. p : pending_list'[i] = pending_list[i]
    BY <1>2, <1>5, <1>6, <1>7
  <2>3. ASSUME NEW i \in 1 .. (p + c), i > p PROVE pending_list'[i] \in Events
    <3>1. i - p \in 1 .. c /\ pending_list'[i] = q[i - p]
      BY <1>2, <1>5, <1>6, <1>7, <2>3
    <3> QED
      BY <1>5, <3>1
  <2> QED
    BY <2>1, <2>2, <2>3
<1> HIDE DEF p
<1>9. /\ p \in Nat /\ p = Len(pending_list)
      /\ \A i \in 1 .. (p + c) : pending_list'[i] \in Timers => i \in 1 .. p
  BY <1>2, <1>6, <1>8, EventAssumption DEF p
<1>10. UNCHANGED <<timer_list, timeout, now>>
  BY DEF ProcessReadReadies
<1>11. TimerOrder'
  BY <1>8, <1>9, <1>10 DEF TimerOrder, ListOrdered, PendingOrdered, PendingDue
<1>12. Members(pending_list') \cap Timers \subseteq Members(pending_list)
  <2> SUFFICES ASSUME NEW x \in Timers, x \in Members(pending_list') PROVE x \in Members(pending_list)
      OBVIOUS
  <2>1. PICK i \in 1 .. (p + c) : x = pending_list'[i]
    BY <1>8 DEF Members
  <2>2. i \in 1 .. p /\ x = pending_list[i]
    BY <1>8, <1>9, <2>1
  <2> QED
    BY <1>9, <2>2 DEF Members
<1>13. Members(pending_list) \subseteq Members(pending_list')
  <2> SUFFICES ASSUME NEW x \in Members(pending_list) PROVE x \in Members(pending_list')
      OBVIOUS
  <2>1. PICK i \in 1 .. p : x = pending_list[i]
    BY <1>9 DEF Members
  <2>2. i \in 1 .. (p + c) /\ x = pending_list'[i]
    BY <1>2, <1>8, <1>9, <2>1
  <2> QED
    BY <1>8, <2>2 DEF Members
<1> QED
  BY <1>11, <1>12, <1>13

(* firePending takes the first timer off: it is due, none is earlier, and  *)
(* it is in neither list any more.                                         *)
LEMMA FireInOrder ==
    ASSUME TypeOK, TimerOrder, FirePending
    PROVE  /\ TimerOrder'
           /\ cur' \notin Timers => Members(pending_list') \cap Timers = Members(pending_list) \cap Timers
           /\ cur' \in Timers =>
                /\ Members(pending_list') = Members(pending_list) \ {cur'}
                /\ cur' \in Members(pending_list) /\ cur' \notin Members(timer_list)
                /\ timeout[cur'] < now
                /\ \A u \in Members(timer_list) \cup (Members(pending_list) \cap Timers) :
                     timeout[cur'] <= timeout[u]
<1> DEFINE p == Len(pending_list)
<1>1. /\ pending_list \in Seq(Events \cup Timers) /\ p \in Nat \ {0}
      /\ timeout \in [Timers -> Time] /\ Time \subseteq Int
  <2>1. pending_list # <<>> /\ pending_list \in Seq(Events \cup Timers)
    BY DEF FirePending, TypeOK
  <2> QED
    BY <2>1, Constants DEF TypeOK, Time
<1>2. cur' = pending_list[1] /\ pending_list' = Tail(pending_list)
  BY <1>1 DEF FirePending
<1>3. Len(pending_list') = p - 1 /\ \A i \in 1 .. (p - 1) : pending_list'[i] = pending_list[i + 1]
  BY <1>1, <1>2
<1>4. UNCHANGED <<timer_list, timeout, now>>
  BY DEF FirePending
<1> HIDE DEF p
<1>5. \A i \in 1 .. (p - 1) : i + 1 \in 1 .. p
  BY <1>1
<1>6. TimerOrder'
  <2>1. ListOrdered'
    BY <1>4 DEF TimerOrder, ListOrdered
  <2>2. PendingOrdered'
    <3> SUFFICES ASSUME NEW i \in 1 .. (p - 1), NEW j \in 1 .. (p - 1), i < j,
                        pending_list'[i] \in Timers, pending_list'[j] \in Timers
                 PROVE  /\ pending_list'[i] # pending_list'[j]
                        /\ timeout[pending_list'[i]] <= timeout[pending_list'[j]]
        BY <1>3, <1>4 DEF PendingOrdered
    <3>1. i + 1 \in 1 .. p /\ j + 1 \in 1 .. p /\ i + 1 < j + 1
      BY <1>1
    <3> QED
      BY <1>3, <3>1 DEF TimerOrder, PendingOrdered, p
  <2>3. PendingDue'
    BY <1>3, <1>4, <1>5 DEF TimerOrder, PendingDue, p
  <2> QED
    BY <2>1, <2>2, <2>3 DEF TimerOrder
<1>7. Members(pending_list) = Members(pending_list') \cup {cur'}
  <2>1. ASSUME NEW x \in Members(pending_list) PROVE x \in Members(pending_list') \cup {cur'}
    <3>1. PICK i \in 1 .. p : x = pending_list[i]
      BY <2>1 DEF Members, p
    <3>2. CASE i = 1
      BY <1>2, <3>1, <3>2
    <3>3. CASE i > 1
      <4>1. i - 1 \in 1 .. (p - 1) /\ (i - 1) + 1 = i
        BY <1>1, <3>3
      <4>2. x = pending_list'[i - 1]
        BY <1>3, <3>1, <4>1
      <4> QED
        BY <1>3, <4>1, <4>2 DEF Members
    <3> QED
      BY <1>1, <3>2, <3>3
  <2>2. ASSUME NEW x \in Members(pending_list') PROVE x \in Members(pending_list)
    <3>1. PICK i \in 1 .. (p - 1) : x = pending_list'[i]
      BY <1>3, <2>2 DEF Members
    <3> QED
      BY <1>3, <1>5, <3>1 DEF Members, p
  <2>3. cur' \in Members(pending_list)
    BY <1>1, <1>2 DEF Members, p
  <2> QED
    BY <2>1, <2>2, <2>3
<1>8. CASE cur' \notin Timers
  BY <1>6, <1>7, <1>8
<1>9. CASE cur' \in Timers
  <2>1. \A j \in 1 .. p : j > 1 /\ pending_list[j] \in Timers =>
           pending_list[1] # pending_list[j] /\ timeout[pending_list[1]] <= timeout[pending_list[j]]
    BY <1>1, <1>2, <1>9 DEF TimerOrder, PendingOrdered, p
  <2>2. cur' \notin Members(pending_list')
    <3> SUFFICES ASSUME NEW i \in 1 .. (p - 1), cur' = pending_list'[i] PROVE FALSE
        BY <1>3 DEF Members
    <3>1. i + 1 \in 1 .. p /\ i + 1 > 1
      BY <1>1
    <3> QED
      BY <1>2, <1>3, <1>9, <2>1, <3>1
  <2>3. /\ timeout[cur'] < now
        /\ \A j \in 1 .. Len(timer_list) :
             cur' # timer_list[j] /\ timeout[cur'] <= timeout[timer_list[j]]
    BY <1>1, <1>2, <1>9 DEF TimerOrder, PendingDue, p
  <2>4. \A u \in Members(timer_list) : cur' # u /\ timeout[cur'] <= timeout[u]
    BY <2>3 DEF Members
  <2>5. ASSUME NEW u \in Members(pending_list) \cap Timers PROVE timeout[cur'] <= timeout[u]
    <3>1. PICK i \in 1 .. p : u = pending_list[i]
      BY <2>5 DEF Members, p
    <3>2. CASE i = 1
      <4>1. timeout[cur'] \in Int /\ u = cur'
        BY <1>1, <1>2, <1>9, <3>1, <3>2
      <4> QED
        BY <4>1
    <3>3. CASE i > 1
      BY <1>2, <2>1, <2>5, <3>1, <3>3
    <3> QED
      BY <1>1, <3>2, <3>3
  <2>6. Members(pending_list') = Members(pending_list) \ {cur'} /\ cur' \in Members(pending_list)
    BY <1>7, <2>2
  <2>7. \A u \in Members(timer_list) \cup (Members(pending_list) \cap Timers) : timeout[cur'] <= timeout[u]
    BY <2>4, <2>5
  <2> QED
    BY <1>6, <1>9, <2>3, <2>4, <2>6, <2>7
<1> QED
  BY <1>8, <1>9

(* Every step keeps the order and is a step of the timer service, or one   *)
(* that the service does not see.                                          *)
LEMMA ServiceStep ==
    ASSUME TimerInv, [Next]_vars
    PROVE  TimerOrder' /\ [Service!TNext]_(Service!tvars)
<1> DEFINE armed == Members(timer_list) \cup (Members(pending_list) \cap Timers)
<1>0. TypeOK /\ TimerOrder
  BY DEF TimerInv, TypeInv
<1>1. ASSUME UNCHANGED <<timer_list, pending_list, timeout, now>>
      PROVE  TimerOrder' /\ [Service!TNext]_(Service!tvars)
  <2>1. TimerOrder'
    BY <1>0, <1>1 DEF TimerOrder, ListOrdered, PendingOrdered, PendingDue
  <2>2. UNCHANGED Service!tvars
    BY <1>1 DEF Service!tvars
  <2> QED
    BY <2>1, <2>2
<1>2. ASSUME NEW tm \in Timers, NEW d \in Delays, ril_timer_add(tm, d), UNCHANGED <<pending_list, now>>
      PROVE  TimerOrder' /\ [Service!TNext]_(Service!tvars)
  <2>1. TimerOrder'
    BY <1>0, <1>2, InsertedInOrder
  <2>2. Members(timer_list') = Members(timer_list) \cup {tm}
    BY <1>0, <1>2, InsertedMembers
  <2>3. Service!Arm(tm, d)
    <3>1. tm \notin armed /\ now + d < MaxTime /\ timeout' = [timeout EXCEPT ![tm] = now + d]
      BY <1>2 DEF ril_timer_add
    <3>2. armed' = armed \cup {tm}
      BY <1>2, <2>2
    <3> QED
      BY <1>2, <3>1, <3>2 DEF Service!Arm
  <2> QED
    BY <1>2, <2>1, <2>3 DEF Service!TNext
<1>3. CASE ProcessTimeouts
  <2>1. TimerOrder' /\ armed' = armed
    BY <1>0, <1>3, TimeoutsInOrder
  <2>2. UNCHANGED Service!tvars
    BY <1>3, <2>1 DEF ProcessTimeouts, Service!tvars
  <2> QED
    BY <2>1, <2>2
<1>4. CASE ProcessReadReadies
  <2>1. TimerOrder' /\ armed' = armed
    BY <1>0, <1>4, ReadiesInOrder DEF ProcessReadReadies
  <2>2. UNCHANGED Service!tvars
    BY <1>4, <2>1 DEF ProcessReadReadies, Service!tvars
  <2> QED
    BY <2>1, <2>2
<1>5. CASE FirePending
  <2>1. TimerOrder'
    BY <1>0, <1>5, FireInOrder
  <2>2. UNCHANGED <<timer_list, timeout, now>>
    BY <1>5 DEF FirePending
  <2>3. CASE cur' \notin Timers
    <3>1. armed' = armed
      BY <1>0, <1>5, <2>2, <2>3, FireInOrder
    <3>2. UNCHANGED Service!tvars
      BY <2>2, <3>1 DEF Service!tvars
    <3> QED
      BY <2>1, <3>2
  <2>4. CASE cur' \in Timers
    <3>1. /\ Members(pending_list') = Members(pending_list) \ {cur'}
          /\ cur' \in Members(pending_list) /\ cur' \notin Members(timer_list)
          /\ timeout[cur'] < now
          /\ \A u \in armed : timeout[cur'] <= timeout[u]
      BY <1>0, <1>5, <2>4, FireInOrder
    <3>2. armed' = armed \ {cur'} /\ cur' \in armed
      BY <2>2, <2>4, <3>1
    <3>3. now \in Int /\ timeout[cur'] \in Int
      BY <1>0, <2>4, Constants DEF TypeOK, Time
    <3>4. PICK t \in Timers : t = cur'
      BY <2>4
    <3>5. Service!Fire(t)
      BY <2>2, <3>1, <3>2, <3>3, <3>4 DEF Service!Fire
    <3> QED
      BY <2>1, <3>5 DEF Service!TNext
  <2> QED
    BY <2>3, <2>4
<1>6. CASE Tick
  <2>1. UNCHANGED <<timer_list, pending_list, timeout>> /\ now < MaxTime /\ now' = now + 1
    BY <1>6 DEF Tick, libVars
  <2>2. \A i \in 1 .. Len(pending_list) : pending_list[i] \in Timers => timeout[pending_list[i]] \in Int
    BY <1>0, Constants DEF TypeOK, Time
  <2>3. now \in Int
    BY <1>0, Constants DEF TypeOK, Time
  <2>4. PendingDue'
    BY <1>0, <2>1, <2>2, <2>3 DEF TimerOrder, PendingDue
  <2>5. ListOrdered' /\ PendingOrdered'
    BY <1>0, <2>1 DEF TimerOrder, ListOrdered, PendingOrdered
  <2>6. Service!Elapse
    BY <2>1 DEF Service!Elapse
  <2> QED
    BY <2>4, <2>5, <2>6 DEF TimerOrder, Service!TNext
<1>7. ASSUME NEW t \in Threads, ThreadStep(t) PROVE TimerOrder' /\ [Service!TNext]_(Service!tvars)
  BY <1>1, <1>2, <1>7 DEF ThreadStep, AddEvent, AddEventNfds, AddTimer, TriggerEvLoop, libVars
<1>8. ASSUME LoopStep \/ SelectInterrupted PROVE TimerOrder' /\ [Service!TNext]_(Service!tvars)
  BY <1>1, <1>3, <1>4, <1>5, <1>8
     DEF LoopStep, Start, CreatePipe, AddWakeup, CopyReadFds, CalcNextTimeout, EnterSelect,
         SelectReturn, SelectInterrupted, FireDone, CallbackReturn, libVars
<1>9. ASSUME CallbackStep PROVE TimerOrder' /\ [Service!TNext]_(Service!tvars)
  BY <1>1, <1>2, <1>9 DEF CallbackStep, CallbackDel, CallbackAdd, CallbackTimer
<1>10. ASSUME NEW e \in ClientEvents, Arrive(e) PROVE TimerOrder' /\ [Service!TNext]_(Service!tvars)
  BY <1>1, <1>10 DEF Arrive, libVars
<1>11. CASE UNCHANGED vars
  BY <1>1, <1>11 DEF vars, libVars
<1> QED
  BY <1>6, <1>7, <1>8, <1>9, <1>10, <1>11 DEF Next

(* The event loop implements the timer service: whatever the threads, the  *)
(* descriptors and the callbacks do, a timed callback runs once, not       *)
(* before its time is over, and the earliest deadline goes first.          *)
THEOREM TimersInOrder == Spec => TimerService
<1>1. Init => TimerInv /\ Service!TInit
  <2> SUFFICES ASSUME Init PROVE TimerOrder /\ Service!TInit
      BY TypeInit DEF TimerInv
  <2>1. timer_list = <<>> /\ pending_list = <<>> /\ now = 0 /\ timeout = [tm \in Timers |-> 0]
    BY DEF Init
  <2>2. Members(timer_list) = {} /\ Members(pending_list) = {}
    BY <2>1 DEF Members
  <2>3. TimerOrder
    BY <2>1 DEF TimerOrder, ListOrdered, PendingOrdered, PendingDue
  <2> QED
    BY <2>1, <2>2, <2>3 DEF Service!TInit
<1>2. TimerInv /\ [Next]_vars => TimerInv'
  BY TypeStep, ServiceStep DEF TimerInv
<1>3. TimerInv /\ [Next]_vars => [Service!TNext]_(Service!tvars)
  BY ServiceStep
<1> QED
  BY <1>1, <1>2, <1>3, PTL DEF Spec, TimerService, Service!TSpec

=============================================================================
