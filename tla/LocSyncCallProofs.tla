-------------------------- MODULE LocSyncCallProofs -------------------------
(***************************************************************************)
(* The slots of the synchronous location calls, for any number of callers, *)
(* slots, ioctl types and calls.                                           *)
(***************************************************************************)
EXTENDS LocSyncCall, WellFoundedInduction, TLAPS

(* A call that runs has its number and its type.                           *)
Numbered == \A c \in Callers : pc[c] # "idle" => calls[c] \in 1 .. MaxCalls /\ mine[c] \in Types

(* From the filling of its slot to its own wait nobody waits on the slot.  *)
NotWaiting == \A c \in Callers : pc[c] \in {"ioctl", "busy", "wait"} => ~waiting[sid[c]]

WaitsSound == NotWaiting /\ NoLostSignal /\ WaitAccepted

(* Once filled a slot has the type of its call, and a report that was      *)
(* remembered or signalled is of that type.                                *)
Filled == Pcs \ {"idle", "fill", "free"}
Carries(c) == payload[sid[c]] # NULL /\ payload[sid[c]].type = mine[c]
SlotTyped == \A c \in Callers : pc[c] \in Filled => type[sid[c]] = mine[c]
ReportTyped ==
    \A c \in Callers :
        \/ pc[c] \in {"ioctl", "busy", "wait"} /\ arrived[sid[c]]
        \/ pc[c] = "signalled"
        => Carries(c)
TypesKept == SlotTyped /\ ReportTyped

TypeInv == TypeOK /\ Numbered
SlotInv == TypeInv /\ SlotsOwned
WaitInv == SlotInv /\ WaitsSound
CallInv == WaitInv /\ TypesKept

(* The order of the naturals, as the relation of the library's theorems.   *)
LEMMA NatOrder == IsWellFoundedOn({ss \in Nat \X Nat : ss[1] < ss[2]}, Nat)
BY NatLessThanWellFounded, Zenon DEF OpToRel

(* A scan that takes the first slot of some kind finds one if there is one.*)
LEMMA LowestFound ==
    ASSUME NEW S \in SUBSET Slots, S # {}
    PROVE  Lowest(S) \in S
<1> DEFINE R == {ss \in Nat \X Nat : ss[1] < ss[2]}
<1>1. IsWellFoundedOn(R, Nat)
  BY NatOrder
<1>2. S \in SUBSET Nat
  BY SyncAssumption DEF Slots
<1>3. PICK x \in S : \A y \in S : ~ (<<y, x>> \in R)
  BY <1>1, <1>2, WFMin, Zenon
<1>4. \A y \in S : ~ (y < x)
  BY <1>2, <1>3
<1>5. \A y \in S : x <= y
  BY <1>2, <1>4
<1> QED
  BY <1>5 DEF Lowest

(* loc_alloc_slot reserves a slot that was free.                           *)
LEMMA LowestFree ==
    ASSUME FreeSlots # {}
    PROVE  Lowest(FreeSlots) \in Slots /\ ~slot_in_use[Lowest(FreeSlots)]
<1>1. Lowest(FreeSlots) \in FreeSlots
  BY LowestFound DEF FreeSlots
<1> QED
  BY <1>1 DEF FreeSlots

(* loc_sync_data.loc_cb_arrived_cond: at most one caller changes, from the *)
(* wait for the engine to another try.                                     *)
LEMMA RetryOne ==
    ASSUME NEW p \in [Callers -> Pcs], Retry(p), \A c \in Callers : pc[c] = "busy" => p[c] = "busy"
    PROVE  /\ pc' \in [Callers -> Pcs]
           /\ \A c \in Callers : pc'[c] = p[c] \/ (p[c] = "busy" /\ pc'[c] = "ioctl")
BY DEF Retry, Busy, Pcs

(* What the callback thread does to the callers and to the slots.          *)
LEMMA ReportEffects ==
    ASSUME TypeOK, NEW r \in reports, ReportArrives(r)
    PROVE  /\ pc' \in [Callers -> Pcs]
           /\ \A c \in Callers : \/ pc'[c] = pc[c]
                                 \/ pc[c] = "busy" /\ pc'[c] = "ioctl"
                                 \/ pc[c] = "sleep" /\ pc'[c] = "signalled"
           /\ arrived' \in [Slots -> BOOLEAN]
           /\ \A i \in Slots : waiting[i] /\ arrived'[i] => arrived[i]
           /\ payload' \in [Slots -> Reports \cup {NULL}]
<1>1. r \in Reports
  BY DEF TypeOK
<1>2. CASE ~in_use
  BY <1>2 DEF ReportArrives, TypeOK
<1>3. CASE in_use /\ Matching(r.type) = {}
  <2>1. Retry(pc) /\ UNCHANGED <<arrived, payload>>
    BY <1>3 DEF ReportArrives
  <2>2. pc \in [Callers -> Pcs]
    BY DEF TypeOK
  <2> QED
    BY <2>1, <2>2, RetryOne DEF TypeOK
<1>4. CASE in_use /\ Matching(r.type) # {}
  <2> DEFINE i == Lowest(Matching(r.type))
  <2>1. /\ payload' = [payload EXCEPT ![i] = r]
        /\ arrived' = [arrived EXCEPT ![i] = ~waiting[i]]
        /\ Retry(Signal(i))
    BY <1>4 DEF ReportArrives
  <2>2. i \in Slots
    BY <1>4, LowestFound DEF Matching
  <2>3. /\ Signal(i) \in [Callers -> Pcs]
        /\ \A c \in Callers : \/ Signal(i)[c] = pc[c]
                              \/ pc[c] = "sleep" /\ Signal(i)[c] = "signalled"
    BY DEF Signal, TypeOK, Pcs
  <2>4. /\ pc' \in [Callers -> Pcs]
        /\ \A c \in Callers : \/ pc'[c] = Signal(i)[c]
                              \/ Signal(i)[c] = "busy" /\ pc'[c] = "ioctl"
    <3>1. \A c \in Callers : pc[c] = "busy" => Signal(i)[c] = "busy"
      BY <2>3
    <3> HIDE DEF i
    <3> QED
      BY <2>1, <2>3, <3>1, RetryOne
  <2>5. \A c \in Callers : \/ pc'[c] = pc[c]
                           \/ pc[c] = "busy" /\ pc'[c] = "ioctl"
                           \/ pc[c] = "sleep" /\ pc'[c] = "signalled"
    BY <2>3, <2>4
  <2>6. arrived' \in [Slots -> BOOLEAN] /\ \A j \in Slots : waiting[j] /\ arrived'[j] => arrived[j]
    <3> HIDE DEF i
    <3> QED
      BY <2>1, <2>2 DEF TypeOK
  <2>7. payload' \in [Slots -> Reports \cup {NULL}]
    <3> HIDE DEF i
    <3> QED
      BY <1>1, <2>1, <2>2 DEF TypeOK
  <2> QED
    BY <2>4, <2>5, <2>6, <2>7
<1> QED
  BY <1>2, <1>3, <1>4

(* Every step keeps the types.                                             *)
LEMMA TypeStep == TypeInv /\ [Next]_vars => TypeInv'
<1> SUFFICES ASSUME TypeInv, [Next]_vars PROVE TypeInv'
    OBVIOUS
<1> USE SyncAssumption DEF TypeInv, TypeOK, Numbered, Pcs, Codes, Goto, Finish,
           useVars, slotVars, callVars, engVars
<1>1. ASSUME NEW c \in Callers, NEW t \in TypesOf[c], AllocSlot(c, t) PROVE TypeInv'
  <2>1. t \in Types /\ calls'[c] \in 1 .. MaxCalls
    BY <1>1 DEF AllocSlot
  <2>2. CASE FreeSlots = {}
    BY <1>1, <2>1, <2>2 DEF AllocSlot
  <2>3. CASE FreeSlots # {}
    <3> DEFINE i == Lowest(FreeSlots)
    <3>1. i \in Slots
      BY <2>3, LowestFree
    <3>2. /\ slot_in_use' = [slot_in_use EXCEPT ![i] = TRUE] /\ in_use' = TRUE
          /\ sid' = [sid EXCEPT ![c] = i]
          /\ pc' = [pc EXCEPT ![c] = "fill"] /\ rc' = [rc EXCEPT ![c] = "none"]
      BY <1>1, <2>3 DEF AllocSlot
    <3> HIDE DEF i
    <3> QED
      BY <1>1, <2>1, <3>1, <3>2 DEF AllocSlot
  <2> QED
    BY <2>2, <2>3
<1>2. ASSUME NEW c \in Callers, FillSlot(c) PROVE TypeInv'
    BY <1>2 DEF FillSlot
<1>3. ASSUME NEW c \in Callers, IoctlAccepted(c) PROVE TypeInv'
    BY <1>3 DEF IoctlAccepted, This, Reports
<1>4. ASSUME NEW c \in Callers, IoctlBusy(c) PROVE TypeInv'
    BY <1>4 DEF IoctlBusy
<1>5. ASSUME NEW c \in Callers, IoctlRefused(c) PROVE TypeInv'
    BY <1>5 DEF IoctlRefused
<1>6. ASSUME NEW c \in Callers, WaitCallback(c) PROVE TypeInv'
  <2> DEFINE i == sid[c]
  <2>1. i \in Slots
    OBVIOUS
  <2>2. /\ pc' \in [Callers -> Pcs] /\ rc' \in [Callers -> Codes]
        /\ got' \in [Callers -> Reports \cup {NULL}] /\ waiting' \in [Slots -> BOOLEAN]
        /\ \A d \in Callers : pc'[d] # "idle" => pc[d] # "idle"
    <3>1. CASE ~slot_in_use[i]
      BY <1>6, <2>1, <3>1 DEF WaitCallback
    <3>2. CASE slot_in_use[i] /\ arrived[i]
      BY <1>6, <2>1, <3>2 DEF WaitCallback
    <3>3. CASE slot_in_use[i] /\ ~arrived[i] /\ waiting[i]
      BY <1>6, <2>1, <3>3 DEF WaitCallback
    <3>4. CASE slot_in_use[i] /\ ~arrived[i] /\ ~waiting[i]
      BY <1>6, <2>1, <3>4 DEF WaitCallback
    <3> QED
      BY <3>1, <3>2, <3>3, <3>4
  <2>3. UNCHANGED <<useVars, type, arrived, payload, callVars, engVars>>
    BY <1>6 DEF WaitCallback
  <2> QED
    BY <2>2, <2>3
<1>7. ASSUME NEW c \in Callers, WakeUp(c) PROVE TypeInv'
    BY <1>7 DEF WakeUp
<1>8. ASSUME NEW c \in Callers, FreeSlot(c) PROVE TypeInv'
    BY <1>8 DEF FreeSlot
<1>9. ASSUME NEW c \in Callers, Expire(c) PROVE TypeInv'
    BY <1>9 DEF Expire
<1>10. ASSUME NEW c \in Callers, Spurious(c) PROVE TypeInv'
    BY <1>10 DEF Spurious
<1>11. ASSUME NEW r \in reports, ReportArrives(r) PROVE TypeInv'
  <2>1. UNCHANGED <<slot_in_use, type, waiting, callVars, rc, got, engine, failed>>
        /\ reports' \subseteq reports /\ in_use' \in BOOLEAN
    BY <1>11 DEF ReportArrives
  <2>2. TypeOK /\ Numbered
    OBVIOUS
  <2> QED
    BY <1>11, <2>1, <2>2, ReportEffects
<1>12. CASE OtherEvent
  <2>1. /\ pc' \in [Callers -> Pcs]
        /\ \A c \in Callers : pc'[c] = pc[c] \/ (pc[c] = "busy" /\ pc'[c] = "ioctl")
    BY <1>12, RetryOne DEF OtherEvent
  <2> QED
    BY <1>12, <2>1 DEF OtherEvent
<1>13. CASE EngineDone
    BY <1>13 DEF EngineDone
<1>14. CASE EngineForgetsCall
    BY <1>14 DEF EngineForgetsCall
<1>15. CASE UNCHANGED vars
    BY <1>15 DEF vars
<1> QED
    BY <1>1, <1>2, <1>3, <1>4, <1>5, <1>6, <1>7, <1>8, <1>9, <1>10, <1>11, <1>12, <1>13, <1>14,
       <1>15 DEF Next, CallerStep

(* Every step keeps slots with their calls, and in_use with the slots.     *)
LEMMA SlotStep == TypeInv /\ SlotsOwned /\ [Next]_vars => SlotsOwned'
<1> SUFFICES ASSUME TypeInv, SlotsOwned, [Next]_vars PROVE SlotsOwned'
    OBVIOUS
<1> USE DEF SlotsOwned, SlotOwnership, InUseFlag, Running, TypeInv, TypeOK, Goto, Finish,
           useVars, slotVars, callVars, engVars
<1>1. ASSUME NEW c \in Callers, NEW t \in TypesOf[c], AllocSlot(c, t) PROVE SlotsOwned'
  <2>1. CASE FreeSlots = {}
    BY <1>1, <2>1 DEF AllocSlot
  <2>2. CASE FreeSlots # {}
    <3> DEFINE i == Lowest(FreeSlots)
    <3>1. i \in Slots /\ ~slot_in_use[i]
      BY <2>2, LowestFree
    <3>2. /\ slot_in_use' = [slot_in_use EXCEPT ![i] = TRUE] /\ in_use' = TRUE
          /\ sid' = [sid EXCEPT ![c] = i]
          /\ pc[c] = "idle" /\ pc' = [pc EXCEPT ![c] = "fill"]
      BY <1>1, <2>2 DEF AllocSlot
    <3> HIDE DEF i
    <3>3. InUseFlag'
      BY <3>1, <3>2
    <3>4. \A d \in Callers : d # c =>
          /\ pc'[d] = pc[d] /\ sid'[d] = sid[d]
          /\ (Running(d) => sid[d] # i)
      BY <3>1, <3>2
    <3>5. pc'[c] = "fill" /\ sid'[c] = i
      BY <3>2
    <3>6. \A j \in Slots : slot_in_use'[j] <=> \E d \in Callers : Running(d)' /\ sid'[d] = j
      <4> TAKE j \in Slots
      <4>1. CASE j = i
        BY <3>1, <3>2, <3>5, <4>1
      <4>2. CASE j # i
        BY <3>2, <3>4, <3>5, <4>2
      <4> QED
        BY <4>1, <4>2
    <3>7. \A d, e \in Callers : d # e /\ Running(d)' /\ Running(e)' => sid'[d] # sid'[e]
      BY <3>4, <3>5
    <3> QED
      BY <3>3, <3>6, <3>7
  <2> QED
    BY <2>1, <2>2
<1>2. ASSUME NEW c \in Callers, FillSlot(c) PROVE SlotsOwned'
    BY <1>2 DEF FillSlot
<1>3. ASSUME NEW c \in Callers, IoctlAccepted(c) PROVE SlotsOwned'
    BY <1>3 DEF IoctlAccepted
<1>4. ASSUME NEW c \in Callers, IoctlBusy(c) PROVE SlotsOwned'
    BY <1>4 DEF IoctlBusy
<1>5. ASSUME NEW c \in Callers, IoctlRefused(c) PROVE SlotsOwned'
    BY <1>5 DEF IoctlRefused
<1>6. ASSUME NEW c \in Callers, WaitCallback(c) PROVE SlotsOwned'
    BY <1>6 DEF WaitCallback
<1>7. ASSUME NEW c \in Callers, WakeUp(c) PROVE SlotsOwned'
    BY <1>7 DEF WakeUp
<1>8. ASSUME NEW c \in Callers, FreeSlot(c) PROVE SlotsOwned'
  <2> DEFINE i == sid[c]
  <2>1. i \in Slots /\ Running(c)
    BY <1>8 DEF FreeSlot
  <2>2. /\ slot_in_use' = [slot_in_use EXCEPT ![i] = FALSE]
        /\ in_use' = (in_use /\ \E j \in Slots : slot_in_use'[j])
        /\ pc' = [pc EXCEPT ![c] = "idle"] /\ sid' = sid
    BY <1>8 DEF FreeSlot
  <2>3. \A d \in Callers : d # c => pc'[d] = pc[d] /\ (Running(d) => sid[d] # i)
    BY <2>1, <2>2
  <2>4. pc'[c] = "idle"
    BY <2>2
  <2>5. \A j \in Slots : slot_in_use'[j] => slot_in_use[j]
    BY <2>1, <2>2
  <2>6. InUseFlag'
    BY <2>2, <2>5
  <2>7. \A j \in Slots : slot_in_use'[j] <=> \E d \in Callers : Running(d)' /\ sid'[d] = j
    <3> TAKE j \in Slots
    <3>1. CASE j = i
      BY <2>1, <2>2, <2>3, <2>4, <3>1
    <3>2. CASE j # i
      BY <2>2, <2>3, <2>4, <3>2
    <3> QED
      BY <3>1, <3>2
  <2>8. \A d, e \in Callers : d # e /\ Running(d)' /\ Running(e)' => sid'[d] # sid'[e]
    BY <2>2, <2>3, <2>4
  <2> QED
    BY <2>6, <2>7, <2>8
<1>9. ASSUME NEW c \in Callers, Expire(c) PROVE SlotsOwned'
    BY <1>9 DEF Expire
<1>10. ASSUME NEW c \in Callers, Spurious(c) PROVE SlotsOwned'
    BY <1>10 DEF Spurious
<1>11. ASSUME NEW r \in reports, ReportArrives(r) PROVE SlotsOwned'
  <2>1. UNCHANGED <<slot_in_use, sid>>
    BY <1>11 DEF ReportArrives
  <2>2. \A d \in Callers : Running(d)' <=> Running(d)
    BY <1>11, ReportEffects
  <2>3. InUseFlag'
    <3>1. CASE in_use
      BY <1>11, <2>1, <3>1 DEF ReportArrives
    <3>2. CASE ~in_use
      BY <1>11, <2>1, <3>2 DEF ReportArrives
    <3> QED
      BY <3>1, <3>2
  <2>4. SlotOwnership'
    BY <2>1, <2>2
  <2> QED
    BY <2>3, <2>4
<1>12. CASE OtherEvent
  <2>1. /\ UNCHANGED <<slot_in_use, sid>>
        /\ in_use' = \E j \in Slots : slot_in_use[j]
    BY <1>12 DEF OtherEvent
  <2>2. \A d \in Callers : Running(d)' <=> Running(d)
    BY <1>12, RetryOne DEF OtherEvent
  <2>3. InUseFlag'
    BY <2>1
  <2>4. SlotOwnership'
    BY <2>1, <2>2
  <2> QED
    BY <2>3, <2>4
<1>13. CASE EngineDone
    BY <1>13 DEF EngineDone
<1>14. CASE EngineForgetsCall
    BY <1>14 DEF EngineForgetsCall
<1>15. CASE UNCHANGED vars
    BY <1>15 DEF vars
<1> QED
    BY <1>1, <1>2, <1>3, <1>4, <1>5, <1>6, <1>7, <1>8, <1>9, <1>10, <1>11, <1>12, <1>13, <1>14,
       <1>15 DEF Next, CallerStep

(* Every step keeps waiting and has_arrived in line with the waits.        *)
LEMMA WaitStep == SlotInv /\ WaitsSound /\ [Next]_vars => WaitsSound'
<1> SUFFICES ASSUME SlotInv, WaitsSound, [Next]_vars PROVE WaitsSound'
    OBVIOUS
<1> USE DEF WaitsSound, NotWaiting, NoLostSignal, WaitAccepted, SlotInv, SlotsOwned,
           SlotOwnership, Running, TypeInv, TypeOK, Goto, Finish, useVars, slotVars, callVars,
           engVars
<1>1. ASSUME NEW c \in Callers, NEW t \in TypesOf[c], AllocSlot(c, t) PROVE WaitsSound'
    BY <1>1, SMTT(60) DEF AllocSlot
<1>2. ASSUME NEW c \in Callers, FillSlot(c) PROVE WaitsSound'
    BY <1>2 DEF FillSlot
<1>3. ASSUME NEW c \in Callers, IoctlAccepted(c) PROVE WaitsSound'
    BY <1>3 DEF IoctlAccepted
<1>4. ASSUME NEW c \in Callers, IoctlBusy(c) PROVE WaitsSound'
    BY <1>4 DEF IoctlBusy
<1>5. ASSUME NEW c \in Callers, IoctlRefused(c) PROVE WaitsSound'
    BY <1>5 DEF IoctlRefused
<1>6. ASSUME NEW c \in Callers, WaitCallback(c) PROVE WaitsSound'
    BY <1>6 DEF WaitCallback
<1>7. ASSUME NEW c \in Callers, WakeUp(c) PROVE WaitsSound'
    BY <1>7 DEF WakeUp
<1>8. ASSUME NEW c \in Callers, FreeSlot(c) PROVE WaitsSound'
    BY <1>8 DEF FreeSlot
<1>9. ASSUME NEW c \in Callers, Expire(c) PROVE WaitsSound'
    BY <1>9 DEF Expire
<1>10. ASSUME NEW c \in Callers, Spurious(c) PROVE WaitsSound'
    BY <1>10 DEF Spurious
<1>11. ASSUME NEW r \in reports, ReportArrives(r) PROVE WaitsSound'
  <2>1. UNCHANGED <<waiting, sid, rc>>
    BY <1>11 DEF ReportArrives
  <2>2. \A c \in Callers : pc'[c] = "sleep" => pc[c] = "sleep"
    BY <1>11, ReportEffects
  <2>3. \A c \in Callers :
           pc'[c] \in {"ioctl", "busy", "wait"} => pc[c] \in {"ioctl", "busy", "wait"}
    BY <1>11, ReportEffects
  <2>4. \A i \in Slots : waiting[i] /\ arrived'[i] => arrived[i]
    BY <1>11, ReportEffects
  <2> QED
    BY <2>1, <2>2, <2>3, <2>4
<1>12. CASE OtherEvent
  <2>1. UNCHANGED <<waiting, arrived, sid, rc>>
    BY <1>12 DEF OtherEvent
  <2>2. \A c \in Callers : pc'[c] = pc[c] \/ (pc[c] = "busy" /\ pc'[c] = "ioctl")
    BY <1>12, RetryOne DEF OtherEvent
  <2> QED
    BY <2>1, <2>2
<1>13. CASE EngineDone
    BY <1>13 DEF EngineDone
<1>14. CASE EngineForgetsCall
    BY <1>14 DEF EngineForgetsCall
<1>15. CASE UNCHANGED vars
    BY <1>15 DEF vars
<1> QED
    BY <1>1, <1>2, <1>3, <1>4, <1>5, <1>6, <1>7, <1>8, <1>9, <1>10, <1>11, <1>12, <1>13, <1>14,
       <1>15 DEF Next, CallerStep

(* A report goes into at most one slot, one of its own type, and only the  *)
(* caller asleep on that slot is signalled.                                *)
LEMMA ReportTyping ==
    ASSUME TypeOK, NEW r \in reports, ReportArrives(r)
    PROVE  /\ \A j \in Slots : \/ payload'[j] = payload[j] /\ arrived'[j] = arrived[j]
                               \/ payload'[j] = r /\ type[j] = r.type
           /\ \A c \in Callers : pc'[c] = "signalled" =>
                 \/ pc[c] = "signalled"
                 \/ pc[c] = "sleep" /\ payload'[sid[c]] = r /\ type[sid[c]] = r.type
<1>1. CASE ~in_use
  BY <1>1 DEF ReportArrives
<1>2. CASE in_use /\ Matching(r.type) = {}
  <2>1. Retry(pc) /\ UNCHANGED <<arrived, payload>>
    BY <1>2 DEF ReportArrives
  <2>2. pc \in [Callers -> Pcs]
    BY DEF TypeOK
  <2> QED
    BY <2>1, <2>2, RetryOne
<1>3. CASE in_use /\ Matching(r.type) # {}
  <2> DEFINE i == Lowest(Matching(r.type))
  <2>1. /\ payload' = [payload EXCEPT ![i] = r]
        /\ arrived' = [arrived EXCEPT ![i] = ~waiting[i]]
        /\ Retry(Signal(i))
    BY <1>3 DEF ReportArrives
  <2>2. i \in Slots /\ type[i] = r.type
    <3>1. i \in Matching(r.type)
      BY <1>3, LowestFound DEF Matching
    <3> QED
      BY <3>1 DEF Matching
  <2>3. /\ Signal(i) \in [Callers -> Pcs]
        /\ \A c \in Callers : pc[c] = "busy" => Signal(i)[c] = "busy"
        /\ \A c \in Callers : Signal(i)[c] = "signalled" =>
              pc[c] = "signalled" \/ (pc[c] = "sleep" /\ sid[c] = i)
    BY DEF Signal, TypeOK, Pcs
  <2> HIDE DEF i
  <2>4. \A c \in Callers : pc'[c] = "signalled" => Signal(i)[c] = "signalled"
    BY <2>1, <2>3, RetryOne
  <2>5. \A j \in Slots : \/ payload'[j] = payload[j] /\ arrived'[j] = arrived[j]
                         \/ payload'[j] = r /\ type[j] = r.type
    BY <2>1, <2>2 DEF TypeOK
  <2>6. payload'[i] = r
    BY <2>1, <2>2 DEF TypeOK
  <2> QED
    BY <2>2, <2>3, <2>4, <2>5, <2>6
<1> QED
  BY <1>1, <1>2, <1>3

(* Every step keeps the types of the slots and of the reports in them.     *)
LEMMA TypedStep == WaitInv /\ TypesKept /\ [Next]_vars => TypesKept'
<1> SUFFICES ASSUME WaitInv, TypesKept, [Next]_vars PROVE TypesKept'
    OBVIOUS
<1> USE DEF TypesKept, SlotTyped, ReportTyped, Carries, Filled, Pcs, WaitInv, WaitsSound,
           NoLostSignal, NotWaiting,
           SlotInv, SlotsOwned, SlotOwnership, Running, TypeInv, TypeOK, Goto, Finish,
           useVars, slotVars, callVars, engVars
<1>1. ASSUME NEW c \in Callers, NEW t \in TypesOf[c], AllocSlot(c, t) PROVE TypesKept'
    BY <1>1 DEF AllocSlot
<1>2. ASSUME NEW c \in Callers, FillSlot(c) PROVE TypesKept'
    BY <1>2 DEF FillSlot
<1>3. ASSUME NEW c \in Callers, IoctlAccepted(c) PROVE TypesKept'
    BY <1>3 DEF IoctlAccepted
<1>4. ASSUME NEW c \in Callers, IoctlBusy(c) PROVE TypesKept'
    BY <1>4 DEF IoctlBusy
<1>5. ASSUME NEW c \in Callers, IoctlRefused(c) PROVE TypesKept'
    BY <1>5 DEF IoctlRefused
<1>6. ASSUME NEW c \in Callers, WaitCallback(c) PROVE TypesKept'
    BY <1>6 DEF WaitCallback
<1>7. ASSUME NEW c \in Callers, WakeUp(c) PROVE TypesKept'
    BY <1>7 DEF WakeUp
<1>8. ASSUME NEW c \in Callers, FreeSlot(c) PROVE TypesKept'
    BY <1>8 DEF FreeSlot
<1>9. ASSUME NEW c \in Callers, Expire(c) PROVE TypesKept'
    BY <1>9 DEF Expire
<1>10. ASSUME NEW c \in Callers, Spurious(c) PROVE TypesKept'
    BY <1>10 DEF Spurious
<1>11. ASSUME NEW r \in reports, ReportArrives(r) PROVE TypesKept'
  <2>1. UNCHANGED <<type, waiting, sid, mine>>
    BY <1>11 DEF ReportArrives
  <2>2. \A c \in Callers : pc'[c] \in Filled => pc[c] \in Filled
    BY <1>11, ReportEffects
  <2>3. r \in Reports /\ r # NULL
    BY SyncAssumption DEF Reports
  <2>4. \A c \in Callers : pc[c] \in Filled /\ payload'[sid[c]] = r /\ type[sid[c]] = r.type
                           => Carries(c)'
    BY <2>1, <2>3
  <2>5. ASSUME NEW c \in Callers, pc'[c] \in {"ioctl", "busy", "wait"}, arrived'[sid[c]]
        PROVE  Carries(c)'
    <3>1. pc[c] \in {"ioctl", "busy", "wait"}
      BY <1>11, <2>5, ReportEffects
    <3>2. CASE payload'[sid[c]] = payload[sid[c]] /\ arrived'[sid[c]] = arrived[sid[c]]
      BY <2>1, <2>5, <3>1, <3>2
    <3>3. CASE payload'[sid[c]] = r /\ type[sid[c]] = r.type
      BY <2>4, <3>1, <3>3
    <3> QED
      BY <1>11, <3>2, <3>3, ReportTyping
  <2>6. ASSUME NEW c \in Callers, pc'[c] = "signalled" PROVE Carries(c)'
    <3>1. CASE pc[c] = "signalled"
      <4>1. \/ payload'[sid[c]] = payload[sid[c]]
            \/ payload'[sid[c]] = r /\ type[sid[c]] = r.type
        BY <1>11, ReportTyping
      <4> QED
        BY <2>1, <2>4, <3>1, <4>1
    <3>2. CASE pc[c] = "sleep" /\ payload'[sid[c]] = r /\ type[sid[c]] = r.type
      BY <2>4, <3>2
    <3> QED
      BY <1>11, <2>6, <3>1, <3>2, ReportTyping
  <2> QED
    BY <2>1, <2>2, <2>5, <2>6
<1>12. CASE OtherEvent
  <2>1. UNCHANGED <<slotVars, callVars>>
    BY <1>12 DEF OtherEvent
  <2>2. \A c \in Callers : pc'[c] = pc[c] \/ (pc[c] = "busy" /\ pc'[c] = "ioctl")
    BY <1>12, RetryOne DEF OtherEvent
  <2> QED
    BY <2>1, <2>2
<1>13. CASE EngineDone
    BY <1>13 DEF EngineDone
<1>14. CASE EngineForgetsCall
    BY <1>14 DEF EngineForgetsCall
<1>15. CASE UNCHANGED vars
    BY <1>15 DEF vars
<1> QED
    BY <1>1, <1>2, <1>3, <1>4, <1>5, <1>6, <1>7, <1>8, <1>9, <1>10, <1>11, <1>12, <1>13, <1>14,
       <1>15 DEF Next, CallerStep

(* The initial state of loc_api_sync_call_init.                            *)
LEMMA WaitInit == Init => WaitInv
<1> SUFFICES ASSUME Init PROVE WaitInv
    OBVIOUS
<1>1. 0 \in Slots /\ 0 \in 0 .. MaxCalls
    BY SyncAssumption DEF Slots
<1>2. TypeOK
    BY <1>1 DEF Init, TypeOK, Pcs, Codes
<1>3. Numbered /\ SlotsOwned /\ NotWaiting /\ NoLostSignal /\ WaitAccepted
    BY DEF Init, Numbered, SlotsOwned, SlotOwnership, Running, InUseFlag, NotWaiting, NoLostSignal, WaitAccepted
<1> QED
    BY <1>2, <1>3 DEF WaitInv, WaitsSound, SlotInv, SlotsOwned, TypeInv

(* The inductive invariant holds throughout.                               *)
LEMMA WaitAlways == Spec => []WaitInv
<1>1. WaitInv /\ [Next]_vars => WaitInv'
    BY TypeStep, SlotStep, WaitStep DEF WaitInv, SlotInv
<1> QED
    BY WaitInit, <1>1, PTL DEF Spec

(* A slot and the reports in it have the type of the call that owns it.    *)
LEMMA CallAlways == Spec => []CallInv
<1>1. Init => TypesKept
    BY DEF Init, TypesKept, SlotTyped, ReportTyped, Filled
<1>2. WaitInv /\ [Next]_vars => WaitInv'
    BY TypeStep, SlotStep, WaitStep DEF WaitInv, SlotInv
<1>3. CallInv /\ [Next]_vars => CallInv'
    BY <1>2, TypedStep DEF CallInv
<1> QED
    BY WaitInit, <1>1, <1>3, PTL DEF Spec, CallInv

(* Type correctness of the synchronous calls' state.                       *)
THEOREM SyncTypes == Spec => []TypeOK
<1>1. WaitInv => TypeOK
    BY DEF WaitInv, SlotInv, TypeInv
<1> QED
    BY WaitAlways, <1>1, PTL

(* loc_api_sync_ioctl never shares or leaks a slot, and the callback       *)
(* thread's shortcut flag is up exactly while a call runs.                 *)
THEOREM SlotSafe == Spec => []SlotsOwned
<1>1. WaitInv => SlotsOwned
    BY DEF WaitInv, SlotInv
<1> QED
    BY WaitAlways, <1>1, PTL

(* No caller of loc_api_wait_callback sleeps on a slot whose report has    *)
(* arrived, and none meets one of its error returns.                       *)
THEOREM SignalSafe == Spec => [](NoLostSignal /\ WaitAccepted)
<1>1. WaitInv => NoLostSignal /\ WaitAccepted
    BY DEF WaitInv, WaitsSound
<1> QED
    BY WaitAlways, <1>1, PTL

(* What loc_api_wait_callback returns with success, without a spurious     *)
(* wake-up, is a report of the ioctl type of the call.                     *)
THEOREM ReportTypes == Spec => RightType
<1> DEFINE A(c) == /\ pc[c] \in {"wait", "signalled"}
                   /\ pc'[c] = "free" /\ rc'[c] = "SUCCESS"
                   => got'[c] # NULL /\ got'[c].type = mine[c]
<1>1. CallInv /\ [Next]_vars => [\A c \in Callers : A(c)]_vars
  <2> SUFFICES ASSUME CallInv, Next, NEW d \in Callers, pc[d] \in {"wait", "signalled"},
                      pc'[d] = "free", rc'[d] = "SUCCESS"
               PROVE  got'[d] # NULL /\ got'[d].type = mine[d]
    OBVIOUS
  <2> DEFINE G == got'[d] # NULL /\ got'[d].type = mine[d]
  <2> USE DEF CallInv, TypesKept, SlotTyped, ReportTyped, Carries, WaitInv, WaitsSound, NotWaiting,
           SlotInv, TypeInv, TypeOK, Goto, Finish, useVars, slotVars, callVars, engVars
  <2>1. ASSUME NEW c \in Callers, NEW t \in TypesOf[c], AllocSlot(c, t) PROVE G
    BY <2>1 DEF AllocSlot
  <2>2. ASSUME NEW c \in Callers, FillSlot(c) PROVE G
    BY <2>2 DEF FillSlot
  <2>3. ASSUME NEW c \in Callers, IoctlAccepted(c) PROVE G
    BY <2>3 DEF IoctlAccepted
  <2>4. ASSUME NEW c \in Callers, IoctlBusy(c) PROVE G
    BY <2>4 DEF IoctlBusy
  <2>5. ASSUME NEW c \in Callers, IoctlRefused(c) PROVE G
    BY <2>5 DEF IoctlRefused
  <2>6. ASSUME NEW c \in Callers, WaitCallback(c) PROVE G
    BY <2>6 DEF WaitCallback
  <2>7. ASSUME NEW c \in Callers, WakeUp(c) PROVE G
    BY <2>7 DEF WakeUp
  <2>8. ASSUME NEW c \in Callers, FreeSlot(c) PROVE G
    BY <2>8 DEF FreeSlot
  <2>9. ASSUME NEW c \in Callers, Expire(c) PROVE G
    BY <2>9 DEF Expire
  <2>10. ASSUME NEW c \in Callers, Spurious(c) PROVE G
    BY <2>10 DEF Spurious
  <2>11. ASSUME NEW r \in reports, ReportArrives(r) PROVE G
    BY <2>11, ReportEffects
  <2>12. CASE OtherEvent
    BY <2>12, RetryOne DEF OtherEvent
  <2>13. CASE EngineDone
    BY <2>13 DEF EngineDone
  <2>14. CASE EngineForgetsCall
    BY <2>14 DEF EngineForgetsCall
  <2> QED
    BY <2>1, <2>2, <2>3, <2>4, <2>5, <2>6, <2>7, <2>8, <2>9, <2>10, <2>11, <2>12, <2>13, <2>14
       DEF Next, CallerStep
<1> QED
    BY <1>1, CallAlways, PTL DEF RightType, Spec
=============================================================================
