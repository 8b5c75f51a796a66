--------------------------- MODULE RilWatchProofs ---------------------------
(***************************************************************************)
(* What the operations on libril's watch table preserve, for every number  *)
(* of slots, every set of events and every range of descriptors.           *)
(***************************************************************************)
EXTENDS RilWatch, WellFoundedInduction, TLAPS

(* The order of the naturals, as the relation of the library's theorems.   *)
LEMMA NatOrder == IsWellFoundedOn({ss \in Nat \X Nat : ss[1] < ss[2]}, Nat)
BY NatLessThanWellFounded, Zenon DEF OpToRel

(* A scan that takes the first free slot finds one if there is one.        *)
LEMMA LeastExists ==
    ASSUME NEW T \in SUBSET Nat, T # {}
    PROVE  \E m \in T : \A k \in T : m <= k
<1> DEFINE R == {ss \in Nat \X Nat : ss[1] < ss[2]}
<1>1. IsWellFoundedOn(R, Nat)
  BY NatOrder
<1>2. PICK x \in T : \A y \in T : ~ (<<y, x>> \in R)
  BY <1>1, WFMin, Zenon
<1>3. \A y \in T : ~ (y < x)
  BY <1>2
<1> QED
  BY <1>3

(* The loop of removeWatch finds the largest of a bounded set.             *)
LEMMA GreatestExists ==
    ASSUME NEW b \in Nat, NEW T \in SUBSET (0 .. b), T # {}
    PROVE  \E m \in T : \A k \in T : k <= m
<1> DEFINE U == {b - k : k \in T}
<1>1. \A k \in T : k \in 0 .. b /\ b - k \in Nat
  OBVIOUS
<1>a. U \in SUBSET Nat
  BY <1>1
<1>b. U # {}
  <2>1. PICK k \in T : TRUE
    OBVIOUS
  <2>2. b - k \in U
    BY <2>1
  <2> QED
    BY <2>2
<1>2. PICK u \in U : \A v \in U : u <= v
  BY <1>a, <1>b, LeastExists
<1>3. PICK m \in T : u = b - m
  BY <1>2
<1>4. \A k \in T : k <= m
  <2> TAKE k \in T
  <2>1. b - k \in U
    OBVIOUS
  <2>2. u <= b - k
    BY <1>2, <2>1
  <2> QED
    BY <1>1, <1>3, <2>2
<1> QED
  BY <1>4
-----------------------------------------------------------------------------
(* ril_event_add takes a free slot.                                        *)
LEMMA FirstFreeIsFree ==
    ASSUME NEW w, FreeSlots(w) # {}
    PROVE  FirstFree(w) \in Slots /\ w.table[FirstFree(w)] = NULL
<1>1. FreeSlots(w) \in SUBSET Nat
  BY WatchAssumption DEF FreeSlots, Slots
<1>2. \E i \in FreeSlots(w) : \A j \in FreeSlots(w) : i <= j
  BY <1>1, LeastExists
<1>3. FirstFree(w) \in FreeSlots(w)
  BY <1>2 DEF FirstFree
<1> QED
  BY <1>3 DEF FreeSlots

(* removeWatch's loop ends with a descriptor at or above every watched one.*)
LEMMA MaxWatchedBounds ==
    ASSUME NEW table \in [Slots -> Events \cup {NULL}], NEW fd \in [Events -> Fds \cup {-1}]
    PROVE  /\ MaxWatched(table, fd) \in Fds
           /\ \A i \in Slots : table[i] # NULL => fd[table[i]] <= MaxWatched(table, fd)
<1> DEFINE F == TableFds(table, fd) \cup {0}
           P == F \ {-1}
           max == MaxWatched(table, fd)
<1>1. F \subseteq Fds \cup {-1} /\ 0 \in F
  BY WatchAssumption DEF TableFds, Fds
<1>2. P \in SUBSET (0 .. MaxFd) /\ P # {}
  BY <1>1, WatchAssumption DEF Fds
<1>3. PICK m \in P : \A k \in P : k <= m
  BY <1>2, GreatestExists, WatchAssumption
<1>4. m \in F /\ \A k \in F : k <= m
  BY <1>1, <1>2, <1>3, WatchAssumption DEF Fds
<1>5. max \in F /\ \A k \in F : k <= max
  BY <1>4 DEF MaxWatched
<1>6. max \in Fds
  BY <1>1, <1>5, WatchAssumption DEF Fds
<1>7. \A i \in Slots : table[i] # NULL => fd[table[i]] \in F
  BY DEF TableFds
<1> QED
  BY <1>5, <1>6, <1>7
-----------------------------------------------------------------------------
(* ril_event_add's first half writes these fields and no other.            *)
LEMMA AddSlotFields ==
    ASSUME NEW w \in Watch, NEW e \in Events
    PROVE  /\ AddSlot(w, e).fd = w.fd /\ AddSlot(w, e).persist = w.persist
           /\ AddSlot(w, e).nfds = w.nfds
           /\ FreeSlots(w) # {} =>
                 /\ AddSlot(w, e).table = [w.table EXCEPT ![FirstFree(w)] = e]
                 /\ AddSlot(w, e).index = [w.index EXCEPT ![e] = FirstFree(w)]
                 /\ AddSlot(w, e).readFds = w.readFds \cup ({w.fd[e]} \cap Fds)
           /\ FreeSlots(w) = {} => AddSlot(w, e) = w
           /\ AddSlot(w, e) \in Watch
<1>1. CASE FreeSlots(w) = {}
  BY <1>1 DEF AddSlot
<1>2. CASE FreeSlots(w) # {}
  <2> DEFINE table == [w.table EXCEPT ![FirstFree(w)] = e]
             index == [w.index EXCEPT ![e] = FirstFree(w)]
             rfds  == w.readFds \cup ({w.fd[e]} \cap Fds)
             v     == AddSlot(w, e)
  <2>1. FirstFree(w) \in Slots
    BY <1>2, FirstFreeIsFree
  <2>2. table \in [Slots -> Events \cup {NULL}] /\ index \in [Events -> Slots \cup {-1}]
    BY <2>1 DEF Watch
  <2>3. rfds \in SUBSET Fds
    BY DEF Watch
  <2>4. v = [w EXCEPT !.table = table, !.index = index, !.readFds = rfds]
    BY <1>2 DEF AddSlot
  <2> HIDE DEF table, index, rfds
  <2>5. /\ v.table = table /\ v.index = index /\ v.readFds = rfds
        /\ v.fd = w.fd /\ v.persist = w.persist /\ v.nfds = w.nfds
    BY <2>4 DEF Watch
  <2>6. v \in Watch
    BY <2>2, <2>3, <2>4 DEF Watch
  <2> QED
    BY <1>2, <2>5, <2>6 DEF table, index, rfds
<1> QED
  BY <1>1, <1>2

(* The second half raises nfds, and only nfds, above the event's           *)
(* descriptor.                                                             *)
LEMMA AddNfdsFields ==
    ASSUME NEW w \in Watch, NEW e \in Events
    PROVE  /\ AddNfds(w, e) \in Watch
           /\ AddNfds(w, e).table = w.table /\ AddNfds(w, e).index = w.index
           /\ AddNfds(w, e).fd = w.fd /\ AddNfds(w, e).persist = w.persist
           /\ AddNfds(w, e).readFds = w.readFds
           /\ w.nfds <= AddNfds(w, e).nfds
           /\ w.index[e] # -1 => w.fd[e] < AddNfds(w, e).nfds
<1>1. w.nfds \in 0 .. (MaxFd + 1) /\ w.fd[e] \in Fds \cup {-1} /\ w.index[e] \in Slots \cup {-1}
  BY DEF Watch
<1>2. CASE w.index[e] \in Slots /\ w.fd[e] >= w.nfds
  <2>1. AddNfds(w, e) = [w EXCEPT !.nfds = w.fd[e] + 1]
    BY <1>2 DEF AddNfds
  <2>2. w.fd[e] + 1 \in 0 .. (MaxFd + 1) /\ w.nfds <= w.fd[e] + 1 /\ w.fd[e] < w.fd[e] + 1
    BY <1>1, <1>2, WatchAssumption DEF Fds
  <2> QED
    BY <2>1, <2>2 DEF Watch
<1>3. CASE ~(w.index[e] \in Slots /\ w.fd[e] >= w.nfds)
  <2>1. AddNfds(w, e) = w
    BY <1>3 DEF AddNfds
  <2>2. w.index[e] # -1 => w.fd[e] < w.nfds
    BY <1>1, <1>3, WatchAssumption DEF Fds
  <2> QED
    BY <1>1, <2>1, <2>2, WatchAssumption
<1> QED
  BY <1>2, <1>3

(* removeWatch's result, field by field.                                   *)
LEMMA RemoveWatchFields ==
    ASSUME NEW w \in Watch, NEW slots \in SUBSET Slots
    PROVE  /\ RemoveWatch(w, slots) \in Watch
           /\ RemoveWatch(w, slots).table = [i \in Slots |-> IF i \in slots THEN NULL ELSE w.table[i]]
           /\ RemoveWatch(w, slots).index =
                 [e \in Events |-> IF e \in {w.table[i] : i \in slots} THEN -1 ELSE w.index[e]]
           /\ RemoveWatch(w, slots).fd = w.fd /\ RemoveWatch(w, slots).persist = w.persist
           /\ RemoveWatch(w, slots).readFds = w.readFds \ {w.fd[e] : e \in {w.table[i] : i \in slots}}
           /\ \A i \in Slots \ slots : w.table[i] # NULL /\ w.fd[w.table[i]] < w.nfds =>
                 w.fd[w.table[i]] < RemoveWatch(w, slots).nfds
<1> DEFINE gone  == {w.table[i] : i \in slots}
           table == [i \in Slots |-> IF i \in slots THEN NULL ELSE w.table[i]]
           n     == IF \E e \in gone : w.fd[e] + 1 = w.nfds THEN MaxWatched(table, w.fd) + 1 ELSE w.nfds
           v     == RemoveWatch(w, slots)
<1>1. v = [w EXCEPT !.table = table,
                    !.index = [e \in Events |-> IF e \in gone THEN -1 ELSE w.index[e]],
                    !.readFds = @ \ {w.fd[e] : e \in gone},
                    !.nfds = n]
  BY DEF RemoveWatch
<1>2. table \in [Slots -> Events \cup {NULL}] /\ w.fd \in [Events -> Fds \cup {-1}]
  BY DEF Watch
<1>3. MaxWatched(table, w.fd) \in Fds
  BY <1>2, MaxWatchedBounds
<1>4. \A i \in Slots : table[i] # NULL => w.fd[table[i]] <= MaxWatched(table, w.fd)
  BY <1>2, MaxWatchedBounds
<1> HIDE DEF table
<1>5. n \in 0 .. (MaxFd + 1)
  BY <1>3, WatchAssumption DEF Watch, Fds
<1>6. \A i \in Slots \ slots : w.table[i] # NULL /\ w.fd[w.table[i]] < w.nfds => w.fd[w.table[i]] < n
  <2> SUFFICES ASSUME NEW i \in Slots \ slots, w.table[i] # NULL, w.fd[w.table[i]] < w.nfds
               PROVE  w.fd[w.table[i]] < n
    OBVIOUS
  <2>1. table[i] = w.table[i]
    BY DEF table
  <2>2. w.fd[w.table[i]] <= MaxWatched(table, w.fd)
    BY <1>4, <2>1
  <2>3. w.fd[w.table[i]] \in Fds \cup {-1}
    BY <1>2 DEF Watch
  <2> QED
    BY <1>3, <2>2, <2>3, WatchAssumption DEF Fds
<1> HIDE DEF n
<1>7. [e \in Events |-> IF e \in gone THEN -1 ELSE w.index[e]] \in [Events -> Slots \cup {-1}]
  BY DEF Watch
<1>8. v \in Watch
  BY <1>1, <1>2, <1>5, <1>7 DEF Watch
<1>9. /\ v.table = table
      /\ v.index = [e \in Events |-> IF e \in gone THEN -1 ELSE w.index[e]]
      /\ v.fd = w.fd /\ v.persist = w.persist
      /\ v.readFds = w.readFds \ {w.fd[e] : e \in gone}
      /\ v.nfds = n
  BY <1>1 DEF Watch
<1> QED
  BY <1>6, <1>8, <1>9 DEF table
-----------------------------------------------------------------------------
(* Adding an event that is not watched, with a descriptor nobody watches,  *)
(* keeps slots, index fields and readFds consistent.                       *)
LEMMA AddSlotKeepsTable ==
    ASSUME NEW w \in Watch, NEW e \in Events,
           IndexOK(w), FdsOK(w), ~Watched(w, e), w.fd[e] \in Fds,
           \A f \in Events : Watched(w, f) => w.fd[f] # w.fd[e]
    PROVE  /\ IndexOK(AddSlot(w, e)) /\ FdsOK(AddSlot(w, e))
           /\ \A f \in Events : Watched(w, f) => Watched(AddSlot(w, e), f)
           /\ \A f \in Events : Watched(AddSlot(w, e), f) => Watched(w, f) \/ f = e
           /\ FreeSlots(w) # {} => Watched(AddSlot(w, e), e)
<1> DEFINE v == AddSlot(w, e)
<1>1. CASE FreeSlots(w) = {}
  BY <1>1, AddSlotFields
<1>2. CASE FreeSlots(w) # {}
  <2> DEFINE s == FirstFree(w)
  <2>1. s \in Slots /\ w.table[s] = NULL
    BY <1>2, FirstFreeIsFree
  <2>2. /\ v.table = [w.table EXCEPT ![s] = e] /\ v.index = [w.index EXCEPT ![e] = s]
        /\ v.readFds = w.readFds \cup {w.fd[e]} /\ v.fd = w.fd
    BY <1>2, AddSlotFields
  <2>3. /\ w.table \in [Slots -> Events \cup {NULL}] /\ w.index \in [Events -> Slots \cup {-1}]
        /\ -1 \notin Slots /\ NULL \notin Events
    BY WatchAssumption DEF Watch, Slots
  <2> HIDE DEF v, s
  <2>4. \A f \in Events : Watched(v, f) <=> Watched(w, f) \/ f = e
    BY <2>1, <2>2, <2>3 DEF Watched
  <2>5. IndexOK(v)
    <3>1. ASSUME NEW i \in Slots, v.table[i] # NULL PROVE v.index[v.table[i]] = i
      <4>1. CASE i = s
        BY <2>1, <2>2, <2>3, <4>1
      <4>2. CASE i # s
        <5>1. v.table[i] = w.table[i]
          BY <2>1, <2>2, <2>3, <4>2
        <5>2. w.index[w.table[i]] = i /\ w.table[i] \in Events
          BY <2>3, <3>1, <5>1 DEF IndexOK
        <5>3. w.table[i] # e
          BY <2>3, <5>2 DEF Watched
        <5> QED
          BY <2>2, <2>3, <5>1, <5>2, <5>3
      <4> QED
        BY <4>1, <4>2
    <3>2. ASSUME NEW f \in Events, v.index[f] # -1 PROVE v.table[v.index[f]] = f
      <4>1. CASE f = e
        BY <2>1, <2>2, <2>3, <4>1
      <4>2. CASE f # e
        <5>1. v.index[f] = w.index[f]
          BY <2>2, <2>3, <4>2
        <5>2. w.table[w.index[f]] = f /\ w.index[f] \in Slots
          BY <2>3, <3>2, <5>1 DEF IndexOK
        <5>3. w.index[f] # s
          BY <2>1, <2>3, <5>2
        <5> QED
          BY <2>2, <2>3, <5>1, <5>2, <5>3
      <4> QED
        BY <4>1, <4>2
    <3> QED
      BY <3>1, <3>2 DEF IndexOK
  <2>6. FdsOK(v)
    <3>1. \A f \in Events : Watched(v, f) => v.fd[f] \in Fds
      BY <2>2, <2>4 DEF FdsOK
    <3>2. \A f, g \in Events : Watched(v, f) /\ Watched(v, g) /\ f # g => v.fd[f] # v.fd[g]
      BY <2>2, <2>4 DEF FdsOK
    <3>3. v.readFds = {v.fd[f] : f \in {g \in Events : Watched(v, g)}}
      <4>1. w.readFds = {w.fd[f] : f \in {g \in Events : Watched(w, g)}}
        BY DEF FdsOK
      <4>2. {g \in Events : Watched(v, g)} = {g \in Events : Watched(w, g)} \cup {e}
        BY <2>4
      <4> QED
        BY <2>2, <4>1, <4>2
    <3> QED
      BY <3>1, <3>2, <3>3 DEF FdsOK
  <2> QED
    BY <2>4, <2>5, <2>6 DEF v
<1> QED
  BY <1>1, <1>2

(* Raising nfds changes neither what is watched nor the table.             *)
LEMMA AddNfdsKeepsTable ==
    ASSUME NEW w \in Watch, NEW e \in Events
    PROVE  /\ IndexOK(w) => IndexOK(AddNfds(w, e))
           /\ FdsOK(w) => FdsOK(AddNfds(w, e))
           /\ \A f \in Events : Watched(AddNfds(w, e), f) <=> Watched(w, f)
<1> DEFINE v == AddNfds(w, e)
<1>1. v.table = w.table /\ v.index = w.index /\ v.fd = w.fd /\ v.readFds = w.readFds
  BY AddNfdsFields
<1> HIDE DEF v
<1>2. \A f \in Events : Watched(v, f) <=> Watched(w, f)
  BY <1>1 DEF Watched
<1>3. IndexOK(w) => IndexOK(v)
  BY <1>1 DEF IndexOK
<1>4. FdsOK(w) => FdsOK(v)
  <2>1. {f \in Events : Watched(v, f)} = {f \in Events : Watched(w, f)}
    BY <1>2
  <2> QED
    BY <1>1, <1>2, <2>1 DEF FdsOK
<1> QED
  BY <1>2, <1>3, <1>4 DEF v

(* Removing the events of occupied slots keeps the table consistent, and   *)
(* nfds still covers every event that stays and was covered.               *)
LEMMA RemoveWatchKeepsTable ==
    ASSUME NEW w \in Watch, NEW slots \in SUBSET Slots,
           \A i \in slots : w.table[i] # NULL,
           IndexOK(w), FdsOK(w)
    PROVE  /\ IndexOK(RemoveWatch(w, slots)) /\ FdsOK(RemoveWatch(w, slots))
           /\ \A f \in Events :
                 Watched(RemoveWatch(w, slots), f) <=> Watched(w, f) /\ w.index[f] \notin slots
           /\ \A f \in Events :
                 Watched(RemoveWatch(w, slots), f) /\ w.fd[f] < w.nfds =>
                    w.fd[f] < RemoveWatch(w, slots).nfds
<1> DEFINE v == RemoveWatch(w, slots)
           gone == {w.table[i] : i \in slots}
<1>1. /\ v.table = [i \in Slots |-> IF i \in slots THEN NULL ELSE w.table[i]]
      /\ v.index = [e \in Events |-> IF e \in gone THEN -1 ELSE w.index[e]]
      /\ v.fd = w.fd
      /\ v.readFds = w.readFds \ {w.fd[e] : e \in gone}
  BY RemoveWatchFields
<1>2. \A i \in Slots \ slots : w.table[i] # NULL /\ w.fd[w.table[i]] < w.nfds =>
         w.fd[w.table[i]] < v.nfds
  BY RemoveWatchFields
<1>3. /\ w.table \in [Slots -> Events \cup {NULL}] /\ w.index \in [Events -> Slots \cup {-1}]
      /\ -1 \notin Slots /\ NULL \notin Events
  BY WatchAssumption DEF Watch, Slots
<1> HIDE DEF v
<1>4. \A f \in Events : f \in gone <=> Watched(w, f) /\ w.index[f] \in slots
  BY <1>3 DEF IndexOK, Watched
<1>5. \A f \in Events : Watched(v, f) <=> Watched(w, f) /\ w.index[f] \notin slots
  BY <1>1, <1>3, <1>4 DEF Watched
<1>6. gone \subseteq Events
  BY <1>3
<1>7. IndexOK(v)
  <2>1. ASSUME NEW i \in Slots, v.table[i] # NULL PROVE v.index[v.table[i]] = i
    <3>1. i \notin slots /\ v.table[i] = w.table[i]
      BY <1>1, <2>1
    <3>2. w.table[i] \in Events /\ w.index[w.table[i]] = i
      BY <1>3, <2>1, <3>1 DEF IndexOK
    <3>3. w.table[i] \notin gone
      BY <1>4, <3>1, <3>2
    <3> QED
      BY <1>1, <3>1, <3>2, <3>3
  <2>2. ASSUME NEW f \in Events, v.index[f] # -1 PROVE v.table[v.index[f]] = f
    <3>1. f \notin gone /\ v.index[f] = w.index[f]
      BY <1>1, <2>2
    <3>2. w.index[f] \in Slots /\ w.table[w.index[f]] = f
      BY <1>3, <2>2, <3>1 DEF IndexOK
    <3>3. w.index[f] \notin slots
      BY <1>3, <1>4, <3>1, <3>2 DEF Watched
    <3> QED
      BY <1>1, <3>1, <3>2, <3>3
  <2> QED
    BY <2>1, <2>2 DEF IndexOK
<1>8. FdsOK(v)
  <2>1. \A f \in Events : Watched(v, f) => v.fd[f] \in Fds
    BY <1>1, <1>5 DEF FdsOK
  <2>2. \A f, g \in Events : Watched(v, f) /\ Watched(v, g) /\ f # g => v.fd[f] # v.fd[g]
    BY <1>1, <1>5 DEF FdsOK
  <2>3. v.readFds = {v.fd[f] : f \in {g \in Events : Watched(v, g)}}
    <3>1. w.readFds = {w.fd[f] : f \in {g \in Events : Watched(w, g)}}
      BY DEF FdsOK
    <3>2. \A f \in Events : Watched(v, f) <=> Watched(w, f) /\ f \notin gone
      BY <1>4, <1>5
    <3>3. \A f, g \in Events : Watched(w, f) /\ Watched(w, g) /\ f # g => w.fd[f] # w.fd[g]
      BY DEF FdsOK
    <3>4. \A f \in gone : f \in Events /\ Watched(w, f)
      BY <1>4, <1>6
    <3> HIDE DEF gone
    <3> QED
      BY <1>1, <3>1, <3>2, <3>3, <3>4
  <2> QED
    BY <2>1, <2>2, <2>3 DEF FdsOK
<1>9. \A f \in Events : Watched(v, f) /\ w.fd[f] < w.nfds => w.fd[f] < v.nfds
  <2> SUFFICES ASSUME NEW f \in Events, Watched(v, f), w.fd[f] < w.nfds
               PROVE  w.fd[f] < v.nfds
    OBVIOUS
  <2>1. w.index[f] \in Slots \ slots /\ w.table[w.index[f]] = f
    BY <1>3, <1>5 DEF Watched, IndexOK
  <2> QED
    BY <1>2, <1>3, <2>1
<1> QED
  BY <1>5, <1>7, <1>8, <1>9 DEF v
-----------------------------------------------------------------------------
(* ril_event_add, both halves: the table stays consistent and nfds covers  *)
(* every watched descriptor.                                               *)
LEMMA EventAddKeepsTable ==
    ASSUME NEW w \in Watch, NEW e \in Events,
           IndexOK(w), FdsOK(w), NfdsOK(w), ~Watched(w, e), w.fd[e] \in Fds,
           \A f \in Events : Watched(w, f) => w.fd[f] # w.fd[e]
    PROVE  /\ EventAdd(w, e) \in Watch
           /\ EventAdd(w, e).fd = w.fd /\ EventAdd(w, e).persist = w.persist
           /\ IndexOK(EventAdd(w, e)) /\ FdsOK(EventAdd(w, e)) /\ NfdsOK(EventAdd(w, e))
           /\ \A f \in Events \ {e} : Watched(EventAdd(w, e), f) <=> Watched(w, f)
           /\ FreeSlots(w) # {} => Watched(EventAdd(w, e), e)
<1> DEFINE v == AddSlot(w, e)
           u == AddNfds(v, e)
<1>1. /\ v \in Watch /\ v.fd = w.fd /\ v.persist = w.persist /\ v.nfds = w.nfds
  BY AddSlotFields
<1>2. /\ IndexOK(v) /\ FdsOK(v)
      /\ \A f \in Events \ {e} : Watched(v, f) <=> Watched(w, f)
      /\ FreeSlots(w) # {} => Watched(v, e)
  BY AddSlotKeepsTable
<1> HIDE DEF v
<1>3. /\ u \in Watch /\ u.fd = v.fd /\ u.persist = v.persist /\ v.nfds <= u.nfds
      /\ v.index[e] # -1 => v.fd[e] < u.nfds
  BY <1>1, AddNfdsFields
<1>4. /\ IndexOK(u) /\ FdsOK(u)
      /\ \A f \in Events : Watched(u, f) <=> Watched(v, f)
  BY <1>1, <1>2, AddNfdsKeepsTable
<1> HIDE DEF u
<1>5. ASSUME NEW f \in Events, Watched(u, f) PROVE u.fd[f] < u.nfds
  <2>1. CASE f = e
    BY <1>3, <1>4, <1>5, <2>1 DEF Watched
  <2>2. CASE f # e
    <3>1. w.fd[f] < w.nfds
      BY <1>2, <1>4, <1>5, <2>2 DEF NfdsOK
    <3>2. w.fd[f] \in Int /\ w.nfds \in Int /\ u.nfds \in Int
      BY <1>3, WatchAssumption DEF Watch, Fds
    <3> QED
      BY <1>1, <1>3, <3>1, <3>2
  <2> QED
    BY <2>1, <2>2
<1>6. EventAdd(w, e) = u
  BY DEF EventAdd, u, v
<1> QED
  BY <1>1, <1>2, <1>3, <1>4, <1>5, <1>6 DEF NfdsOK

(* ril_event_del: the event leaves the table, every other one stays.       *)
LEMMA EventDelKeepsTable ==
    ASSUME NEW w \in Watch, NEW e \in Events, IndexOK(w), FdsOK(w), NfdsOK(w)
    PROVE  /\ EventDel(w, e) \in Watch
           /\ EventDel(w, e).fd = w.fd /\ EventDel(w, e).persist = w.persist
           /\ IndexOK(EventDel(w, e)) /\ FdsOK(EventDel(w, e)) /\ NfdsOK(EventDel(w, e))
           /\ \A f \in Events \ {e} : Watched(EventDel(w, e), f) <=> Watched(w, f)
<1>1. w.index \in [Events -> Slots \cup {-1}] /\ -1 \notin Slots
  BY WatchAssumption DEF Watch, Slots
<1>2. CASE w.index[e] \notin Slots
  BY <1>2 DEF EventDel
<1>3. CASE w.index[e] \in Slots
  <2> DEFINE slots == {w.index[e]}
             v     == RemoveWatch(w, slots)
  <2>1. slots \in SUBSET Slots /\ \A i \in slots : w.table[i] = e /\ w.table[i] # NULL
    BY <1>1, <1>3, WatchAssumption DEF IndexOK
  <2>2. v \in Watch /\ v.fd = w.fd /\ v.persist = w.persist
    BY <2>1, RemoveWatchFields
  <2>3. /\ IndexOK(v) /\ FdsOK(v)
        /\ \A f \in Events : Watched(v, f) <=> Watched(w, f) /\ w.index[f] \notin slots
        /\ \A f \in Events : Watched(v, f) /\ w.fd[f] < w.nfds => w.fd[f] < v.nfds
    BY <2>1, RemoveWatchKeepsTable
  <2>4. EventDel(w, e) = v
    BY <1>3 DEF EventDel
  <2> HIDE DEF v
  <2>5. NfdsOK(v)
    BY <2>2, <2>3 DEF NfdsOK
  <2>6. \A f \in Events \ {e} : Watched(w, f) => w.index[f] \notin slots
    BY <1>1 DEF IndexOK, Watched
  <2> QED
    BY <2>2, <2>3, <2>4, <2>5, <2>6
<1> QED
  BY <1>2, <1>3

(* processReadReadies removes one-shot events only.                        *)
LEMMA DropOneShotsKeepsTable ==
    ASSUME NEW w \in Watch, NEW slots \in SUBSET Slots,
           \A i \in slots : w.table[i] # NULL,
           IndexOK(w), FdsOK(w), NfdsOK(w)
    PROVE  /\ DropOneShots(w, slots) \in Watch
           /\ DropOneShots(w, slots).fd = w.fd /\ DropOneShots(w, slots).persist = w.persist
           /\ IndexOK(DropOneShots(w, slots)) /\ FdsOK(DropOneShots(w, slots))
           /\ NfdsOK(DropOneShots(w, slots))
           /\ \A f \in Events : w.persist[f] =>
                 (Watched(DropOneShots(w, slots), f) <=> Watched(w, f))
<1> DEFINE drop == {i \in slots : ~w.persist[w.table[i]]}
           v    == RemoveWatch(w, drop)
<1>1. drop \in SUBSET Slots /\ \A i \in drop : w.table[i] # NULL
  OBVIOUS
<1>2. v \in Watch /\ v.fd = w.fd /\ v.persist = w.persist
  BY <1>1, RemoveWatchFields
<1>3. /\ IndexOK(v) /\ FdsOK(v)
      /\ \A f \in Events : Watched(v, f) <=> Watched(w, f) /\ w.index[f] \notin drop
      /\ \A f \in Events : Watched(v, f) /\ w.fd[f] < w.nfds => w.fd[f] < v.nfds
  BY <1>1, RemoveWatchKeepsTable
<1>4. DropOneShots(w, slots) = v
  BY DEF DropOneShots
<1> HIDE DEF v
<1>5. NfdsOK(v)
  BY <1>2, <1>3 DEF NfdsOK
<1>6. \A f \in Events : w.persist[f] /\ Watched(w, f) => w.index[f] \notin drop
  BY DEF IndexOK, Watched
<1> QED
  BY <1>2, <1>3, <1>4, <1>5, <1>6
=============================================================================
