------------------------------ MODULE RilWatch ------------------------------
(***************************************************************************)
(* The watch table of libril's event library                               *)
(* (ril/ril-legacy/libril/ril_event.cpp): watch_table, the index, fd and   *)
(* persist fields of each struct ril_event, the global readFds set and     *)
(* nfds.  The table is one record, and every library call that works on it *)
(* under listMutex is an operator from the old record to the new one, so   *)
(* that a callback making several calls is their composition.              *)
(***************************************************************************)
EXTENDS Integers, FiniteSets

CONSTANTS
    Events,          \* the struct ril_event objects that watch a descriptor
    MAX_FD_EVENTS,   \* ril_event.h: the number of slots of watch_table
    MaxFd,           \* bound: descriptors are 0 .. MaxFd
    NULL             \* the null pointer

ASSUME WatchAssumption ==
    /\ MAX_FD_EVENTS \in Nat \ {0}
    /\ MaxFd \in Nat
    /\ NULL \notin Events

Slots == 0 .. (MAX_FD_EVENTS - 1)
Fds   == 0 .. MaxFd

Watch == [table   : [Slots -> Events \cup {NULL}],
          index   : [Events -> Slots \cup {-1}],
          fd      : [Events -> Fds \cup {-1}],
          persist : [Events -> BOOLEAN],
          readFds : SUBSET Fds,
          nfds    : 0 .. (MaxFd + 1)]

(* ril_event_init: FD_ZERO and an empty table; nfds is statically 0.       *)
NoWatch(fd, persist) ==
    [table   |-> [i \in Slots |-> NULL],
     index   |-> [e \in Events |-> -1],
     fd      |-> fd,
     persist |-> persist,
     readFds |-> {},
     nfds    |-> 0]

(* ril_event_set: memset of the event, whatever list or table holds it.    *)
EventSet(w, e, fd, persist) ==
    [w EXCEPT !.fd[e] = fd, !.index[e] = -1, !.persist[e] = persist]

FreeSlots(w) == {i \in Slots : w.table[i] = NULL}
FirstFree(w) == CHOOSE i \in FreeSlots(w) : \A j \in FreeSlots(w) : i <= j

(* The descriptors some slot of a table refers to.                         *)
TableFds(table, fd) == {fd[table[i]] : i \in {j \in Slots : table[j] # NULL}}

(* removeWatch's loop: the largest watched descriptor, but at least 0.     *)
MaxWatched(table, fd) ==
    LET fds == TableFds(table, fd) \cup {0}
    IN  CHOOSE n \in fds : \A m \in fds : m <= n

(* ril_event_add, in the order of its writes under listMutex: the slot and *)
(* FD_SET first, then nfds.  An event that finds the table full is dropped *)
(* without a word.                                                         *)
AddSlot(w, e) ==
    IF FreeSlots(w) = {} THEN w
    ELSE [w EXCEPT !.table = [@ EXCEPT ![FirstFree(w)] = e],
                   !.index = [@ EXCEPT ![e] = FirstFree(w)],
                   !.readFds = @ \cup ({w.fd[e]} \cap Fds)]  \* FD_SET(-1) misses the set
(* Faulty variant of the second write: nfds is the descriptor itself.      *)
AddNfdsShort(w, e) ==
    IF w.index[e] \in Slots /\ w.fd[e] >= w.nfds THEN [w EXCEPT !.nfds = w.fd[e]] ELSE w

AddNfds(w, e) ==
    IF w.index[e] \in Slots /\ w.fd[e] >= w.nfds
    THEN [w EXCEPT !.nfds = w.fd[e] + 1] ELSE w
EventAdd(w, e) == AddNfds(AddSlot(w, e), e)

(* removeWatch, for a set of slots: removing them one by one or together   *)
(* gives the same table, since nfds is recomputed whenever the descriptor  *)
(* it comes from goes.                                                     *)
RemoveWatch(w, slots) ==
    LET gone  == {w.table[i] : i \in slots}
        table == [i \in Slots |-> IF i \in slots THEN NULL ELSE w.table[i]]
    IN  [w EXCEPT !.table = table,
                  !.index = [e \in Events |-> IF e \in gone THEN -1 ELSE w.index[e]],
                  !.readFds = @ \ {w.fd[e] : e \in gone},
                  !.nfds = IF \E e \in gone : w.fd[e] + 1 = @
                           THEN MaxWatched(table, w.fd) + 1 ELSE @]

(* ril_event_del: nothing to do for an event that is not in the table.     *)
EventDel(w, e) == IF w.index[e] \in Slots THEN RemoveWatch(w, {w.index[e]}) ELSE w

(* processReadReadies: the slots whose descriptor select reported, in      *)
(* table order and at most as many as there are reported descriptors.      *)
ReadySlots(w, rfds) ==
    LET hit == {i \in Slots : w.table[i] # NULL /\ w.fd[w.table[i]] \in rfds}
    IN  {i \in hit : Cardinality({j \in hit : j < i}) < Cardinality(rfds)}
(* The one-shot events among them leave the table at once.                 *)
DropOneShots(w, slots) == RemoveWatch(w, {i \in slots : ~w.persist[w.table[i]]})

Watched(w, e) == w.index[e] # -1
-----------------------------------------------------------------------------
(* What makes a table usable: slots and index fields are inverse to each   *)
(* other, watched descriptors are real and distinct, readFds is exactly    *)
(* the set of watched descriptors.                                         *)
IndexOK(w) ==
    /\ \A i \in Slots : w.table[i] # NULL => w.index[w.table[i]] = i
    /\ \A e \in Events : w.index[e] # -1 => w.table[w.index[e]] = e
FdsOK(w) ==
    /\ \A e \in Events : Watched(w, e) => w.fd[e] \in Fds
    /\ \A e, f \in Events : Watched(w, e) /\ Watched(w, f) /\ e # f => w.fd[e] # w.fd[f]
    /\ w.readFds = {w.fd[e] : e \in {f \in Events : Watched(w, f)}}
(* select() looks at descriptors below nfds only.                          *)
NfdsOK(w) == \A e \in Events : Watched(w, e) => w.fd[e] < w.nfds
=============================================================================
