---------------------------- MODULE LibrilProofs -----------------------------
(***************************************************************************)
(* libril's ril.cpp, in two parts.  First the wake lock of the unsolicited *)
(* responses, for any number of threads, timer blocks and responses.  Then *)
(* the marshalling of RilCodec, for every list length, version and shape   *)
(* of message: a dispatch function hands on no number that it has not      *)
(* read, each message has the form that ril.h gives its type (RilContract),*)
(* and the client's own parsing and libril's agree.                        *)
(***************************************************************************)
EXTENDS RilUnsol, RilContract, FiniteSetTheorems, SequenceTheorems,
        WellFoundedInduction, TLAPS

(* The block whose callback the loop runs is not handed out again before   *)
(* userTimerCallback frees it.                                             *)
FiringArmed ==
    /\ lpc = "fired" => firing \in Infos /\ info[firing].st = "armed"
    /\ lpc # "fired" => firing = NULL

(* A quiet response exits before it comes to the timers.                   *)
LoudOnly == \A t \in Threads : pc[t] \in {"store", "cancel", "mark", "arm"} => kind[t] # "quiet"

LockInv == TypeOK /\ FiringArmed /\ LoudOnly /\ LockNotLeaked

(* An armed timer that will release the lock.                              *)
Releases(i) == info[i] = [st |-> "armed", for |-> "wake", param |-> 0] /\ i # firing

(* The initial state: nobody sends, no lock is held.                       *)
LEMMA InitLock == Init => LockInv
<1> SUFFICES ASSUME Init PROVE LockInv
    OBVIOUS
<1>1. TypeOK
  <2>1. /\ 0 \in 0 .. MaxNitz /\ 0 \in 0 .. MaxConnects /\ 0 \in 0 .. MaxNested /\ 0 \in 0 .. 2
        /\ {} \subseteq 0 .. MaxNitz
    BY UnsolAssumption
  <2>2. info \in [Infos -> [st : {"free", "armed"}, for : {"wake", "user"}, param : {0, 1}]]
    BY DEF Init, Free
  <2> QED
    BY <2>1, <2>2 DEF Init, TypeOK, Kinds
<1>2. FiringArmed /\ LoudOnly /\ LockNotLeaked
    BY DEF Init, FiringArmed, LoudOnly, LockNotLeaked
<1> QED
    BY <1>1, <1>2 DEF LockInv

(* Every step keeps the types.                                             *)
LEMMA TypeStep == TypeOK /\ FiringArmed /\ [Next]_vars => TypeOK'
<1> SUFFICES ASSUME TypeOK, FiringArmed, [Next]_vars PROVE TypeOK'
    OBVIOUS
<1> USE UnsolAssumption DEF TypeOK
<1>1. ASSUME NEW t \in VendorThreads, NEW k \in Kinds, VendorBegins(t, k) PROVE TypeOK'
    BY <1>1 DEF VendorBegins, Begin, Threads, Kinds, timerVars, loopVars
<1>2. ASSUME NEW t \in Threads, Notify(t) PROVE TypeOK'
    BY <1>2 DEF Notify, Kinds, timerVars, loopVars, nitzVars
<1>3. ASSUME NEW t \in Threads, BuildFails(t) PROVE TypeOK'
    BY <1>3 DEF BuildFails, timerVars, callVars, loopVars, nitzVars
<1>4. ASSUME NEW t \in Threads, Send(t) PROVE TypeOK'
    BY <1>4 DEF Send, timerVars, callVars, loopVars
<1>5. ASSUME NEW t \in Threads, StoreNitz(t) PROVE TypeOK'
    BY <1>5 DEF StoreNitz, timerVars, callVars, loopVars
<1>6. ASSUME NEW t \in Threads, CancelPrevious(t) PROVE TypeOK'
    BY <1>6 DEF CancelPrevious, timerVars, loopVars, nitzVars
<1>18. ASSUME NEW t \in Threads, MarkPrevious(t) PROVE TypeOK'
    BY <1>18 DEF MarkPrevious, loopVars, nitzVars
<1>7. ASSUME NEW t \in Threads, NEW i \in Infos, ArmRelease(t, i) PROVE TypeOK'
    BY <1>7 DEF ArmRelease, loopVars, nitzVars
<1>8. ASSUME NEW t \in Threads, Publish(t) PROVE TypeOK'
    BY <1>8 DEF Publish, Kinds, loopVars, nitzVars
<1>9. ASSUME NEW i \in Infos, ArmUser(i) PROVE TypeOK'
    BY <1>9 DEF ArmUser, callVars, loopVars, nitzVars
<1>10. ASSUME NEW i \in Infos, TimerFires(i) PROVE TypeOK'
    BY <1>10 DEF TimerFires, timerVars, callVars, nitzVars
<1>11. CASE TimerDone
    BY <1>11 DEF TimerDone, FiringArmed, Free, callVars, nitzVars
<1>12. CASE Announce
    BY <1>12 DEF Announce, Begin, Threads, Kinds, timerVars, nitzVars
<1>13. CASE ResendNitz
    BY <1>13 DEF ResendNitz, timerVars, callVars
<1>14. CASE FreeNitz
    BY <1>14 DEF FreeNitz, timerVars, callVars
<1>15. CASE Connect
    BY <1>15 DEF Connect, timerVars, callVars, nitzVars
<1>16. CASE Disconnect
    BY <1>16 DEF Disconnect, timerVars, callVars, nitzVars
<1>17. CASE UNCHANGED vars
    BY <1>17 DEF vars, timerVars, callVars, loopVars, nitzVars
<1> QED
    BY <1>1, <1>2, <1>3, <1>4, <1>5, <1>6, <1>7, <1>8, <1>9, <1>10, <1>11, <1>12, <1>13, <1>14,
       <1>15, <1>16, <1>17, <1>18 DEF Next, ResponseStep, LoopStep

(* Every step keeps the firing block to itself.                            *)
LEMMA FiringStep == TypeOK /\ FiringArmed /\ [Next]_vars => FiringArmed'
<1> SUFFICES ASSUME TypeOK, FiringArmed, [Next]_vars PROVE FiringArmed'
    OBVIOUS
<1> USE DEF TypeOK, FiringArmed
<1>1. ASSUME NEW t \in VendorThreads, NEW k \in Kinds, VendorBegins(t, k) PROVE FiringArmed'
    BY <1>1 DEF VendorBegins, Begin, Threads, timerVars, loopVars
<1>2. ASSUME NEW t \in Threads, Notify(t) PROVE FiringArmed'
    BY <1>2 DEF Notify, timerVars, loopVars
<1>3. ASSUME NEW t \in Threads, BuildFails(t) PROVE FiringArmed'
    BY <1>3 DEF BuildFails, timerVars, callVars, loopVars
<1>4. ASSUME NEW t \in Threads, Send(t) PROVE FiringArmed'
    BY <1>4 DEF Send, timerVars, callVars, loopVars
<1>5. ASSUME NEW t \in Threads, StoreNitz(t) PROVE FiringArmed'
    BY <1>5 DEF StoreNitz, timerVars, callVars, loopVars
<1>6. ASSUME NEW t \in Threads, CancelPrevious(t) PROVE FiringArmed'
    BY <1>6 DEF CancelPrevious, timerVars, loopVars
<1>18. ASSUME NEW t \in Threads, MarkPrevious(t) PROVE FiringArmed'
    BY <1>18 DEF MarkPrevious, loopVars
<1>7. ASSUME NEW t \in Threads, NEW i \in Infos, ArmRelease(t, i) PROVE FiringArmed'
    BY <1>7 DEF ArmRelease, FreeInfos, loopVars
<1>8. ASSUME NEW t \in Threads, Publish(t) PROVE FiringArmed'
    BY <1>8 DEF Publish, loopVars
<1>9. ASSUME NEW i \in Infos, ArmUser(i) PROVE FiringArmed'
    BY <1>9 DEF ArmUser, FreeInfos, callVars, loopVars
<1>10. ASSUME NEW i \in Infos, TimerFires(i) PROVE FiringArmed'
    BY <1>10 DEF TimerFires, timerVars, callVars
<1>11. CASE TimerDone
    BY <1>11 DEF TimerDone, Free, callVars
<1>12. CASE Announce
    BY <1>12 DEF Announce, Begin, Threads, timerVars
<1>13. CASE ResendNitz
    BY <1>13 DEF ResendNitz, timerVars, callVars
<1>14. CASE FreeNitz
    BY <1>14 DEF FreeNitz, timerVars, callVars
<1>15. CASE Connect
    BY <1>15 DEF Connect, timerVars, callVars
<1>16. CASE Disconnect
    BY <1>16 DEF Disconnect, timerVars, callVars
<1>17. CASE UNCHANGED vars
    BY <1>17 DEF vars, timerVars, callVars, loopVars
<1> QED
    BY <1>1, <1>2, <1>3, <1>4, <1>5, <1>6, <1>7, <1>8, <1>9, <1>10, <1>11, <1>12, <1>13, <1>14,
       <1>15, <1>16, <1>17, <1>18 DEF Next, ResponseStep, LoopStep

(* Every step keeps quiet responses away from the timers.                  *)
LEMMA LoudStep == TypeOK /\ LoudOnly /\ [Next]_vars => LoudOnly'
<1> SUFFICES ASSUME TypeOK, LoudOnly, [Next]_vars PROVE LoudOnly'
    OBVIOUS
<1> USE DEF TypeOK, LoudOnly
<1>1. ASSUME NEW t \in VendorThreads, NEW k \in Kinds, VendorBegins(t, k) PROVE LoudOnly'
    BY <1>1 DEF VendorBegins, Begin, Threads, timerVars, loopVars
<1>2. ASSUME NEW t \in Threads, Notify(t) PROVE LoudOnly'
    BY <1>2 DEF Notify, timerVars, loopVars
<1>3. ASSUME NEW t \in Threads, BuildFails(t) PROVE LoudOnly'
    BY <1>3 DEF BuildFails, timerVars, callVars, loopVars
<1>4. ASSUME NEW t \in Threads, Send(t) PROVE LoudOnly'
    BY <1>4 DEF Send, timerVars, callVars, loopVars
<1>5. ASSUME NEW t \in Threads, StoreNitz(t) PROVE LoudOnly'
    BY <1>5 DEF StoreNitz, timerVars, callVars, loopVars
<1>6. ASSUME NEW t \in Threads, CancelPrevious(t) PROVE LoudOnly'
    BY <1>6 DEF CancelPrevious, timerVars, loopVars
<1>18. ASSUME NEW t \in Threads, MarkPrevious(t) PROVE LoudOnly'
    BY <1>18 DEF MarkPrevious, loopVars
<1>7. ASSUME NEW t \in Threads, NEW i \in Infos, ArmRelease(t, i) PROVE LoudOnly'
    BY <1>7 DEF ArmRelease, FreeInfos, loopVars
<1>8. ASSUME NEW t \in Threads, Publish(t) PROVE LoudOnly'
    BY <1>8 DEF Publish, loopVars
<1>9. ASSUME NEW i \in Infos, ArmUser(i) PROVE LoudOnly'
    BY <1>9 DEF ArmUser, FreeInfos, callVars, loopVars
<1>10. ASSUME NEW i \in Infos, TimerFires(i) PROVE LoudOnly'
    BY <1>10 DEF TimerFires, timerVars, callVars
<1>11. CASE TimerDone
    BY <1>11 DEF TimerDone, Free, callVars
<1>12. CASE Announce
    BY <1>12 DEF Announce, Begin, Threads, timerVars
<1>13. CASE ResendNitz
    BY <1>13 DEF ResendNitz, timerVars, callVars
<1>14. CASE FreeNitz
    BY <1>14 DEF FreeNitz, timerVars, callVars
<1>15. CASE Connect
    BY <1>15 DEF Connect, timerVars, callVars
<1>16. CASE Disconnect
    BY <1>16 DEF Disconnect, timerVars, callVars
<1>17. CASE UNCHANGED vars
    BY <1>17 DEF vars, timerVars, callVars, loopVars
<1> QED
    BY <1>1, <1>2, <1>3, <1>4, <1>5, <1>6, <1>7, <1>8, <1>9, <1>10, <1>11, <1>12, <1>13, <1>14,
       <1>15, <1>16, <1>17, <1>18 DEF Next, ResponseStep, LoopStep

(* Every step that takes the lock or drops a timer leaves someone to       *)
(* release it.                                                             *)
LEMMA LockStep ==
    TypeOK /\ FiringArmed /\ LoudOnly /\ LockNotLeaked /\ [Next]_vars => LockNotLeaked'
<1> SUFFICES ASSUME TypeOK, FiringArmed, LoudOnly, LockNotLeaked, [Next]_vars PROVE LockNotLeaked'
    OBVIOUS
<1> USE DEF TypeOK, FiringArmed, LockNotLeaked, Holding, InFlight
<1>1. ASSUME NEW t \in VendorThreads, NEW k \in Kinds, VendorBegins(t, k) PROVE LockNotLeaked'
    BY <1>1 DEF VendorBegins, Begin, Threads, timerVars, loopVars
<1>2. ASSUME NEW t \in Threads, Notify(t) PROVE LockNotLeaked'
    BY <1>2 DEF Notify, timerVars, loopVars
<1>3. ASSUME NEW t \in Threads, BuildFails(t) PROVE LockNotLeaked'
    BY <1>3 DEF BuildFails, timerVars, callVars, loopVars
<1>4. ASSUME NEW t \in Threads, Send(t) PROVE LockNotLeaked'
    BY <1>4 DEF Send, timerVars, callVars, loopVars
<1>5. ASSUME NEW t \in Threads, StoreNitz(t) PROVE LockNotLeaked'
    BY <1>5 DEF StoreNitz, timerVars, callVars, loopVars
<1>6. ASSUME NEW t \in Threads, CancelPrevious(t) PROVE LockNotLeaked'
  <2>1. pc'[t] \in {"arm", "mark"} /\ kind'[t] # "quiet"
    BY <1>6 DEF CancelPrevious, LoudOnly
  <2> QED
    BY <2>1
<1>18. ASSUME NEW t \in Threads, MarkPrevious(t) PROVE LockNotLeaked'
  <2>1. pc'[t] = "arm" /\ kind'[t] # "quiet"
    BY <1>18 DEF MarkPrevious, LoudOnly
  <2> QED
    BY <2>1
<1>7. ASSUME NEW t \in Threads, NEW i \in Infos, ArmRelease(t, i) PROVE LockNotLeaked'
  <2>1. i # firing /\ firing' = firing
    BY <1>7, UnsolAssumption DEF ArmRelease, FreeInfos, loopVars
  <2>2. info'[i] = [st |-> "armed", for |-> "wake", param |-> 0]
    BY <1>7 DEF ArmRelease
  <2> QED
    BY <2>1, <2>2
<1>8. ASSUME NEW t \in Threads, Publish(t) PROVE LockNotLeaked'
    BY <1>8 DEF Publish, loopVars
<1>9. ASSUME NEW i \in Infos, ArmUser(i) PROVE LockNotLeaked'
    BY <1>9 DEF ArmUser, FreeInfos, callVars, loopVars
<1>10. ASSUME NEW i \in Infos, TimerFires(i) PROVE LockNotLeaked'
  <2>1. CASE info[i].for = "wake" /\ info[i].param = 0
    BY <1>10, <2>1 DEF TimerFires
  <2>2. CASE ~(info[i].for = "wake" /\ info[i].param = 0)
    <3>1. \A j \in Infos : Releases(j) => Releases(j)'
      BY <1>10, <2>2 DEF TimerFires, timerVars, Releases
    <3>2. \A t \in Threads : Holding(t)' = Holding(t)
      BY <1>10 DEF TimerFires, callVars
    <3> QED
      BY <1>10, <2>2, <3>1, <3>2 DEF TimerFires, Releases
  <2> QED
    BY <2>1, <2>2
<1>11. CASE TimerDone
  <2>1. \A j \in Infos : Releases(j) => Releases(j)'
    BY <1>11, UnsolAssumption DEF TimerDone, Releases
  <2>2. \A t \in Threads : Holding(t)' = Holding(t)
    BY <1>11 DEF TimerDone, callVars
  <2> QED
    BY <1>11, <2>1, <2>2 DEF TimerDone, Releases
<1>12. CASE Announce
    BY <1>12 DEF Announce, Begin, Threads, timerVars
<1>13. CASE ResendNitz
    BY <1>13 DEF ResendNitz, timerVars, callVars
<1>14. CASE FreeNitz
    BY <1>14 DEF FreeNitz, timerVars, callVars
<1>15. CASE Connect
    BY <1>15 DEF Connect, timerVars, callVars
<1>16. CASE Disconnect
    BY <1>16 DEF Disconnect, timerVars, callVars
<1>17. CASE UNCHANGED vars
    BY <1>17 DEF vars, timerVars, callVars, loopVars
<1> QED
    BY <1>1, <1>2, <1>3, <1>4, <1>5, <1>6, <1>7, <1>8, <1>9, <1>10, <1>11, <1>12, <1>13, <1>14,
       <1>15, <1>16, <1>17, <1>18 DEF Next, ResponseStep, LoopStep

(* The inductive invariant holds throughout.                               *)
LEMMA LockAlways == Spec => []LockInv
<1>1. LockInv /\ [Next]_vars => LockInv'
    BY TypeStep, FiringStep, LoudStep, LockStep DEF LockInv
<1> QED
    BY InitLock, <1>1, PTL DEF Spec

(* Type correctness of the unsolicited responses' state.                   *)
THEOREM UnsolTypes == Spec => []TypeOK
<1>1. LockInv => TypeOK
    BY DEF LockInv
<1> QED
    BY LockAlways, <1>1, PTL

(* RIL_onUnsolicitedSendResponse never leaks the wake lock: whoever sends, *)
(* cancels, connects and fires timers in whatever order, while the lock is *)
(* held a response is on its way to arm its timer or to error_exit, or an  *)
(* armed timer that nobody cancelled will release it.                      *)
THEOREM LockSafe == Spec => []LockNotLeaked
<1>1. LockInv => LockNotLeaked
    BY DEF LockInv
<1> QED
    BY LockAlways, <1>1, PTL

------------------------------------------------------------------------------
(* A nonempty set of numbers has a least element.                          *)
LEMMA LeastExists ==
    ASSUME NEW T \in SUBSET Nat, T # {}
    PROVE  \E m \in T : \A k \in T : m <= k
<1> DEFINE R == {ss \in Nat \X Nat : ss[1] < ss[2]}
<1>1. IsWellFoundedOn(R, Nat)
  BY NatLessThanWellFounded DEF OpToRel
<1>2. PICK x \in T : \A y \in T : ~ (<<y, x>> \in R)
  BY <1>1, WFMin, Zenon
<1>3. \A y \in T : ~ (y < x)
  BY <1>2
<1> QED
  BY <1>3

(* A bounded one has a greatest.                                           *)
LEMMA GreatestExists ==
    ASSUME NEW b \in Nat, NEW T \in SUBSET (1..b), T # {}
    PROVE  \E m \in T : \A k \in T : k <= m
<1> DEFINE U == {b - t : t \in T}
<1>1. U \in SUBSET Nat /\ U # {}
  <2>1. \A t \in T : b - t \in Nat
    OBVIOUS
  <2>2. U \subseteq Nat
    BY <2>1
  <2>3. PICK t : t \in T
    OBVIOUS
  <2>4. b - t \in U
    BY <2>3
  <2> QED
    BY <2>2, <2>4
<1>2. PICK u \in U : \A k \in U : u <= k
  <2> HIDE DEF U
  <2> QED
    BY <1>1, LeastExists
<1>3. PICK m \in T : u = b - m
  BY <1>2
<1>4. \A k \in T : b - k \in U
  OBVIOUS
<1> HIDE DEF U
<1>5. \A k \in T : k <= m
  <2> TAKE k \in T
  <2>1. u <= b - k
    BY <1>2, <1>4
  <2> QED
    BY <1>3, <2>1
<1> QED
  BY <1>5

(* RilCodec.  A dispatch function reads and tests; it guards its numbers   *)
(* when after each one it tests, or gives up.                              *)
Tokens == {I, B, S, D} \cup Tests
Guarded(p) ==
    /\ p \in Seq(Tokens)
    /\ \A i \in 1..Len(p) :
         p[i] \in {I, B} => \E j \in i..Len(p) : p[j] \in {Status, Reject}

(* The later an item, the further into the parcel.                         *)
LEMMA PositionMonotone ==
    ASSUME NEW p, NEW i \in Nat, NEW j \in Nat, i <= j
    PROVE  Position(p, i) \in Nat /\ Position(p, j) \in Nat /\ Position(p, i) <= Position(p, j)
<1> DEFINE P(n) == {m \in 1..n : p[m] \notin Tests}
<1>1. \A n \in Nat : IsFiniteSet(P(n))
  <2> TAKE n \in Nat
  <2>1. IsFiniteSet(1..n)
    BY FS_Interval
  <2>2. P(n) \in SUBSET (1..n)
    OBVIOUS
  <2> HIDE DEF P
  <2> QED
    BY <2>1, <2>2, FS_Subset
<1>2. P(i) \in SUBSET P(j)
  OBVIOUS
<1>3. Position(p, i) = Cardinality(P(i)) /\ Position(p, j) = Cardinality(P(j))
  BY DEF Position
<1> HIDE DEF P
<1> QED
  BY <1>1, <1>2, <1>3, FS_CardinalityType, FS_Subset

(* The number tested last is at or after every number before the test.     *)
LEMMA LastReadIs ==
    ASSUME NEW p, NEW j \in Nat, NEW kinds, NEW i \in 1..j, p[i] \in kinds
    PROVE  LastRead(p, j, kinds) \in 1..j /\ i <= LastRead(p, j, kinds)
<1> DEFINE T == {m \in 1..j : p[m] \in kinds}
           L == LastRead(p, j, kinds)
<1>1. T \in SUBSET (1..j) /\ i \in T
  OBVIOUS
<1>2. PICK m \in T : \A k \in T : k <= m
  <2> HIDE DEF T
  <2> QED
    BY <1>1, GreatestExists
<1>3. m \in 1..j /\ p[m] \in kinds /\ \A k \in (m + 1)..j : p[k] \notin kinds
  BY <1>2
<1>4. L \in 1..j /\ p[L] \in kinds /\ \A k \in (L + 1)..j : p[k] \notin kinds
  BY <1>3, Zenon DEF LastRead
<1> HIDE DEF L
<1>5. i <= L
  BY <1>4
<1> QED
  BY <1>4, <1>5 DEF L

(* A function that guards its numbers passes on only what it was sent:     *)
(* items are missing from the end only, so that the number it tests is     *)
(* missing whenever an earlier one is.                                     *)
LEMMA GuardEnough ==
    ASSUME NEW p, Guarded(p), NEW k \in Nat, Passes(p, k), NEW i \in Missing(p, k)
    PROVE  p[i] \notin {I, B}
<1> SUFFICES ASSUME p[i] \in {I, B} PROVE FALSE
  OBVIOUS
<1>1. DOMAIN p = 1..Len(p) /\ Len(p) \in Nat
  BY LenProperties DEF Guarded
<1>2. i \in 1..Len(p) /\ Position(p, i) > k
  BY <1>1 DEF Missing
<1>3. PICK j \in i..Len(p) : p[j] \in {Status, Reject}
  BY <1>2 DEF Guarded
<1>4. j \in 1..Len(p) /\ i \in 1..j /\ j \in Nat
  BY <1>1, <1>2, <1>3
<1> DEFINE L == LastRead(p, j, {I, B})
<1>5. Position(p, L) <= k
  BY <1>1, <1>3, <1>4 DEF Passes
<1>6. L \in 1..j /\ i <= L
  BY <1>4, LastReadIs
<1> HIDE DEF L
<1>7. Position(p, i) \in Nat /\ Position(p, L) \in Nat /\ Position(p, i) <= Position(p, L)
  <2>1. i \in Nat /\ L \in Nat
    BY <1>4, <1>6
  <2> QED
    BY <1>6, <2>1, PositionMonotone
<1> QED
  BY <1>2, <1>5, <1>7

(* Two guarded parts make a guarded function.                              *)
LEMMA GuardedConcat ==
    ASSUME NEW p, NEW q, Guarded(p), Guarded(q)
    PROVE  Guarded(p \o q)
<1> DEFINE r == p \o q
           m == Len(p)
           n == Len(q)
<1>1. m \in Nat /\ n \in Nat
  BY LenProperties DEF Guarded
<1>2. r \in Seq(Tokens) /\ Len(r) = m + n
  BY ConcatProperties DEF Guarded
<1>3. \A i \in 1..(m + n) : r[i] = IF i <= m THEN p[i] ELSE q[i - m]
  BY ConcatProperties DEF Guarded
<1>4. \A i \in 1..m : p[i] \in {I, B} => \E j \in i..m : p[j] \in {Status, Reject}
  BY DEF Guarded
<1>5. \A i \in 1..n : q[i] \in {I, B} => \E j \in i..n : q[j] \in {Status, Reject}
  BY DEF Guarded
<1> HIDE DEF r, m, n
<1>6. ASSUME NEW i \in 1..(m + n), r[i] \in {I, B}
      PROVE  \E j \in i..(m + n) : r[j] \in {Status, Reject}
  <2>1. CASE i <= m
    <3>1. i \in 1..m /\ p[i] = r[i]
      BY <1>3, <2>1
    <3>2. PICK j \in i..m : p[j] \in {Status, Reject}
      BY <1>4, <1>6, <3>1
    <3>3. j \in i..(m + n) /\ j \in 1..(m + n) /\ j <= m
      BY <1>1, <3>1, <3>2
    <3>4. r[j] = p[j]
      BY <1>3, <3>3
    <3> QED
      BY <3>2, <3>3, <3>4
  <2>2. CASE ~(i <= m)
    <3>1. i - m \in 1..n /\ q[i - m] = r[i]
      BY <1>1, <1>3, <2>2
    <3>2. PICK j \in (i - m)..n : q[j] \in {Status, Reject}
      BY <1>5, <1>6, <3>1
    <3>3. m + j \in i..(m + n) /\ m + j \in 1..(m + n) /\ ~(m + j <= m) /\ m + j - m = j
      BY <1>1, <3>1, <3>2
    <3>4. r[m + j] = q[j]
      <4> DEFINE x == m + j
      <4>1. x \in 1..(m + n) /\ ~(x <= m) /\ x - m = j
        BY <1>1, <3>1, <3>2
      <4> HIDE DEF x
      <4>2. r[x] = q[x - m]
        BY <1>3, <4>1
      <4>3. r[x] = q[j]
        BY <4>1, <4>2
      <4> QED
        BY <4>3 DEF x
    <3> QED
      BY <3>2, <3>3, <3>4
  <2> QED
    BY <2>1, <2>2
<1>7. Guarded(r)
  BY <1>2, <1>6 DEF Guarded
<1> QED
  BY <1>7 DEF r

(* A test at the very end guards everything.                               *)
LEMMA GuardedAtEnd ==
    ASSUME NEW p \in Seq(Tokens)
    PROVE  Guarded(p \o <<Status>>)
<1> DEFINE r == p \o <<Status>>
           m == Len(p)
<1>1. m \in Nat
  BY LenProperties
<1>2. <<Status>> \in Seq(Tokens) /\ Len(<<Status>>) = 1 /\ <<Status>>[1] = Status
  BY DEF Tokens, Tests
<1>3. r \in Seq(Tokens) /\ Len(r) = m + 1
  BY <1>2, ConcatProperties
<1>4. r[m + 1] = Status
  <2>1. \A i \in 1..(m + 1) : r[i] = IF i <= m THEN p[i] ELSE <<Status>>[i - m]
    BY <1>2, ConcatProperties
  <2> HIDE DEF r, m
  <2>2. r[m + 1] = <<Status>>[m + 1 - m]
    BY <1>1, <2>1
  <2> QED
    BY <1>1, <1>2, <2>2
<1> HIDE DEF r, m
<1>5. \A i \in 1..(m + 1) : m + 1 \in i..(m + 1)
  BY <1>1
<1>6. Guarded(r)
  BY <1>3, <1>4, <1>5 DEF Guarded
<1> QED
  BY <1>6 DEF r

(* A loop reads its items n times over.                                    *)
LEMMA TimesSeq ==
    ASSUME NEW n \in Int, NEW T, NEW s \in Seq(T), Len(s) \in {1, 2, 3, 5, 6, 7, 8}
    PROVE  Times(n, s) \in Seq(T)
<1>1. CASE n <= 0
  BY <1>1, EmptySeq DEF Times
<1>2. CASE ~(n <= 0)
  <2> DEFINE f == [k \in 1..(n * Len(s)) |-> s[((k - 1) % Len(s)) + 1]]
  <2>1. n * Len(s) \in Nat
    BY <1>2
  <2>2. \A k \in 1..(n * Len(s)) : ((k - 1) % Len(s)) + 1 \in 1..Len(s)
    BY <2>1
  <2>3. f \in [1..(n * Len(s)) -> T]
    BY <2>2, ElementOfSeq
  <2>4. f \in Seq(T)
    BY <2>1, <2>3, SeqDef
  <2> QED
    BY <1>2, <2>4 DEF Times
<1> QED
  BY <1>1, <1>2

(* A list of strings reads no number.                                      *)
LEMMA GuardedStrings == ASSUME NEW n \in Int PROVE Guarded(Times(n, <<S>>))
<1>1. <<S>> \in Seq(Tokens) /\ Len(<<S>>) = 1
  BY DEF Tokens
<1>2. Times(n, <<S>>) \in Seq(Tokens)
  BY <1>1, TimesSeq
<1>3. \A i \in 1..Len(Times(n, <<S>>)) : Times(n, <<S>>)[i] = S
  <2>1. CASE n <= 0
    BY <2>1 DEF Times
  <2>2. CASE ~(n <= 0)
    <3>1. Times(n, <<S>>) = [k \in 1..(n * 1) |-> <<S>>[((k - 1) % 1) + 1]]
      BY <1>1, <2>2 DEF Times
    <3>2. \A k \in 1..n : (k - 1) % 1 = 0
      OBVIOUS
    <3>3. n * 1 = n
      OBVIOUS
    <3> QED
      BY <2>2, <3>1, <3>2, <3>3
  <2> QED
    BY <2>1, <2>2
<1> QED
  BY <1>2, <1>3 DEF Guarded, S, I, B

(* A list of numbers with a check after each is guarded (dispatchInts).    *)
LEMMA GuardedInts == ASSUME NEW n \in Int PROVE Guarded(Times(n, <<I, Status>>))
<1> DEFINE f == Times(n, <<I, Status>>)
<1>1. <<I, Status>> \in Seq(Tokens) /\ Len(<<I, Status>>) = 2
  BY DEF Tokens, Tests
<1>2. f \in Seq(Tokens)
  BY <1>1, TimesSeq
<1>3. CASE n <= 0
  <2>1. f = <<>>
    BY <1>3 DEF Times
  <2> QED
    BY <1>2, <2>1 DEF Guarded
<1>4. CASE ~(n <= 0)
  <2>1. f = [k \in 1..(n * 2) |-> <<I, Status>>[((k - 1) % 2) + 1]]
    BY <1>1, <1>4 DEF Times
  <2>2. Len(f) = n * 2 /\ n * 2 \in Nat
    BY <1>4, <2>1
  <2>3. \A k \in 1..(n * 2) : f[k] = <<I, Status>>[((k - 1) % 2) + 1]
    BY <2>1
  <2> HIDE DEF f
  <2>4. ASSUME NEW k \in 1..(n * 2), f[k] \in {I, B}
        PROVE  k + 1 \in k..(n * 2) /\ f[k + 1] = Status
    <3>1. (k - 1) % 2 = 0
      <4>1. (k - 1) % 2 \in {0, 1}
        OBVIOUS
      <4>2. (k - 1) % 2 = 1 => f[k] = Status
        BY <2>3
      <4> QED
        BY <2>4, <4>1, <4>2 DEF Status, I, B
    <3>2. k + 1 \in 1..(n * 2) /\ (k + 1 - 1) % 2 = 1
      BY <1>4, <3>1
    <3> QED
      BY <2>3, <3>2
  <2>5. \A k \in 1..(n * 2) : f[k] \in {I, B} => \E j \in k..(n * 2) : f[j] \in {Status, Reject}
    BY <2>4
  <2>6. Guarded(f)
    BY <1>2, <2>2, <2>5 DEF Guarded
  <2> QED
    BY <2>6 DEF f
<1> QED
  BY <1>3, <1>4

(* Every dispatch function of s_commands guards its numbers, whatever the  *)
(* count, the form and the version.                                        *)
LEMMA DispatchGuards ==
    ASSUME NEW n \in Int, NEW form, NEW v
    PROVE  /\ Guarded(dispatchVoid) /\ Guarded(dispatchString)
           /\ Guarded(dispatchStrings(n)) /\ Guarded(dispatchInts(n))
           /\ Guarded(dispatchSmsWrite) /\ Guarded(dispatchDial(form, v))
           /\ Guarded(dispatchSIM_IO) /\ Guarded(dispatchCallForward)
           /\ Guarded(dispatchRaw) /\ Guarded(dispatchCdmaSmsAck)
           /\ Guarded(dispatchDataCall(n, v)) /\ Guarded(dispatchDepersonalization)
           /\ Guarded(dispatchUiccSubscripton)
<1> USE DEF Tokens, Tests, I, B, S, D, Status, NotNull, Reject
<1>1. Guarded(dispatchVoid) /\ Guarded(dispatchString)
  BY DEF Guarded, dispatchVoid, dispatchString
<1>2. Guarded(<<I, Status>>) /\ Guarded(<<Reject>>)
  BY DEF Guarded
<1>3. \A m \in Int : Guarded(dispatchStrings(m))
  BY <1>2, GuardedStrings, GuardedConcat DEF dispatchStrings
<1>4. Guarded(dispatchInts(n))
  BY <1>2, GuardedInts, GuardedConcat DEF dispatchInts
<1>5. Guarded(dispatchSmsWrite)
  BY DEF Guarded, dispatchSmsWrite
<1>6. Guarded(dispatchDial(form, v))
  <2>1. Guarded(<<S, I, Status, NotNull>>) /\ Guarded(<<>>) /\ Guarded(<<I, I, I, Status, D>>)
    BY DEF Guarded
  <2>2. Guarded(<<S, I, Status, NotNull>> \o (IF v < 3 THEN <<>> ELSE <<I, Status>>))
    BY <1>2, <2>1, GuardedConcat
  <2> QED
    BY <2>1, <2>2, GuardedConcat DEF dispatchDial
<1>7. Guarded(dispatchSIM_IO)
  BY DEF Guarded, dispatchSIM_IO
<1>8. Guarded(dispatchCallForward) /\ Guarded(dispatchRaw) /\ Guarded(dispatchCdmaSmsAck)
  BY DEF Guarded, dispatchCallForward, dispatchRaw, dispatchCdmaSmsAck
<1>9. Guarded(dispatchDepersonalization) /\ Guarded(dispatchUiccSubscripton)
  BY DEF Guarded, dispatchDepersonalization, dispatchUiccSubscripton
<1>10. Guarded(dispatchDataCall(n, v))
  BY <1>3 DEF dispatchDataCall, numParamsRilV3
<1> QED
  BY <1>1, <1>3, <1>4, <1>5, <1>6, <1>7, <1>8, <1>9, <1>10

(* Those of a CDMA short message and of the broadcast configurations test  *)
(* once, at their end.                                                     *)
LEMMA DispatchGuardsLast ==
    ASSUME NEW n \in Int, NEW form
    PROVE  /\ Guarded(constructCdmaSms(n)) /\ Guarded(dispatchRilCdmaSmsWriteArgs)
           /\ Guarded(dispatchGsmBrSmsCnf(n)) /\ Guarded(dispatchCdmaBrSmsCnf(n))
           /\ Guarded(dispatchImsSms(form, n))
<1>1. \A p, q \in Seq(Tokens) : p \o q \in Seq(Tokens)
  BY ConcatProperties
<1>2. \A m \in Int : Times(m, <<B>>) \in Seq(Tokens)
  <2>1. <<B>> \in Seq(Tokens) /\ Len(<<B>>) = 1
    BY DEF Tokens
  <2> QED
    BY <2>1, TimesSeq
<1>3. AtMost(n, DigitsMax) \in Int /\ DigitsMax \in Int
  BY CodecAssumption DEF AtMost
<1>4. /\ <<I>> \in Seq(Tokens) /\ <<I, B, B>> \in Seq(Tokens)
      /\ <<I, B, I, I, I, I, I, B>> \in Seq(Tokens)
      /\ <<I, I, B, I, I, I, I, I, B>> \in Seq(Tokens)
      /\ <<I, Status>> \in Seq(Tokens)
  BY DEF Tokens, Tests
<1>5. Guarded(constructCdmaSms(n))
  <2> DEFINE t == Times(AtMost(n, DigitsMax), <<B>>)
  <2>1. t \in Seq(Tokens)
    BY <1>2, <1>3
  <2> HIDE DEF t
  <2>2. <<I, B, I, I, I, I, I, B>> \o t \in Seq(Tokens)
    BY <1>1, <1>4, <2>1
  <2>3. (<<I, B, I, I, I, I, I, B>> \o t) \o <<I, B, B>> \in Seq(Tokens)
    BY <1>1, <1>4, <2>2
  <2>4. ((<<I, B, I, I, I, I, I, B>> \o t) \o <<I, B, B>>) \o t \in Seq(Tokens)
    BY <1>1, <2>1, <2>3
  <2>5. (((<<I, B, I, I, I, I, I, B>> \o t) \o <<I, B, B>>) \o t) \o <<I>> \in Seq(Tokens)
    BY <1>1, <1>4, <2>4
  <2>6. ((((<<I, B, I, I, I, I, I, B>> \o t) \o <<I, B, B>>) \o t) \o <<I>>) \o t \in Seq(Tokens)
    BY <1>1, <2>1, <2>5
  <2> QED
    BY <2>6, GuardedAtEnd DEF constructCdmaSms, t
<1>6. Guarded(dispatchRilCdmaSmsWriteArgs)
  <2> DEFINE t == Times(DigitsMax, <<B>>)
  <2>1. t \in Seq(Tokens)
    BY <1>2, <1>3
  <2> HIDE DEF t
  <2>2. <<I, I, B, I, I, I, I, I, B>> \o t \in Seq(Tokens)
    BY <1>1, <1>4, <2>1
  <2>3. (<<I, I, B, I, I, I, I, I, B>> \o t) \o <<I, B, B>> \in Seq(Tokens)
    BY <1>1, <1>4, <2>2
  <2>4. ((<<I, I, B, I, I, I, I, I, B>> \o t) \o <<I, B, B>>) \o t \in Seq(Tokens)
    BY <1>1, <2>1, <2>3
  <2>5. (((<<I, I, B, I, I, I, I, I, B>> \o t) \o <<I, B, B>>) \o t) \o <<I>> \in Seq(Tokens)
    BY <1>1, <1>4, <2>4
  <2>6. ((((<<I, I, B, I, I, I, I, I, B>> \o t) \o <<I, B, B>>) \o t) \o <<I>>) \o t \in Seq(Tokens)
    BY <1>1, <2>1, <2>5
  <2> QED
    BY <2>6, GuardedAtEnd DEF dispatchRilCdmaSmsWriteArgs, t
<1>7. Guarded(dispatchGsmBrSmsCnf(n)) /\ Guarded(dispatchCdmaBrSmsCnf(n))
  <2>1. /\ <<I, I, I, I, I>> \in Seq(Tokens) /\ Len(<<I, I, I, I, I>>) = 5
        /\ <<I, I, I>> \in Seq(Tokens) /\ Len(<<I, I, I>>) = 3
    BY DEF Tokens
  <2>2. Times(n, <<I, I, I, I, I>>) \in Seq(Tokens) /\ Times(n, <<I, I, I>>) \in Seq(Tokens)
    BY <2>1, TimesSeq
  <2>3. /\ <<I, Status>> \o Times(n, <<I, I, I, I, I>>) \in Seq(Tokens)
        /\ <<I, Status>> \o Times(n, <<I, I, I>>) \in Seq(Tokens)
    BY <1>1, <1>4, <2>2
  <2> QED
    BY <2>3, GuardedAtEnd DEF dispatchGsmBrSmsCnf, dispatchCdmaBrSmsCnf
<1>8. Guarded(dispatchImsSms(form, n))
  <2>1. Guarded(<<I, Status, B, Status, I, Status>>) /\ Guarded(<<Reject>>)
    BY DEF Guarded, Tokens, Tests, I, B, Status, Reject
  <2>2. Guarded(dispatchImsGsmSms(n)) /\ Guarded(dispatchImsCdmaSms(n))
    BY <1>5, DispatchGuards DEF dispatchImsGsmSms, dispatchImsCdmaSms
  <2>3. CASE form = "3GPP"
    BY <2>1, <2>2, <2>3, GuardedConcat DEF dispatchImsSms
  <2>4. CASE form = "3GPP2"
    BY <2>1, <2>2, <2>4, GuardedConcat DEF dispatchImsSms
  <2>5. CASE form \notin {"3GPP", "3GPP2"}
    BY <2>1, <2>5, GuardedConcat DEF dispatchImsSms
  <2> QED
    BY <2>3, <2>4, <2>5
<1> QED
  BY <1>5, <1>6, <1>7, <1>8

(* So does the function of every command.                                  *)
LEMMA ProgramGuards ==
    ASSUME NEW c, NEW n \in Int, NEW form, NEW v
    PROVE  Guarded(Program(c, n, form, v))
<1>1. HandlerOf(c) \in Handlers \cup {"Void"}
  BY DEF HandlerOf
<1>2. Guarded(dispatchCdmaSms(n))
  BY DispatchGuardsLast DEF dispatchCdmaSms
<1> QED
  BY <1>1, <1>2, DispatchGuards, DispatchGuardsLast DEF Program, Handlers

(* A request on its way is a record, with a count and a number of items.   *)
IsRequest(r) ==
    /\ r = [id |-> r.id, n |-> r.n, form |-> r.form, items |-> r.items]
    /\ r.n \in Int /\ r.items \in Nat
CodecInv == IsRequest(sent) /\ NoMadeUpNumbers

(* Every step keeps it: what processCommandBuffer hands on has passed the  *)
(* function of its command, which guards its numbers.                      *)
LEMMA CodecStep == CodecInv /\ [CodecNext]_codecVars => CodecInv'
<1> SUFFICES ASSUME CodecInv, [CodecNext]_codecVars PROVE CodecInv'
  OBVIOUS
<1>1. CASE ClientSends
  <2>1. PICK id \in ClientIds \ NotSupported :
          \E n \in CountsOf(Written(id)), form \in Forms(Written(id)) :
          \E k \in 0..Len(Items(Program(Written(id), n, form, version))) :
            sent' = [id |-> id, n |-> n, form |-> form, items |-> k]
    BY <1>1 DEF ClientSends
  <2>2. CountsOf(Written(id)) \subseteq Int
    BY CodecAssumption DEF CountsOf
  <2>3. IsRequest(sent')
    BY <2>1, <2>2 DEF IsRequest
  <2> QED
    BY <1>1, <2>3 DEF ClientSends, CodecInv, IsRequest, NoMadeUpNumbers
<1>2. CASE processCommandBuffer
  <2> DEFINE p == Program(command', sent.n, sent.form, version)
  <2>1. Guarded(p)
    BY ProgramGuards DEF CodecInv, IsRequest
  <2>2. CASE UNCHANGED missing
    BY <1>2, <2>2 DEF processCommandBuffer, CodecInv, IsRequest, NoMadeUpNumbers
  <2>3. CASE Passes(p, sent.items) /\ missing' = {p[i] : i \in Missing(p, sent.items)}
    <3> HIDE DEF p
    <3>1. \A i \in Missing(p, sent.items) : p[i] \notin {I, B}
      BY <2>1, <2>3, GuardEnough DEF CodecInv, IsRequest
    <3>2. missing' \cap {I, B} = {}
      BY <2>3, <3>1
    <3> QED
      BY <1>2, <3>2 DEF processCommandBuffer, CodecInv, IsRequest, NoMadeUpNumbers
  <2> QED
    BY <1>2, <2>2, <2>3 DEF processCommandBuffer
<1>3. CASE RIL_onRequestComplete
  <2>1. PICK n \in Counts, form \in {"plain", "uus", "short", "v5", "v6", "v7"} :
          sent' = [sent EXCEPT !.n = n, !.form = form]
    BY <1>3 DEF RIL_onRequestComplete
  <2>2. n \in Int
    BY CodecAssumption
  <2>3. IsRequest(sent')
    BY <2>1, <2>2 DEF CodecInv, IsRequest
  <2> QED
    BY <1>3, <2>3 DEF RIL_onRequestComplete, CodecInv, IsRequest, NoMadeUpNumbers
<1>4. CASE RIL_onUnsolicitedResponse
  <2>1. PICK e \in Events, n \in Counts :
          \E form \in EventForms(e) :
            sent' = [NoRequest EXCEPT !.id = ToClient(e), !.n = n, !.form = form]
    BY <1>4, Zenon DEF RIL_onUnsolicitedResponse
  <2>2. n \in Int
    BY CodecAssumption
  <2>3. PICK form \in EventForms(e) :
          sent' = [NoRequest EXCEPT !.id = ToClient(e), !.n = n, !.form = form]
    BY <2>1
  <2>4. sent' = [id |-> ToClient(e), n |-> n, form |-> form, items |-> 0]
    BY <2>3 DEF NoRequest
  <2>5. IsRequest(sent')
    BY <2>2, <2>4 DEF IsRequest
  <2> QED
    BY <1>4, <2>5 DEF RIL_onUnsolicitedResponse, CodecInv, IsRequest,
       NoMadeUpNumbers
<1>5. CASE UNCHANGED codecVars
  BY <1>5 DEF codecVars, CodecInv, IsRequest, NoMadeUpNumbers
<1> QED
  BY <1>1, <1>2, <1>3, <1>4, <1>5 DEF CodecNext

(* However short the parcel of a request, for every command, count, form   *)
(* and version, libril hands the vendor library no number the client did   *)
(* not send (the dispatch functions of ril.cpp).                           *)
THEOREM NumbersAreSent == CodecSpec => []NoMadeUpNumbers
<1>1. CodecInit => CodecInv
  BY DEF CodecInit, CodecInv, IsRequest, NoMadeUpNumbers, NoRequest
<1>2. CodecInv => NoMadeUpNumbers
  BY DEF CodecInv
<1> QED
  BY <1>1, <1>2, CodecStep, PTL DEF CodecSpec

(* RilCodec.  h lists, in order, where the c items of p are.               *)
Lists(h, c, p) ==
    /\ c \in Nat /\ Len(p) \in Nat /\ DOMAIN p = 1..Len(p)
    /\ h \in [1..c -> 1..Len(p)]
    /\ \A a, b \in 1..c : a < b => h[a] < h[b]
    /\ \A a \in 1..c : p[h[a]] \notin Tests
    /\ \A i \in 1..Len(p) : p[i] \notin Tests => \E a \in 1..c : h[a] = i

(* The position of a place is the number of places listed up to it.        *)
LEMMA CountListed ==
    ASSUME NEW p, NEW c, NEW h, Lists(h, c, p), NEW k \in 0..c, NEW j \in 0..Len(p),
           \A a \in 1..c : a <= k <=> h[a] <= j
    PROVE  Position(p, j) = k
<1> DEFINE T == {i \in 1..j : p[i] \notin Tests}
           g == [a \in 1..k |-> h[a]]
<1>1. c \in Nat /\ k \in Nat /\ Len(p) \in Nat /\ \A a \in 1..k : a \in 1..c
  BY DEF Lists
<1>2. \A a \in 1..k : h[a] \in T
  <2> TAKE a \in 1..k
  <2>1. a \in 1..c /\ a <= k
    BY <1>1
  <2>2. h[a] \in 1..Len(p) /\ p[h[a]] \notin Tests /\ h[a] <= j
    BY <2>1 DEF Lists
  <2> QED
    BY <1>1, <2>2
<1>3. \A i \in T : \E a \in 1..k : h[a] = i
  <2> TAKE i \in T
  <2>1. i \in 1..Len(p) /\ p[i] \notin Tests /\ i <= j
    BY <1>1
  <2>2. PICK a \in 1..c : h[a] = i
    BY <2>1 DEF Lists
  <2>3. a <= k
    BY <2>1, <2>2
  <2> QED
    BY <1>1, <2>2, <2>3
<1>4. \A a, b \in 1..k : h[a] = h[b] => a = b
  <2> SUFFICES ASSUME NEW a \in 1..k, NEW b \in 1..k, h[a] = h[b] PROVE a = b
    OBVIOUS
  <2>1. a \in 1..c /\ b \in 1..c /\ h[a] \in Int /\ h[b] \in Int
    BY <1>1 DEF Lists
  <2>2. ~(a < b) /\ ~(b < a)
    BY <2>1 DEF Lists
  <2> QED
    BY <2>1, <2>2
<1> HIDE DEF T
<1>5. g \in [1..k -> T]
  BY <1>2
<1>6. \A a \in 1..k : g[a] = h[a]
  OBVIOUS
<1> HIDE DEF g
<1>7. g \in Bijection(1..k, T)
  <2>1. g \in Injection(1..k, T)
    BY <1>4, <1>5, <1>6 DEF Injection, IsInjective
  <2>2. g \in Surjection(1..k, T)
    BY <1>3, <1>5, <1>6 DEF Surjection
  <2> QED
    BY <2>1, <2>2 DEF Bijection
<1>8. Cardinality(T) = k
  BY <1>1, <1>7, FS_CountingElements DEF ExistsBijection
<1> QED
  BY <1>8 DEF Position, T

(* The items are those at the places listed.                               *)
LEMMA ItemsAre ==
    ASSUME NEW p, NEW c, NEW h, Lists(h, c, p)
    PROVE  Items(p) = [k \in 1..c |-> p[h[k]]]
<1>1. c \in Nat /\ Len(p) \in Nat /\ \A a \in 1..c : h[a] \in 1..Len(p)
  BY DEF Lists
<1>2. \A k \in 1..c : Position(p, h[k]) = k
  <2> TAKE k \in 1..c
  <2>1. \A a \in 1..c : a <= k <=> h[a] <= h[k]
    <3> TAKE a \in 1..c
    <3>1. (a < k => h[a] < h[k]) /\ (k < a => h[k] < h[a])
      BY DEF Lists
    <3>2. a \in Int /\ k \in Int /\ h[a] \in Int /\ h[k] \in Int
      BY <1>1
    <3>3. a = k => h[a] = h[k]
      OBVIOUS
    <3> QED
      BY <3>1, <3>2, <3>3
  <2>2. k \in 0..c /\ h[k] \in 0..Len(p)
    BY <1>1
  <2> DEFINE j == h[k]
  <2> HIDE DEF j
  <2>3. Position(p, j) = k
    BY <2>1, <2>2, CountListed DEF j
  <2> QED
    BY <2>3 DEF j
<1>3. Position(p, Len(p)) = c
  <2>1. \A a \in 1..c : a <= c <=> h[a] <= Len(p)
    BY <1>1
  <2>2. c \in 0..c /\ Len(p) \in 0..Len(p)
    BY <1>1
  <2> QED
    BY <2>1, <2>2, CountListed
<1> DEFINE At(k) == CHOOSE i \in DOMAIN p : p[i] \notin Tests /\ Position(p, i) = k
<1>4. ASSUME NEW k \in 1..c PROVE At(k) = h[k]
  <2>1. h[k] \in DOMAIN p /\ p[h[k]] \notin Tests /\ Position(p, h[k]) = k
    BY <1>2 DEF Lists
  <2>2. ASSUME NEW i \in DOMAIN p, p[i] \notin Tests, Position(p, i) = k PROVE i = h[k]
    <3>1. PICK a \in 1..c : h[a] = i
      BY <2>2 DEF Lists
    <3> QED
      BY <1>2, <2>2, <3>1
  <2> QED
    BY <2>1, <2>2
<1>5. Items(p) = [k \in 1..c |-> p[At(k)]]
  BY <1>3, Zenon DEF Items
<1> HIDE DEF At
<1> QED
  BY <1>4, <1>5

(* A place counts one more than the place before it if it holds an item.   *)
LEMMA PositionStep ==
    ASSUME NEW p, NEW i \in Nat \ {0}
    PROVE  /\ Position(p, i - 1) \in Nat
           /\ Position(p, i) = IF p[i] \in Tests THEN Position(p, i - 1) ELSE Position(p, i - 1) + 1
<1> DEFINE T(j) == {m \in 1..j : p[m] \notin Tests}
<1>1. IsFiniteSet(T(i - 1))
  <2>1. IsFiniteSet(1..(i - 1))
    BY FS_Interval
  <2>2. T(i - 1) \in SUBSET (1..(i - 1))
    OBVIOUS
  <2> HIDE DEF T
  <2> QED
    BY <2>1, <2>2, FS_Subset
<1>2. T(i) = IF p[i] \in Tests THEN T(i - 1) ELSE T(i - 1) \cup {i}
  <2>1. \A m \in Int : m \in 1..i <=> m \in 1..(i - 1) \/ m = i
    OBVIOUS
  <2> QED
    BY <2>1
<1>3. i \notin T(i - 1)
  OBVIOUS
<1>4. Position(p, i) = Cardinality(T(i)) /\ Position(p, i - 1) = Cardinality(T(i - 1))
  BY DEF Position
<1> HIDE DEF T
<1>5. /\ Cardinality(T(i - 1)) \in Nat
      /\ Cardinality(T(i - 1) \cup {i}) = Cardinality(T(i - 1)) + 1
  BY <1>1, <1>3, FS_AddElement, FS_CardinalityType
<1> QED
  BY <1>2, <1>4, <1>5

(* The places of the items of a function can be listed.                    *)
LEMMA CanList ==
    ASSUME NEW p \in Seq(Tokens)
    PROVE  \E c, h : Lists(h, c, p)
<1> DEFINE n == Len(p)
           P(i) == Position(p, i)
           c == P(n)
           At(k, i) == i \in 1..n /\ p[i] \notin Tests /\ P(i) = k
           h == [k \in 1..c |-> CHOOSE i \in 1..n : At(k, i)]
<1>1. n \in Nat /\ DOMAIN p = 1..n
  BY LenProperties
<1>2. P(0) = 0
  <2>1. {i \in 1..0 : p[i] \notin Tests} = {}
    OBVIOUS
  <2> QED
    BY <2>1, FS_EmptySet DEF Position
<1>3. \A i \in 1..n : /\ P(i - 1) \in Nat
                      /\ P(i) = IF p[i] \in Tests THEN P(i - 1) ELSE P(i - 1) + 1
  BY <1>1, PositionStep
<1>4. \A i, j \in 0..n : i <= j => P(i) \in Nat /\ P(j) \in Nat /\ P(i) <= P(j)
  BY <1>1, PositionMonotone
<1> HIDE DEF n, P
<1>5. \A k \in 1..c : \E i \in 1..n : At(k, i)
  <2> TAKE k \in 1..c
  <2> DEFINE U == {i \in 0..n : k <= P(i)}
  <2>1. n \in U /\ U \in SUBSET Nat /\ c \in Nat
    BY <1>1, <1>4
  <2>2. PICK m \in U : \A i \in U : m <= i
    <3> HIDE DEF U
    <3> QED
      BY <2>1, LeastExists
  <2>3. m \in 1..n
    BY <1>1, <1>2, <2>1, <2>2
  <2>4. ~(k <= P(m - 1))
    BY <1>1, <2>2, <2>3
  <2>5. P(m) = k /\ p[m] \notin Tests
    BY <1>3, <1>4, <2>1, <2>2, <2>3, <2>4
  <2> QED
    BY <2>3, <2>5
<1>6. \A k \in 1..c : At(k, h[k])
  BY <1>5
<1>7. \A i \in 1..n : p[i] \notin Tests => P(i) \in 1..c
  <2> SUFFICES ASSUME NEW i \in 1..n, p[i] \notin Tests PROVE P(i) \in 1..c
    OBVIOUS
  <2>1. i \in 0..n /\ n \in 0..n /\ i <= n
    BY <1>1
  <2>2. P(i) \in Nat /\ P(n) \in Nat /\ P(i) <= P(n)
    BY <1>4, <2>1
  <2>3. P(i - 1) \in Nat /\ P(i) = P(i - 1) + 1
    BY <1>3
  <2> QED
    BY <2>2, <2>3
<1>8. \A i, j \in 1..n : i < j /\ p[j] \notin Tests => P(i) < P(j)
  <2> SUFFICES ASSUME NEW i \in 1..n, NEW j \in 1..n, i < j, p[j] \notin Tests
               PROVE  P(i) < P(j)
    OBVIOUS
  <2>1. i \in 0..n /\ j - 1 \in 0..n /\ i <= j - 1
    BY <1>1
  <2>2. P(i) \in Nat /\ P(j - 1) \in Nat /\ P(i) <= P(j - 1)
    BY <1>4, <2>1
  <2>3. P(j) = P(j - 1) + 1
    BY <1>3
  <2> QED
    BY <2>2, <2>3
<1>9. h \in [1..c -> 1..n]
  BY <1>5
<1>10. c \in Nat
  BY <1>1, <1>4
<1> HIDE DEF h, c
<1>11. \A a, b \in 1..c : a < b => h[a] < h[b]
  <2> SUFFICES ASSUME NEW a \in 1..c, NEW b \in 1..c, a < b PROVE h[a] < h[b]
    OBVIOUS
  <2>1. At(a, h[a]) /\ At(b, h[b])
    BY <1>6
  <2>2. h[a] # h[b]
    BY <1>10, <2>1
  <2>3. h[b] < h[a] => P(h[b]) < P(h[a])
    BY <1>8, <2>1
  <2>4. h[a] \in Int /\ h[b] \in Int
    BY <1>1, <2>1
  <2> QED
    BY <1>10, <2>1, <2>2, <2>3, <2>4
<1>12. \A i \in 1..n : p[i] \notin Tests => \E a \in 1..c : h[a] = i
  <2> SUFFICES ASSUME NEW i \in 1..n, p[i] \notin Tests PROVE \E a \in 1..c : h[a] = i
    OBVIOUS
  <2>1. P(i) \in 1..c
    BY <1>7
  <2> DEFINE k == P(i)
  <2> HIDE DEF k
  <2>2. k \in 1..c
    BY <2>1 DEF k
  <2>3. At(k, h[k])
    BY <1>6, <2>2
  <2>4. P(h[k]) = P(i)
    BY <2>3 DEF k
  <2>5. i \in Int /\ h[k] \in Int
    BY <1>1, <2>3
  <2>6. P(i) \in Int
    BY <1>10, <2>1
  <2>7. ~(i < h[k]) /\ ~(h[k] < i)
    BY <1>8, <2>3, <2>4, <2>6
  <2>8. h[k] = i
    BY <2>5, <2>7
  <2> QED
    BY <2>2, <2>8
<1>13. \A a \in 1..c : p[h[a]] \notin Tests
  BY <1>6
<1>14. Lists(h, c, p)
  BY <1>1, <1>9, <1>10, <1>11, <1>12, <1>13 DEF Lists, n
<1> QED
  BY <1>14

(* The items of two parts are those of the first, then those of the second. *)
LEMMA ItemsConcat ==
    ASSUME NEW p \in Seq(Tokens), NEW q \in Seq(Tokens)
    PROVE  Items(p \o q) = Items(p) \o Items(q)
<1> DEFINE r == p \o q
           m == Len(p)
           n == Len(q)
<1>1. m \in Nat /\ n \in Nat
  BY LenProperties
<1>2. r \in Seq(Tokens) /\ Len(r) = m + n /\ DOMAIN r = 1..(m + n)
  <2>1. r \in Seq(Tokens) /\ Len(r) = m + n
    BY ConcatProperties
  <2> QED
    BY <2>1, LenProperties
<1>3. \A i \in 1..(m + n) : r[i] = IF i <= m THEN p[i] ELSE q[i - m]
  BY ConcatProperties
<1>4. PICK c, h : Lists(h, c, p)
  BY CanList
<1>5. PICK d, g : Lists(g, d, q)
  BY CanList
<1> HIDE DEF r, m, n
<1> DEFINE f == [k \in 1..(c + d) |-> IF k <= c THEN h[k] ELSE m + g[k - c]]
<1>6. c \in Nat /\ d \in Nat
  BY <1>4, <1>5 DEF Lists
<1>7. /\ \A a \in 1..c : h[a] \in 1..m /\ p[h[a]] \notin Tests
      /\ \A a, b \in 1..c : a < b => h[a] < h[b]
      /\ \A i \in 1..m : p[i] \notin Tests => \E a \in 1..c : h[a] = i
  BY <1>4 DEF Lists, m
<1>8. /\ \A a \in 1..d : g[a] \in 1..n /\ q[g[a]] \notin Tests
      /\ \A a, b \in 1..d : a < b => g[a] < g[b]
      /\ \A i \in 1..n : q[i] \notin Tests => \E a \in 1..d : g[a] = i
  BY <1>5 DEF Lists, n
<1>9. \A k \in 1..(c + d) : /\ k <= c => k \in 1..c /\ f[k] = h[k]
                            /\ ~(k <= c) => k - c \in 1..d /\ f[k] = m + g[k - c]
  BY <1>6
<1>10. \A a \in 1..c : a \in 1..(c + d) /\ a <= c
  BY <1>6
<1>11. \A a \in 1..d : a + c \in 1..(c + d) /\ ~(a + c <= c) /\ a + c - c = a
  BY <1>6
<1>12. \A a \in 1..(c + d) : f[a] \in 1..(m + n)
  <2> TAKE a \in 1..(c + d)
  <2>1. CASE a <= c
    BY <1>1, <1>7, <1>9, <2>1
  <2>2. CASE ~(a <= c)
    <3>1. a - c \in 1..d /\ f[a] = m + g[a - c]
      BY <1>9, <2>2
    <3>2. g[a - c] \in 1..n
      BY <1>8, <3>1
    <3> QED
      BY <1>1, <3>1, <3>2
  <2> QED
    BY <2>1, <2>2
<1>13. \A a \in 1..(c + d) :
         r[f[a]] \notin Tests /\ r[f[a]] = IF a <= c THEN p[h[a]] ELSE q[g[a - c]]
  <2> TAKE a \in 1..(c + d)
  <2>1. CASE a <= c
    <3>1. a \in 1..c /\ f[a] = h[a] /\ h[a] \in 1..m /\ p[h[a]] \notin Tests
      BY <1>7, <1>9, <2>1
    <3>2. h[a] \in 1..(m + n) /\ h[a] <= m
      BY <1>1, <3>1
    <3>3. r[h[a]] = p[h[a]]
      BY <1>3, <3>2
    <3> QED
      BY <2>1, <3>1, <3>3
  <2>2. CASE ~(a <= c)
    <3>1. a - c \in 1..d /\ f[a] = m + g[a - c]
      BY <1>9, <2>2
    <3> DEFINE y == g[a - c]
    <3>2. y \in 1..n /\ q[y] \notin Tests
      BY <1>8, <3>1
    <3>3. f[a] = m + y
      BY <3>1
    <3> HIDE DEF y
    <3> DEFINE x == m + y
    <3>4. x \in 1..(m + n) /\ ~(x <= m) /\ x - m = y
      BY <1>1, <3>2
    <3> HIDE DEF x
    <3>5. r[x] = q[y]
      BY <1>3, <3>4
    <3>6. r[f[a]] = q[y]
      BY <3>3, <3>5 DEF x
    <3> QED
      BY <2>2, <3>2, <3>6 DEF y
  <2> QED
    BY <2>1, <2>2
<1> HIDE DEF f
<1>14. \A a, b \in 1..(c + d) : a < b => f[a] < f[b]
  <2> SUFFICES ASSUME NEW a \in 1..(c + d), NEW b \in 1..(c + d), a < b PROVE f[a] < f[b]
    OBVIOUS
  <2>1. CASE b <= c
    <3>1. a <= c
      BY <1>6, <2>1
    <3> QED
      BY <1>7, <1>9, <2>1, <3>1
  <2>2. CASE a <= c /\ ~(b <= c)
    <3>1. f[a] = h[a] /\ h[a] \in 1..m
      BY <1>7, <1>9, <2>2
    <3>2. f[b] = m + g[b - c] /\ g[b - c] \in 1..n
      BY <1>8, <1>9, <2>2
    <3> QED
      BY <1>1, <3>1, <3>2
  <2>3. CASE ~(a <= c)
    <3>1. ~(b <= c)
      BY <1>6, <2>3
    <3>2. a - c \in 1..d /\ b - c \in 1..d /\ a - c < b - c
      BY <1>6, <1>9, <2>3, <3>1
    <3>3. g[a - c] < g[b - c] /\ g[a - c] \in 1..n /\ g[b - c] \in 1..n
      BY <1>8, <3>2
    <3>4. f[a] = m + g[a - c] /\ f[b] = m + g[b - c]
      BY <1>9, <2>3, <3>1
    <3> QED
      BY <1>1, <3>3, <3>4
  <2> QED
    BY <2>1, <2>2, <2>3
<1>15. \A i \in 1..(m + n) : r[i] \notin Tests => \E a \in 1..(c + d) : f[a] = i
  <2> SUFFICES ASSUME NEW i \in 1..(m + n), r[i] \notin Tests
               PROVE  \E a \in 1..(c + d) : f[a] = i
    OBVIOUS
  <2>1. CASE i <= m
    <3>1. i \in 1..m /\ p[i] \notin Tests
      BY <1>1, <1>3, <2>1
    <3>2. PICK a \in 1..c : h[a] = i
      BY <1>7, <3>1
    <3> QED
      BY <1>9, <1>10, <3>2
  <2>2. CASE ~(i <= m)
    <3>1. i - m \in 1..n /\ q[i - m] \notin Tests
      BY <1>1, <1>3, <2>2
    <3>2. PICK a \in 1..d : g[a] = i - m
      BY <1>8, <3>1
    <3> DEFINE k == a + c
    <3>3. k \in 1..(c + d) /\ ~(k <= c) /\ k - c = a
      BY <1>6, <3>2
    <3> HIDE DEF k
    <3>4. f[k] = m + g[a]
      BY <1>9, <3>3
    <3>5. m + (i - m) = i
      BY <1>1
    <3> QED
      BY <3>2, <3>3, <3>4, <3>5
  <2> QED
    BY <2>1, <2>2
<1>16. f \in [1..(c + d) -> 1..(m + n)]
  BY <1>12 DEF f
<1>17. Lists(f, c + d, r)
  BY <1>1, <1>2, <1>6, <1>13, <1>14, <1>15, <1>16 DEF Lists
<1>18. Items(r) = [k \in 1..(c + d) |-> r[f[k]]]
  BY <1>17, ItemsAre
<1>19. Items(p) = [k \in 1..c |-> p[h[k]]] /\ Items(q) = [k \in 1..d |-> q[g[k]]]
  BY <1>4, <1>5, ItemsAre
<1>20. Items(p) \o Items(q) = [k \in 1..(c + d) |-> IF k <= c THEN p[h[k]] ELSE q[g[k - c]]]
  <2> DEFINE u == [k \in 1..c |-> p[h[k]]]
             v == [k \in 1..d |-> q[g[k]]]
  <2>1. u \in Seq({p[h[k]] : k \in 1..c}) /\ Len(u) = c
    BY <1>6
  <2>2. v \in Seq({q[g[k]] : k \in 1..d}) /\ Len(v) = d
    BY <1>6
  <2>3. u \o v = [k \in 1..(c + d) |-> IF k <= c THEN u[k] ELSE v[k - c]]
    BY <1>6, <2>1, <2>2
  <2> QED
    BY <1>6, <1>19, <2>3
<1> QED
  BY <1>13, <1>18, <1>20 DEF r

(* What a parcel holds.                                                    *)
Wire == {I, B, S, D}

(* What goes on the wire is made of tokens.                                *)
LEMMA WireTokens == \A p \in Seq(Wire) : p \in Seq(Tokens)
<1>1. Wire \subseteq Tokens
  BY DEF Wire, Tokens
<1> QED
  BY <1>1

(* A part without tests is its own items.                                  *)
LEMMA ItemsAll == ASSUME NEW p \in Seq(Wire) PROVE Items(p) = p
<1> DEFINE n == Len(p)
           h == [k \in 1..n |-> k]
<1>1. n \in Nat /\ DOMAIN p = 1..n /\ p = [k \in 1..n |-> p[k]]
  BY LenProperties
<1>2. \A i \in 1..n : p[i] \notin Tests
  <2>1. \A i \in 1..n : p[i] \in Wire
    BY ElementOfSeq
  <2>2. Wire \cap Tests = {}
    BY DEF Wire, Tests, I, B, S, D, Status, NotNull, Reject
  <2> QED
    BY <2>1, <2>2
<1>3. Lists(h, n, p)
  BY <1>1, <1>2 DEF Lists
<1>4. Items(p) = [k \in 1..n |-> p[h[k]]]
  BY <1>3, ItemsAre
<1> QED
  BY <1>1, <1>4

(* A part of tests has none.                                               *)
LEMMA ItemsNone == ASSUME NEW p \in Seq(Tests) PROVE Items(p) = <<>>
<1> DEFINE h == [k \in 1..0 |-> k]
<1>1. Len(p) \in Nat /\ DOMAIN p = 1..Len(p) /\ \A i \in 1..Len(p) : p[i] \in Tests
  BY LenProperties, ElementOfSeq
<1>2. Lists(h, 0, p)
  BY <1>1 DEF Lists
<1>3. Items(p) = [k \in 1..0 |-> p[h[k]]]
  BY <1>2, ItemsAre
<1> QED
  BY <1>3

(* The items of a list of tested ints are its ints.                        *)
LEMMA ItemsInts ==
    ASSUME NEW n \in Int
    PROVE  Items(Times(n, <<I, Status>>)) = Times(n, <<I>>)
<1> DEFINE f == Times(n, <<I, Status>>)
<1>1. CASE n <= 0
  <2>1. f = <<>> /\ Times(n, <<I>>) = <<>>
    BY <1>1 DEF Times
  <2>2. <<>> \in Seq(Tests)
    OBVIOUS
  <2> QED
    BY <2>1, <2>2, ItemsNone
<1>2. CASE ~(n <= 0)
  <2> DEFINE h == [k \in 1..n |-> 2 * k - 1]
  <2>1. f = [k \in 1..(n * 2) |-> <<I, Status>>[((k - 1) % 2) + 1]]
    BY <1>2 DEF Times
  <2>2. /\ Len(f) = n * 2 /\ n * 2 \in Nat /\ DOMAIN f = 1..(n * 2)
        /\ \A k \in 1..(n * 2) : f[k] = <<I, Status>>[((k - 1) % 2) + 1]
    BY <1>2, <2>1, SMTT(30)
  <2>3. Times(n, <<I>>) = [k \in 1..n |-> I]
    <3>1. Times(n, <<I>>) = [k \in 1..(n * 1) |-> <<I>>[((k - 1) % 1) + 1]]
      BY <1>2 DEF Times
    <3>2. n * 1 = n /\ \A k \in 1..n : (k - 1) % 1 = 0
      OBVIOUS
    <3> QED
      BY <3>1, <3>2
  <2> HIDE DEF f
  <2>4. \A k \in 1..n : h[k] \in 1..(n * 2) /\ f[h[k]] = I
    <3> TAKE k \in 1..n
    <3> DEFINE x == 2 * k - 1
    <3>1. x \in 1..(n * 2) /\ (x - 1) % 2 = 0
      OBVIOUS
    <3>2. h[k] = x
      OBVIOUS
    <3> HIDE DEF x, h
    <3>3. f[x] = <<I, Status>>[((x - 1) % 2) + 1]
      BY <2>2, <3>1
    <3> QED
      BY <3>1, <3>2, <3>3
  <2>5. \A i \in 1..(n * 2) : f[i] \notin Tests => \E k \in 1..n : h[k] = i
    <3> TAKE i \in 1..(n * 2)
    <3>1. CASE (i - 1) % 2 = 0
      <4> DEFINE k == (i + 1) \div 2
      <4>1. k \in 1..n /\ 2 * k - 1 = i
        BY <3>1
      <4> HIDE DEF k
      <4>2. h[k] = i
        BY <4>1
      <4> QED
        BY <4>1, <4>2
    <3>2. CASE (i - 1) % 2 # 0
      <4>1. (i - 1) % 2 = 1
        BY <3>2
      <4>2. f[i] = Status
        BY <2>2, <4>1
      <4> QED
        BY <4>2 DEF Tests
    <3> QED
      BY <3>1, <3>2
  <2>6. \A a, b \in 1..n : a < b => h[a] < h[b]
    OBVIOUS
  <2>7. h \in [1..n -> 1..(n * 2)]
    BY <2>4
  <2>8. I \notin Tests
    BY DEF I, Tests, Status, NotNull, Reject
  <2> HIDE DEF h
  <2>9. Lists(h, n, f)
    <3>1. 1..(n * 2) = 1..Len(f)
      BY <2>2
    <3>2. h \in [1..n -> 1..Len(f)]
      BY <2>7, <3>1
    <3>3. \A i \in 1..Len(f) : f[i] \notin Tests => \E k \in 1..n : h[k] = i
      BY <2>5, <3>1
    <3>4. \A a \in 1..n : f[h[a]] \notin Tests
      BY <2>4, <2>8
    <3>5. n \in Nat /\ Len(f) \in Nat /\ DOMAIN f = 1..Len(f)
      BY <1>2, <2>2, <3>1
    <3> QED
      BY <2>6, <3>2, <3>3, <3>4, <3>5, Zenon DEF Lists
  <2>10. Items(f) = [k \in 1..n |-> f[h[k]]]
    BY <2>9, ItemsAre
  <2> QED
    BY <2>3, <2>4, <2>10 DEF f
<1> QED
  BY <1>1, <1>2

(* A test adds no item; a part without tests adds itself.                  *)
LEMMA ItemsTested ==
    ASSUME NEW p \in Seq(Tokens), NEW t \in Seq(Tests)
    PROVE  Items(p \o t) = Items(p) /\ p \o t \in Seq(Tokens)
<1>1. t \in Seq(Tokens)
  <2>1. Tests \subseteq Tokens
    BY DEF Tokens
  <2> QED
    BY <2>1
<1>2. Items(p) \in Seq(Tokens)
  <2>1. PICK c, h : Lists(h, c, p)
    BY CanList
  <2>2. Items(p) = [k \in 1..c |-> p[h[k]]]
    BY <2>1, ItemsAre
  <2>3. c \in Nat /\ \A k \in 1..c : h[k] \in 1..Len(p)
    BY <2>1 DEF Lists
  <2>4. \A k \in 1..c : p[h[k]] \in Tokens
    BY <2>3, ElementOfSeq
  <2>5. Items(p) \in [1..c -> Tokens]
    BY <2>2, <2>4
  <2> QED
    BY <2>3, <2>5, SeqDef
<1>3. Items(p) \o <<>> = Items(p)
  BY <1>2, ConcatEmptySeq
<1>4. Items(p \o t) = Items(p) \o Items(t)
  BY <1>1, ItemsConcat
<1> QED
  BY <1>1, <1>3, <1>4, ItemsNone, ConcatProperties

(* A part that has no check adds all it holds to the items.                *)
LEMMA ItemsUntested ==
    ASSUME NEW p \in Seq(Tokens), NEW w \in Seq(Wire)
    PROVE  Items(p \o w) = Items(p) \o w /\ p \o w \in Seq(Tokens)
<1>1. w \in Seq(Tokens)
  BY WireTokens
<1> QED
  BY <1>1, ItemsConcat, ItemsAll, ConcatProperties

(* The items of the fixed parts.                                           *)
LEMMA HeadItems ==
    /\ Items(<<I, Status>>) = <<I>>
    /\ Items(<<I, Status, D>>) = <<I, D>>
    /\ Items(<<I, S, Status, NotNull, S>>) = <<I, S, S>>
    /\ Items(<<S, I, Status, NotNull>>) = <<S, I>>
    /\ Items(<<I, I, I, Status, D>>) = <<I, I, I, D>>
    /\ Items(<<I, I, S, I, I, I, S, S, S, Status>>) = <<I, I, S, I, I, I, S, S, S>>
    /\ Items(<<I, I, I, I, S, I, Status>>) = <<I, I, I, I, S, I>>
    /\ Items(<<I, Status, B, Status, I, Status>>) = <<I, B, I>>
    /\ Items(<<I, I, Status>>) = <<I, I>>
    /\ Items(<<I, S, Status>>) = <<I, S>>
    /\ Items(<<I, Status, I, Status, I, Status, I, Status>>) = <<I, I, I, I>>
<1> USE DEF Tests, I, B, S, D, Status, NotNull, Reject
<1>1. Items(<<I, Status>>) = <<I>>
  <2>1. Lists(<<1>>, 1, <<I, Status>>)
    BY DEF Lists
  <2> QED
    BY <2>1, ItemsAre
<1>2. Items(<<I, Status, D>>) = <<I, D>>
  <2>1. Lists(<<1, 3>>, 2, <<I, Status, D>>)
    BY DEF Lists
  <2> QED
    BY <2>1, ItemsAre
<1>3. Items(<<I, S, Status, NotNull, S>>) = <<I, S, S>>
  <2>1. Lists(<<1, 2, 5>>, 3, <<I, S, Status, NotNull, S>>)
    BY DEF Lists
  <2> QED
    BY <2>1, ItemsAre
<1>4. Items(<<S, I, Status, NotNull>>) = <<S, I>>
  <2>1. Lists(<<1, 2>>, 2, <<S, I, Status, NotNull>>)
    BY DEF Lists
  <2> QED
    BY <2>1, ItemsAre
<1>5. Items(<<I, I, I, Status, D>>) = <<I, I, I, D>>
  <2>1. Lists(<<1, 2, 3, 5>>, 4, <<I, I, I, Status, D>>)
    BY DEF Lists
  <2> QED
    BY <2>1, ItemsAre
<1>6. Items(<<I, I, S, I, I, I, S, S, S, Status>>) = <<I, I, S, I, I, I, S, S, S>>
  <2>1. Lists(<<1, 2, 3, 4, 5, 6, 7, 8, 9>>, 9, <<I, I, S, I, I, I, S, S, S, Status>>)
    BY DEF Lists
  <2> QED
    BY <2>1, ItemsAre
<1>7. Items(<<I, I, I, I, S, I, Status>>) = <<I, I, I, I, S, I>>
  <2>1. Lists(<<1, 2, 3, 4, 5, 6>>, 6, <<I, I, I, I, S, I, Status>>)
    BY DEF Lists
  <2> QED
    BY <2>1, ItemsAre
<1>8. Items(<<I, Status, B, Status, I, Status>>) = <<I, B, I>>
  <2>1. Lists(<<1, 3, 5>>, 3, <<I, Status, B, Status, I, Status>>)
    BY DEF Lists
  <2> QED
    BY <2>1, ItemsAre
<1>9. Items(<<I, I, Status>>) = <<I, I>>
  <2>1. Lists(<<1, 2>>, 2, <<I, I, Status>>)
    BY DEF Lists
  <2> QED
    BY <2>1, ItemsAre
<1>10. Items(<<I, S, Status>>) = <<I, S>>
  <2>1. Lists(<<1, 2>>, 2, <<I, S, Status>>)
    BY DEF Lists
  <2> QED
    BY <2>1, ItemsAre
<1>11. Items(<<I, Status, I, Status, I, Status, I, Status>>) = <<I, I, I, I>>
  <2>1. Lists(<<1, 3, 5, 7>>, 4, <<I, Status, I, Status, I, Status, I, Status>>)
    BY DEF Lists
  <2> QED
    BY <2>1, ItemsAre
<1> QED
  BY <1>1, <1>2, <1>3, <1>4, <1>5, <1>6, <1>7, <1>8, <1>9, <1>10, <1>11

(* The items of a list.                                                    *)
LEMMA TimesWire ==
    ASSUME NEW n \in Int, NEW s \in Seq(Wire), Len(s) \in {1, 2, 3, 5, 6, 7, 8}
    PROVE  Times(n, s) \in Seq(Wire)
  BY TimesSeq

(* The wire forms of the lists that libril dispatches (ril.cpp,            *)
(* dispatchStrings to dispatchCdmaBrSmsCnf).                               *)
LEMMA ListItems ==
    ASSUME NEW n \in Int
    PROVE  /\ Items(dispatchStrings(n)) = List(n, <<S>>)
           /\ dispatchStrings(n) \in Seq(Tokens)
           /\ Items(dispatchInts(n)) = List(n, <<I>>)
           /\ Items(dispatchGsmBrSmsCnf(n)) = List(n, <<I, I, I, I, I>>)
           /\ Items(dispatchCdmaBrSmsCnf(n)) = List(n, <<I, I, I>>)
<1>1. /\ <<I, Status>> \in Seq(Tokens) /\ <<Status>> \in Seq(Tests)
      /\ <<Reject>> \in Seq(Tests)
      /\ <<I>> \in Seq(Wire)
  BY DEF Tokens, Tests, Wire
<1>2. /\ <<S>> \in Seq(Wire) /\ Len(<<S>>) = 1
      /\ <<I, I, I, I, I>> \in Seq(Wire) /\ Len(<<I, I, I, I, I>>) = 5
      /\ <<I, I, I>> \in Seq(Wire) /\ Len(<<I, I, I>>) = 3
  BY DEF Wire
<1>3. Items(<<I, Status>>) = <<I>>
  BY HeadItems
<1>4. /\ Times(n, <<S>>) \in Seq(Wire) /\ Times(n, <<I, I, I, I, I>>) \in Seq(Wire)
      /\ Times(n, <<I, I, I>>) \in Seq(Wire)
  BY <1>2, TimesWire
<1>5. Items(dispatchStrings(n)) = List(n, <<S>>) /\ dispatchStrings(n) \in Seq(Tokens)
  BY <1>1, <1>3, <1>4, ItemsUntested DEF dispatchStrings, List
<1>6. Items(dispatchInts(n)) = List(n, <<I>>)
  <2>1. CASE n = 0
    <3>1. dispatchInts(n) = <<I, Status>> \o <<Reject>>
      BY <2>1 DEF dispatchInts
    <3>2. List(n, <<I>>) = <<I>>
      BY <1>1, <2>1, ConcatEmptySeq DEF List, Times
    <3> QED
      BY <1>1, <1>3, <3>1, <3>2, ItemsTested
  <2>2. CASE n # 0
    <3>1. dispatchInts(n) = <<I, Status>> \o Times(n, <<I, Status>>)
      BY <2>2 DEF dispatchInts
    <3>2. Times(n, <<I, Status>>) \in Seq(Tokens)
      BY GuardedInts DEF Guarded
    <3> QED
      BY <1>1, <1>3, <3>1, <3>2, ItemsInts, ItemsConcat DEF List
  <2> QED
    BY <2>1, <2>2
<1>7. Items(dispatchGsmBrSmsCnf(n)) = List(n, <<I, I, I, I, I>>)
  BY <1>1, <1>3, <1>4, ItemsUntested, ItemsTested, ZenonT(60) DEF dispatchGsmBrSmsCnf, List
<1>8. Items(dispatchCdmaBrSmsCnf(n)) = List(n, <<I, I, I>>)
  BY <1>1, <1>3, <1>4, ItemsUntested, ItemsTested, ZenonT(60) DEF dispatchCdmaBrSmsCnf, List
<1> QED
  BY <1>5, <1>6, <1>7, <1>8

(* The items of a CDMA short message.                                      *)
LEMMA MessageItems ==
    ASSUME NEW n \in Int
    PROVE  /\ Items(constructCdmaSms(n)) = responseCdmaSms(n)
           /\ constructCdmaSms(n) \in Seq(Tokens)
<1> DEFINE t == Times(AtMost(n, DigitsMax), <<B>>)
           u == <<I, B, I, I, I, I, I, B>>
           v == <<I, B, B>>
           w == (((u \o t) \o v) \o t) \o <<I>>
<1>1. t \in Seq(Wire)
  <2>1. <<B>> \in Seq(Wire) /\ Len(<<B>>) = 1
    BY DEF Wire
  <2>2. AtMost(n, DigitsMax) \in Int
    BY CodecAssumption DEF AtMost
  <2> QED
    BY <2>1, <2>2, TimesWire
<1>2. u \in Seq(Wire) /\ v \in Seq(Wire) /\ <<I>> \in Seq(Wire) /\ <<Status>> \in Seq(Tests)
  BY DEF Wire, Tests
<1>3. \A p, q \in Seq(Wire) : p \o q \in Seq(Wire)
  BY ConcatProperties
<1> HIDE DEF t, u, v
<1>4. w \in Seq(Wire)
  <2>1. u \o t \in Seq(Wire)
    BY <1>1, <1>2, <1>3
  <2>2. (u \o t) \o v \in Seq(Wire)
    BY <1>2, <1>3, <2>1
  <2>3. ((u \o t) \o v) \o t \in Seq(Wire)
    BY <1>1, <1>3, <2>2
  <2> QED
    BY <1>2, <1>3, <2>3
<1>5. constructCdmaSms(n) = (w \o t) \o <<Status>> /\ responseCdmaSms(n) = w \o t
  BY DEF constructCdmaSms, responseCdmaSms, t, u, v
<1> HIDE DEF w
<1>6. w \o t \in Seq(Wire)
  BY <1>1, <1>3, <1>4
<1> DEFINE x == w \o t
<1> HIDE DEF x
<1>7. x \in Seq(Wire) /\ x \in Seq(Tokens)
  BY <1>6, WireTokens DEF x
<1>8. Items(x \o <<Status>>) = x /\ x \o <<Status>> \in Seq(Tokens)
  BY <1>2, <1>7, ItemsTested, ItemsAll
<1> QED
  BY <1>5, <1>8 DEF x

(* And of one to be stored.                                                *)
LEMMA StoredMessageItems ==
    Items(dispatchRilCdmaSmsWriteArgs) = <<I>> \o responseCdmaSms(DigitsMax)
<1> DEFINE t == Times(DigitsMax, <<B>>)
           u == <<I, B, I, I, I, I, I, B>>
           v == <<I, B, B>>
           w == ((((u \o t) \o v) \o t) \o <<I>>) \o t
<1>1. t \in Seq(Wire)
  <2>1. <<B>> \in Seq(Wire) /\ Len(<<B>>) = 1
    BY DEF Wire
  <2>2. DigitsMax \in Int
    BY CodecAssumption
  <2> QED
    BY <2>1, <2>2, TimesWire
<1>2. u \in Seq(Wire) /\ v \in Seq(Wire) /\ <<I>> \in Seq(Wire) /\ <<Status>> \in Seq(Tests)
  BY DEF Wire, Tests
<1>3. \A p, q \in Seq(Wire) : p \o q \in Seq(Wire)
  BY ConcatProperties
<1>4. \A p, q, r \in Seq(Wire) : (p \o q) \o r = p \o (q \o r)
  BY ConcatAssociative, SMTT(30)
<1>5. <<I, I, B, I, I, I, I, I, B>> = <<I>> \o u
  OBVIOUS
<1> HIDE DEF t, u, v
<1>6. /\ u \o t \in Seq(Wire) /\ (u \o t) \o v \in Seq(Wire)
      /\ ((u \o t) \o v) \o t \in Seq(Wire) /\ (((u \o t) \o v) \o t) \o <<I>> \in Seq(Wire)
      /\ w \in Seq(Wire)
  BY <1>1, <1>2, <1>3
<1>7. responseCdmaSms(DigitsMax) = w
  <2>1. AtMost(DigitsMax, DigitsMax) = DigitsMax
    BY DEF AtMost
  <2> QED
    BY <2>1 DEF responseCdmaSms, t, u, v
<1>8. <<I>> \o w = (((((<<I>> \o u) \o t) \o v) \o t) \o <<I>>) \o t
  BY <1>1, <1>2, <1>4, <1>6, SMTT(30)
<1>9. dispatchRilCdmaSmsWriteArgs = (<<I>> \o w) \o <<Status>>
  BY <1>5, <1>8 DEF dispatchRilCdmaSmsWriteArgs, t, u, v
<1>10. <<I>> \o w \in Seq(Wire)
  BY <1>2, <1>3, <1>6
<1> DEFINE x == <<I>> \o w
<1> HIDE DEF x, w
<1>11. x \in Seq(Wire) /\ x \in Seq(Tokens)
  BY <1>10, WireTokens DEF x
<1>12. Items(x \o <<Status>>) = x
  BY <1>2, <1>11, ItemsTested, ItemsAll
<1> QED
  BY <1>7, <1>9, <1>12 DEF x

(* Two parts make a third.                                                 *)
LEMMA ConcatIs ==
    ASSUME NEW X, NEW p \in Seq(X), NEW q \in Seq(X), NEW r \in Seq(X),
           Len(r) = Len(p) + Len(q),
           \A i \in 1..Len(p) : r[i] = p[i],
           \A i \in 1..Len(q) : r[Len(p) + i] = q[i]
    PROVE  p \o q = r
<1> DEFINE z == p \o q
           m == Len(p)
           n == Len(q)
<1>1. m \in Nat /\ n \in Nat
  BY LenProperties
<1>2. z \in Seq(X) /\ Len(z) = m + n /\ \A i \in 1..(m + n) : z[i] = IF i <= m THEN p[i] ELSE q[i - m]
  BY ConcatProperties
<1>3. \A i \in 1..(m + n) : z[i] = r[i]
  <2> TAKE i \in 1..(m + n)
  <2>1. CASE i <= m
    BY <1>2, <2>1
  <2>2. CASE ~(i <= m)
    <3> DEFINE j == i - m
    <3>1. j \in 1..n /\ m + j = i
      BY <1>1, <2>2
    <3> HIDE DEF j
    <3>2. r[m + j] = q[j]
      BY <3>1
    <3>3. z[i] = q[j]
      BY <1>2, <2>2 DEF j
    <3> QED
      BY <3>1, <3>2, <3>3
  <2> QED
    BY <2>1, <2>2
<1>4. Len(r) = m + n
  OBVIOUS
<1> HIDE DEF z, m, n
<1>5. z = r
  BY <1>2, <1>3, <1>4, SeqEqual
<1> QED
  BY <1>5 DEF z

(* The bytes in front of a message, and those of its address.              *)
LEMMA FrontOfMessage == <<I, B, I>> \o <<I, I, I, I, B>> = <<I, B, I, I, I, I, I, B>>
<1> DEFINE p == <<I, B, I>>  q == <<I, I, I, I, B>>  r == <<I, B, I, I, I, I, I, B>>
<1>1. Len(r) = Len(p) + Len(q)
  OBVIOUS
<1>2. p \in Seq({I, B}) /\ q \in Seq({I, B}) /\ r \in Seq({I, B})
  OBVIOUS
<1>3. \A i \in 1..Len(p) : r[i] = p[i]
  OBVIOUS
<1>4. \A i \in 1..Len(q) : r[Len(p) + i] = q[i]
  OBVIOUS
<1> HIDE DEF p, q, r
<1>5. p \o q = r
  BY <1>1, <1>2, <1>3, <1>4, ConcatIs
<1> QED
  BY <1>5 DEF p, q, r

(* RilContract.  The chars of a message become bytes, part by part.        *)
LEMMA BytesConcat ==
    ASSUME NEW X, NEW p \in Seq(X), NEW q \in Seq(X)
    PROVE  Bytes(p \o q) = Bytes(p) \o Bytes(q)
<1> DEFINE r == p \o q
           m == Len(p)
           n == Len(q)
           F(x) == IF x = C THEN B ELSE x
<1>1. m \in Nat /\ n \in Nat /\ DOMAIN p = 1..m /\ DOMAIN q = 1..n
  BY LenProperties
<1>2. r \in Seq(X) /\ Len(r) = m + n /\ DOMAIN r = 1..(m + n)
  <2>1. r \in Seq(X) /\ Len(r) = m + n
    BY ConcatProperties
  <2> QED
    BY <2>1, LenProperties
<1>3. \A i \in 1..(m + n) : r[i] = IF i <= m THEN p[i] ELSE q[i - m]
  BY ConcatProperties
<1> HIDE DEF r, m, n
<1>4. /\ Bytes(r) = [i \in 1..(m + n) |-> F(r[i])]
      /\ Bytes(p) = [i \in 1..m |-> F(p[i])] /\ Bytes(q) = [i \in 1..n |-> F(q[i])]
  BY <1>1, <1>2 DEF Bytes
<1> HIDE DEF F
<1>5. Bytes(p) \o Bytes(q) = [i \in 1..(m + n) |-> IF i <= m THEN F(p[i]) ELSE F(q[i - m])]
  <2> DEFINE u == [i \in 1..m |-> F(p[i])]
             v == [i \in 1..n |-> F(q[i])]
  <2>1. u \in Seq({F(p[i]) : i \in 1..m}) /\ Len(u) = m
    BY <1>1
  <2>2. v \in Seq({F(q[i]) : i \in 1..n}) /\ Len(v) = n
    BY <1>1
  <2>3. u \o v = [i \in 1..(m + n) |-> IF i <= m THEN u[i] ELSE v[i - m]]
    BY <1>1, <2>1, <2>2
  <2> QED
    BY <1>1, <1>4, <2>3
<1>6. \A i \in 1..(m + n) : F(r[i]) = IF i <= m THEN F(p[i]) ELSE F(q[i - m])
  BY <1>3
<1>7. Bytes(r) = Bytes(p) \o Bytes(q)
  BY <1>4, <1>5, <1>6
<1> QED
  BY <1>7 DEF r

(* A list of chars is a list of bytes.                                     *)
LEMMA BytesTimes ==
    ASSUME NEW n \in Int
    PROVE  Bytes(Times(n, <<C>>)) = Times(n, <<B>>)
<1>1. CASE n <= 0
  BY <1>1 DEF Times, Bytes
<1>2. CASE ~(n <= 0)
  <2>1. /\ Times(n, <<C>>) = [k \in 1..(n * 1) |-> <<C>>[((k - 1) % 1) + 1]]
        /\ Times(n, <<B>>) = [k \in 1..(n * 1) |-> <<B>>[((k - 1) % 1) + 1]]
    BY <1>2 DEF Times
  <2>2. n * 1 = n /\ \A k \in 1..n : (k - 1) % 1 = 0
    OBVIOUS
  <2>3. Times(n, <<C>>) = [k \in 1..n |-> C] /\ Times(n, <<B>>) = [k \in 1..n |-> B]
    BY <2>1, <2>2
  <2> QED
    BY <2>3 DEF Bytes
<1> QED
  BY <1>1, <1>2

(* The structures that hold chars.                                         *)
LEMMA TupleBytes ==
    /\ Bytes(<<I, C, I>>) = <<I, B, I>> /\ Bytes(<<I, I, I, I, C>>) = <<I, I, I, I, B>>
    /\ Bytes(<<I, C, C>>) = <<I, B, B>> /\ Bytes(<<I>>) = <<I>>
    /\ Wide(<<I, I, I, I, C>>) = <<I, I, I, I, I>> /\ Wide(<<I, I, C>>) = <<I, I, I>>
    /\ Wide(<<C, C, C, C>>) = <<I, I, I, I>>
<1> USE DEF C, B, I
<1>1. Bytes(<<I, C, I>>) = <<I, B, I>> /\ Bytes(<<I, I, I, I, C>>) = <<I, I, I, I, B>>
  BY DEF Bytes
<1>2. Bytes(<<I, C, C>>) = <<I, B, B>> /\ Bytes(<<I>>) = <<I>>
  BY DEF Bytes
<1>3. Wide(<<I, I, I, I, C>>) = <<I, I, I, I, I>> /\ Wide(<<I, I, C>>) = <<I, I, I>>
  BY DEF Wide
<1>4. Wide(<<C, C, C, C>>) = <<I, I, I, I>>
  BY DEF Wide
<1> QED
  BY <1>1, <1>2, <1>3, <1>4

(* Sequences are put together in any order.                                *)
Cat(p, q) == p \o q

(* Joining, under a name that keeps the provers from opening it.           *)
LEMMA CatRules ==
    ASSUME NEW X, NEW p \in Seq(X), NEW q \in Seq(X)
    PROVE  Cat(p, q) \in Seq(X) /\ Bytes(Cat(p, q)) = Cat(Bytes(p), Bytes(q))
  BY ConcatProperties, BytesConcat DEF Cat

(* Joining is associative.                                                 *)
LEMMA CatAssociative ==
    ASSUME NEW X, NEW p \in Seq(X), NEW q \in Seq(X), NEW r \in Seq(X)
    PROVE  Cat(Cat(p, q), r) = Cat(p, Cat(q, r))
  BY ConcatAssociative, SMTT(30) DEF Cat

(* A CDMA short message is written as ril_cdma_sms.h lays it out.          *)
LEMMA MessageImage ==
    ASSUME NEW n \in Int
    PROVE  /\ Bytes(RIL_CDMA_SMS_Message(n)) = responseCdmaSms(n)
           /\ RIL_CDMA_SMS_Message(n) \in Seq(Wire \cup {C})
<1> DEFINE X == Wire \cup {C}
           Q == Seq(X)
           t == Times(AtMost(n, DigitsMax), <<C>>)
           u == Times(AtMost(n, DigitsMax), <<B>>)
           a == <<I, C, I>>   b == <<I, I, I, I, C>>   c == <<I, C, C>>   d == <<I>>
           e == <<I, B, I>>   f == <<I, I, I, I, B>>   g == <<I, B, B>>
<1>1. t \in Q /\ u \in Q /\ Bytes(t) = u
  <2>1. AtMost(n, DigitsMax) \in Int
    BY CodecAssumption DEF AtMost
  <2>2. <<C>> \in Seq(X) /\ Len(<<C>>) = 1 /\ <<B>> \in Seq(X) /\ Len(<<B>>) = 1
    BY DEF Wire
  <2> QED
    BY <2>1, <2>2, TimesSeq, BytesTimes
<1>2. a \in Q /\ b \in Q /\ c \in Q /\ d \in Q /\ e \in Q /\ f \in Q /\ g \in Q
  BY DEF Wire
<1>3. /\ \A p, q \in Q : Cat(p, q) \in Q /\ Bytes(Cat(p, q)) = Cat(Bytes(p), Bytes(q))
      /\ \A p, q, r \in Q : Cat(Cat(p, q), r) = Cat(p, Cat(q, r))
  <2>1. \A p, q \in Seq(X) : Cat(p, q) \in Seq(X) /\ Bytes(Cat(p, q)) = Cat(Bytes(p), Bytes(q))
    BY CatRules, Zenon
  <2>2. \A p, q, r \in Seq(X) : Cat(Cat(p, q), r) = Cat(p, Cat(q, r))
    <3> TAKE p, q, r \in Seq(X)
    <3> HIDE DEF X
    <3> QED
      BY CatAssociative
  <2> QED
    BY <2>1, <2>2, Zenon
<1>4. Bytes(a) = e /\ Bytes(b) = f /\ Bytes(c) = g /\ Bytes(d) = d
  BY TupleBytes
<1>5. RIL_CDMA_SMS_Message(n) = Cat(Cat(Cat(Cat(a, Cat(b, t)), Cat(c, t)), d), t)
  BY DEF RIL_CDMA_SMS_Message, RIL_CDMA_SMS_Address, RIL_CDMA_SMS_Subaddress, Cat
<1>6. responseCdmaSms(n) = Cat(Cat(Cat(Cat(Cat(Cat(e, f), u), g), u), d), u)
  BY FrontOfMessage DEF responseCdmaSms, Cat
<1> HIDE DEF Q, t, u, a, b, c, d, e, f, g
<1>7. /\ Cat(b, t) \in Q /\ Cat(a, Cat(b, t)) \in Q /\ Cat(c, t) \in Q
      /\ Cat(Cat(a, Cat(b, t)), Cat(c, t)) \in Q
      /\ Cat(Cat(Cat(a, Cat(b, t)), Cat(c, t)), d) \in Q
      /\ Cat(Cat(Cat(Cat(a, Cat(b, t)), Cat(c, t)), d), t) \in Q
  BY <1>1, <1>2, <1>3
<1>8. Bytes(RIL_CDMA_SMS_Message(n)) = Cat(Cat(Cat(Cat(e, Cat(f, u)), Cat(g, u)), d), u)
  BY <1>1, <1>2, <1>3, <1>4, <1>5, <1>7
<1>9. Cat(e, f) \in Q /\ Cat(Cat(e, f), u) \in Q /\ Cat(e, Cat(f, u)) = Cat(Cat(e, f), u)
  BY <1>1, <1>2, <1>3
<1>10. Cat(Cat(e, Cat(f, u)), Cat(g, u)) = Cat(Cat(Cat(Cat(e, f), u), g), u)
  BY <1>1, <1>2, <1>3, <1>9
<1> QED
  BY <1>5, <1>6, <1>7, <1>8, <1>10 DEF Q

(* RilCodec.  No command has two handlers.                                 *)
LEMMA OneHandler ==
    ASSUME NEW c, NEW d \in Handlers, NEW e \in Handlers, c \in Command(d), c \in Command(e)
    PROVE  d = e
<1>1. CASE d = "Strings"
  BY <1>1 DEF Command, Handlers
<1>2. CASE d = "Ints"
  BY <1>2 DEF Command, Handlers
<1>3. CASE d = "String"
  BY <1>3 DEF Command, Handlers
<1>4. CASE d = "CallForward"
  BY <1>4 DEF Command, Handlers
<1>5. CASE d = "Depersonalization"
  BY <1>5 DEF Command, Handlers
<1>6. CASE d = "Dial"
  BY <1>6 DEF Command, Handlers
<1>7. CASE d = "DataCall"
  BY <1>7 DEF Command, Handlers
<1>8. CASE d = "SIM_IO"
  BY <1>8 DEF Command, Handlers
<1>9. CASE d = "Raw"
  BY <1>9 DEF Command, Handlers
<1>10. CASE d = "SmsWrite"
  BY <1>10 DEF Command, Handlers
<1>11. CASE d = "CdmaSms"
  BY <1>11 DEF Command, Handlers
<1>12. CASE d = "CdmaSmsAck"
  BY <1>12 DEF Command, Handlers
<1>13. CASE d = "GsmBrSmsCnf"
  BY <1>13 DEF Command, Handlers
<1>14. CASE d = "CdmaBrSmsCnf"
  BY <1>14 DEF Command, Handlers
<1>15. CASE d = "RilCdmaSmsWriteArgs"
  BY <1>15 DEF Command, Handlers
<1>16. CASE d = "RadioState"
  BY <1>16 DEF Command, Handlers
<1>17. CASE d = "ImsSms"
  BY <1>17 DEF Command, Handlers
<1>18. CASE d = "UiccSubscripton"
  BY <1>18 DEF Command, Handlers
<1> QED
  BY <1>1, <1>2, <1>3, <1>4, <1>5, <1>6, <1>7, <1>8, <1>9, <1>10, <1>11, <1>12,
     <1>13, <1>14, <1>15, <1>16, <1>17, <1>18 DEF Handlers

(* The handler of a command is the one it is listed with, or none.         *)
LEMMA HandlerIs ==
    ASSUME NEW c
    PROVE  /\ \A d \in Handlers : c \in Command(d) => HandlerOf(c) = d
           /\ (\A d \in Handlers : c \notin Command(d)) => HandlerOf(c) = "Void"
<1>1. ASSUME NEW d \in Handlers, c \in Command(d) PROVE HandlerOf(c) = d
  <2>1. HandlerOf(c) = CHOOSE e \in Handlers : c \in Command(e)
    BY <1>1 DEF HandlerOf
  <2>2. \A e \in Handlers : c \in Command(e) => e = d
    BY <1>1, OneHandler
  <2> QED
    BY <1>1, <2>1, <2>2
<1> QED
  BY <1>1 DEF HandlerOf

(* The handlers of each type of data.                                      *)
Reader(type) ==
    CASE type = "void" -> {"Void", "RadioState"}
      [] type = "string" -> {"String"}
      [] type = "strings" -> {"Strings"}
      [] type = "ints" -> {"Ints"}
      [] type = "raw" -> {"Raw"}
      [] type = "Depersonalization" -> {"Depersonalization"}
      [] type = "Dial" -> {"Dial"}
      [] type = "SetupDataCall" -> {"DataCall"}
      [] type = "SIM_IO" -> {"SIM_IO"}
      [] type = "CallForward" -> {"CallForward"}
      [] type = "SMS_WriteArgs" -> {"SmsWrite"}
      [] type = "CDMA_SMS" -> {"CdmaSms"}
      [] type = "CDMA_SMS_Ack" -> {"CdmaSmsAck"}
      [] type = "CDMA_SMS_WriteArgs" -> {"RilCdmaSmsWriteArgs"}
      [] type = "IMS_SMS" -> {"ImsSms"}
      [] type = "GSM_Broadcast" -> {"GsmBrSmsCnf"}
      [] type = "CDMA_Broadcast" -> {"CdmaBrSmsCnf"}
      [] type = "SelectUiccSub" -> {"UiccSubscripton"}
      [] OTHER -> {}

(* The requests with data of a type have a handler of that type.           *)
ReadAs(T) == \A t \in T : t[1] # 47 => HandlerOf(t[1]) \in Reader(t[2])

(* A request with no arguments, in any row of the table.                   *)
LEMMA VoidAt ==
    ASSUME NEW c \in {1, 9} \cup (13..22) \cup {30, 31, 38, 39, 40, 45, 46, 48, 50, 51,
                                                54, 55, 56, 57, 58, 66, 67, 72, 74, 75, 79, 81, 83, 89, 92, 95, 98, 99, 100, 103, 109}
    PROVE  HandlerOf(c) = "Void"
<1>1. \A d \in Handlers : c \notin Command(d)
  BY DEF Handlers, Command
<1> QED
  BY <1>1, HandlerIs

(* The dispatch functions that the table names for a few requests.         *)
LEMMA ListedAt ==
    /\ \A c \in (2..7) \cup {11, 25, 26} \cup (41..44) \cup {47, 60, 85, 106} : HandlerOf(c) = "Strings"
    /\ \A c \in {12, 23, 32, 35, 36, 37, 52, 53,
                 61, 62, 64, 65, 71, 73, 76, 77, 78, 80, 82, 91, 94, 97, 102} :
         HandlerOf(c) = "Ints"
    /\ \A c \in {24, 29, 49, 68, 69, 70, 84, 86, 101, 105, 107} : HandlerOf(c) = "String"
    /\ HandlerOf(33) = "CallForward" /\ HandlerOf(34) = "CallForward"
    /\ HandlerOf(8) = "Depersonalization" /\ HandlerOf(10) = "Dial"
    /\ HandlerOf(27) = "DataCall"
    /\ HandlerOf(28) = "SIM_IO" /\ HandlerOf(59) = "Raw" /\ HandlerOf(63) = "SmsWrite"
    /\ HandlerOf(87) = "CdmaSms" /\ HandlerOf(88) = "CdmaSmsAck"
    /\ HandlerOf(90) = "GsmBrSmsCnf"
    /\ HandlerOf(93) = "CdmaBrSmsCnf" /\ HandlerOf(96) = "RilCdmaSmsWriteArgs"
    /\ HandlerOf(104) = "RadioState" /\ HandlerOf(108) = "RadioState"
    /\ HandlerOf(110) = "ImsSms" /\ HandlerOf(118) = "UiccSubscripton"
<1>1. \A d \in Handlers : \A c \in Command(d) : HandlerOf(c) = d
  BY HandlerIs
<1>2. /\ HandlerOf(33) = "CallForward" /\ HandlerOf(34) = "CallForward"
      /\ HandlerOf(8) = "Depersonalization" /\ HandlerOf(10) = "Dial"
      /\ HandlerOf(27) = "DataCall"
      /\ HandlerOf(28) = "SIM_IO" /\ HandlerOf(59) = "Raw" /\ HandlerOf(63) = "SmsWrite"
  BY <1>1 DEF Handlers, Command
<1>3. /\ HandlerOf(87) = "CdmaSms" /\ HandlerOf(88) = "CdmaSmsAck"
      /\ HandlerOf(90) = "GsmBrSmsCnf"
      /\ HandlerOf(93) = "CdmaBrSmsCnf" /\ HandlerOf(96) = "RilCdmaSmsWriteArgs"
      /\ HandlerOf(104) = "RadioState" /\ HandlerOf(108) = "RadioState"
      /\ HandlerOf(110) = "ImsSms" /\ HandlerOf(118) = "UiccSubscripton"
  BY <1>1 DEF Handlers, Command
<1>4. \A c \in (2..7) \cup {11, 25, 26} \cup (41..44) \cup {47, 60, 85, 106} : HandlerOf(c) = "Strings"
  BY <1>1 DEF Handlers, Command
<1>5. \A c \in {12, 23, 32, 35, 36, 37, 52, 53,
                61, 62, 64, 65, 71, 73, 76, 77, 78, 80, 82, 91, 94, 97, 102} :
         HandlerOf(c) = "Ints"
  BY <1>1 DEF Handlers, Command
<1>6. \A c \in {24, 29, 49, 68, 69, 70, 84, 86, 101, 105, 107} : HandlerOf(c) = "String"
  BY <1>1 DEF Handlers, Command
<1> QED
  BY <1>2, <1>3, <1>4, <1>5, <1>6

(* The table of ril.h has every command, and each is read as its data.     *)
LEMMA RequestsRead == ReadAs(Requests)
<1> USE VoidAt, ListedAt DEF ReadAs, Reader, Each
<1>1. ReadAs(SimPins)
  BY DEF SimPins
<1>2. ReadAs(CallsAndImsi)
  BY DEF CallsAndImsi
<1>3. ReadAs(CallSwitching)
  BY DEF CallSwitching
<1>4. ReadAs(Registration)
  BY DEF Registration
<1>5. ReadAs(RadioAndDtmf)
  BY DEF RadioAndDtmf
<1>6. ReadAs(SmsAndDataSetup)
  BY DEF SmsAndDataSetup
<1>7. ReadAs(SimIoAndUssd)
  BY DEF SimIoAndUssd
<1>8. ReadAs(CallForwardAndWaiting)
  BY DEF CallForwardAndWaiting
<1>9. ReadAs(FacilityLocks)
  BY DEF FacilityLocks
<1>10. ReadAs(NetworkSelection)
  BY DEF NetworkSelection
<1>11. ReadAs(DtmfTonesAndMute)
  BY DEF DtmfTonesAndMute
<1>12. ReadAs(DataCallsAndOem)
  BY DEF DataCallsAndOem
<1>13. ReadAs(ScreenAndSmsStorage)
  BY DEF ScreenAndSmsStorage
<1>14. ReadAs(BandModesAndStk)
  BY DEF BandModesAndStk
<1>15. ReadAs(NetworkType)
  BY DEF NetworkType
<1>16. ReadAs(CdmaPreferences)
  BY DEF CdmaPreferences
<1>17. ReadAs(CdmaSms)
  BY DEF CdmaSms
<1>18. ReadAs(Broadcast)
  BY DEF Broadcast
<1>19. ReadAs(Device)
  BY DEF Device
<1>20. ReadAs(StkAndIms)
  BY DEF StkAndIms
<1>21. ReadAs(UiccSubscription)
  BY DEF UiccSubscription
<1> QED
  BY <1>1, <1>2, <1>3, <1>4, <1>5, <1>6, <1>7, <1>8, <1>9, <1>10, <1>11, <1>12,
     <1>13, <1>14, <1>15, <1>16, <1>17, <1>18, <1>19, <1>20, <1>21,
     SMTT(30) DEF Requests

(* And each command is in it.                                             *)
LEMMA RequestListed == \A c \in s_commands : \E t \in Requests : t[1] = c
<1> DEFINE Has(T, U) == \A c \in U : \E t \in T : t[1] = c
<1>1. Has(SimPins, 1..6)
  <2>1. \A c \in 2..6 : <<c, "strings", "ints">> \in SimPins
    BY DEF SimPins, Each
  <2>2. <<1, "void", "CardStatus">> \in SimPins
    BY DEF SimPins
  <2> QED
    BY <2>1, <2>2
<1>2. Has(CallsAndImsi, 7..13)
  BY DEF CallsAndImsi
<1>3. Has(CallSwitching, 14..18)
  <2>1. \A c \in 14..17 : <<c, "void", "void">> \in CallSwitching
    BY DEF CallSwitching, Each
  <2>2. <<18, "void", "ints">> \in CallSwitching
    BY DEF CallSwitching
  <2> QED
    BY <2>1, <2>2
<1>4. Has(Registration, 19..20)
  BY DEF Registration
<1>5. Has(RadioAndDtmf, 21..24)
  <2>1. \A c \in {21, 22} : <<c, "void", "strings">> \in RadioAndDtmf
    BY DEF RadioAndDtmf, Each
  <2>2. <<23, "ints", "void">> \in RadioAndDtmf /\ <<24, "string", "void">> \in RadioAndDtmf
    BY DEF RadioAndDtmf
  <2> QED
    BY <2>1, <2>2
<1>6. Has(SmsAndDataSetup, 25..27)
  <2>1. \A c \in {25, 26} : <<c, "strings", "SMS_Response">> \in SmsAndDataSetup
    BY DEF SmsAndDataSetup, Each
  <2>2. <<27, "SetupDataCall", "DataCall">> \in SmsAndDataSetup
    BY DEF SmsAndDataSetup
  <2> QED
    BY <2>1, <2>2
<1>7. Has(SimIoAndUssd, 28..33)
  BY DEF SimIoAndUssd
<1>8. Has(CallForwardAndWaiting, 34..39)
  <2>1. \A c \in {36, 37} : <<c, "ints", "void">> \in CallForwardAndWaiting
    BY DEF CallForwardAndWaiting, Each
  <2>2. \A c \in {38, 39} : <<c, "void", "string">> \in CallForwardAndWaiting
    BY DEF CallForwardAndWaiting, Each
  <2>3. /\ <<34, "CallForward", "void">> \in CallForwardAndWaiting
        /\ <<35, "ints", "ints">> \in CallForwardAndWaiting
    BY DEF CallForwardAndWaiting
  <2> QED
    BY <2>1, <2>2, <2>3
<1>9. Has(FacilityLocks, 40..43)
  <2>1. \A c \in {42, 43} : <<c, "strings", "ints">> \in FacilityLocks
    BY DEF FacilityLocks, Each
  <2>2. /\ <<40, "void", "void">> \in FacilityLocks
        /\ <<41, "strings", "void">> \in FacilityLocks
    BY DEF FacilityLocks
  <2> QED
    BY <2>1, <2>2
<1>10. Has(NetworkSelection, 44..48)
  BY DEF NetworkSelection
<1>11. Has(DtmfTonesAndMute, 49..55)
  <2>1. \A c \in {52, 53} : <<c, "ints", "void">> \in DtmfTonesAndMute
    BY DEF DtmfTonesAndMute, Each
  <2>2. \A c \in {54, 55} : <<c, "void", "ints">> \in DtmfTonesAndMute
    BY DEF DtmfTonesAndMute, Each
  <2>3. /\ <<49, "string", "void">> \in DtmfTonesAndMute
        /\ <<50, "void", "void">> \in DtmfTonesAndMute
        /\ <<51, "void", "string">> \in DtmfTonesAndMute
    BY DEF DtmfTonesAndMute
  <2> QED
    BY <2>1, <2>2, <2>3
<1>12. Has(DataCallsAndOem, 56..60)
  BY DEF DataCallsAndOem
<1>13. Has(ScreenAndSmsStorage, 61..65)
  <2>1. \A c \in {61, 62, 64, 65} : <<c, "ints", "void">> \in ScreenAndSmsStorage
    BY DEF ScreenAndSmsStorage, Each
  <2>2. <<63, "SMS_WriteArgs", "ints">> \in ScreenAndSmsStorage
    BY DEF ScreenAndSmsStorage
  <2> QED
    BY <2>1, <2>2
<1>14. Has(BandModesAndStk, 66..71)
  <2>1. \A c \in {68, 70} : <<c, "string", "void">> \in BandModesAndStk
    BY DEF BandModesAndStk, Each
  <2>2. /\ <<66, "void", "ints">> \in BandModesAndStk
        /\ <<67, "void", "string">> \in BandModesAndStk
        /\ <<69, "string", "string">> \in BandModesAndStk
        /\ <<71, "ints", "void">> \in BandModesAndStk
    BY DEF BandModesAndStk
  <2> QED
    BY <2>1, <2>2
<1>15. Has(NetworkType, 72..77)
  <2>1. \A c \in {73, 76, 77} : <<c, "ints", "void">> \in NetworkType
    BY DEF NetworkType, Each
  <2>2. /\ <<72, "void", "void">> \in NetworkType /\ <<74, "void", "ints">> \in NetworkType
        /\ <<75, "void", "Cells">> \in NetworkType
    BY DEF NetworkType
  <2> QED
    BY <2>1, <2>2
<1>16. Has(CdmaPreferences, 78..83)
  <2>1. \A c \in {78, 80, 82} : <<c, "ints", "void">> \in CdmaPreferences
    BY DEF CdmaPreferences, Each
  <2>2. \A c \in {79, 81, 83} : <<c, "void", "ints">> \in CdmaPreferences
    BY DEF CdmaPreferences, Each
  <2> QED
    BY <2>1, <2>2
<1>17. Has(CdmaSms, 84..90)
  <2>1. \A c \in {84, 86} : <<c, "string", "void">> \in CdmaSms
    BY DEF CdmaSms, Each
  <2>2. /\ <<85, "strings", "void">> \in CdmaSms
        /\ <<87, "CDMA_SMS", "SMS_Response">> \in CdmaSms
        /\ <<88, "CDMA_SMS_Ack", "void">> \in CdmaSms
        /\ <<89, "void", "GSM_Broadcast">> \in CdmaSms
        /\ <<90, "GSM_Broadcast", "void">> \in CdmaSms
    BY DEF CdmaSms
  <2> QED
    BY <2>1, <2>2
<1>18. Has(Broadcast, 91..97)
  <2>1. \A c \in {91, 94, 97} : <<c, "ints", "void">> \in Broadcast
    BY DEF Broadcast, Each
  <2>2. /\ <<92, "void", "CDMA_Broadcast">> \in Broadcast
        /\ <<93, "CDMA_Broadcast", "void">> \in Broadcast
        /\ <<95, "void", "strings">> \in Broadcast
        /\ <<96, "CDMA_SMS_WriteArgs", "ints">> \in Broadcast
    BY DEF Broadcast
  <2> QED
    BY <2>1, <2>2
<1>19. Has(Device, 98..104)
  <2>1. \A c \in {99, 103} : <<c, "void", "void">> \in Device
    BY DEF Device, Each
  <2>2. /\ <<98, "void", "strings">> \in Device /\ <<100, "void", "string">> \in Device
        /\ <<101, "string", "void">> \in Device /\ <<102, "ints", "void">> \in Device
        /\ <<104, "void", "ints">> \in Device
    BY DEF Device
  <2> QED
    BY <2>1, <2>2
<1>20. Has(StkAndIms, 105..110)
  <2>1. \A c \in {108, 109} : <<c, "void", "ints">> \in StkAndIms
    BY DEF StkAndIms, Each
  <2>2. /\ <<105, "string", "string">> \in StkAndIms
        /\ <<106, "strings", "void">> \in StkAndIms
        /\ <<107, "string", "SIM_IO_Response">> \in StkAndIms
        /\ <<110, "IMS_SMS", "SMS_Response">> \in StkAndIms
    BY DEF StkAndIms
  <2> QED
    BY <2>1, <2>2
<1>21. Has(UiccSubscription, {118})
  BY DEF UiccSubscription
<1>22. \A c \in s_commands :
         \/ c \in 1..6 \/ c \in 7..13 \/ c \in 14..18
         \/ c \in 19..20 \/ c \in 21..24 \/ c \in 25..27 \/ c \in 28..33
         \/ c \in 34..39 \/ c \in 40..43 \/ c \in 44..48 \/ c \in 49..55 \/ c \in 56..60
         \/ c \in 61..65
         \/ c \in 66..71 \/ c \in 72..77 \/ c \in 78..83 \/ c \in 84..90 \/ c \in 91..97
         \/ c \in 98..104 \/ c \in 105..110 \/ c \in {118}
  BY DEF s_commands
<1> HIDE DEF Has
<1>23. ASSUME NEW T, NEW U, NEW c \in U, Has(T, U) PROVE \E t \in T : t[1] = c
  BY <1>23 DEF Has
<1> QED
  <2> TAKE c \in s_commands
  <2>1. CASE c \in 1..6
    BY <1>1, <1>23, <2>1 DEF Requests
  <2>2. CASE c \in 7..13
    BY <1>2, <1>23, <2>2 DEF Requests
  <2>3. CASE c \in 14..18
    BY <1>3, <1>23, <2>3 DEF Requests
  <2>4. CASE c \in 19..20
    BY <1>4, <1>23, <2>4 DEF Requests
  <2>5. CASE c \in 21..24
    BY <1>5, <1>23, <2>5 DEF Requests
  <2>6. CASE c \in 25..27
    BY <1>6, <1>23, <2>6 DEF Requests
  <2>7. CASE c \in 28..33
    BY <1>7, <1>23, <2>7 DEF Requests
  <2>8. CASE c \in 34..39
    BY <1>8, <1>23, <2>8 DEF Requests
  <2>9. CASE c \in 40..43
    BY <1>9, <1>23, <2>9 DEF Requests
  <2>10. CASE c \in 44..48
    BY <1>10, <1>23, <2>10 DEF Requests
  <2>11. CASE c \in 49..55
    BY <1>11, <1>23, <2>11 DEF Requests
  <2>12. CASE c \in 56..60
    BY <1>12, <1>23, <2>12 DEF Requests
  <2>13. CASE c \in 61..65
    BY <1>13, <1>23, <2>13 DEF Requests
  <2>14. CASE c \in 66..71
    BY <1>14, <1>23, <2>14 DEF Requests
  <2>15. CASE c \in 72..77
    BY <1>15, <1>23, <2>15 DEF Requests
  <2>16. CASE c \in 78..83
    BY <1>16, <1>23, <2>16 DEF Requests
  <2>17. CASE c \in 84..90
    BY <1>17, <1>23, <2>17 DEF Requests
  <2>18. CASE c \in 91..97
    BY <1>18, <1>23, <2>18 DEF Requests
  <2>19. CASE c \in 98..104
    BY <1>19, <1>23, <2>19 DEF Requests
  <2>20. CASE c \in 105..110
    BY <1>20, <1>23, <2>20 DEF Requests
  <2>21. CASE c \in {118}
    BY <1>21, <1>23, <2>21 DEF Requests
  <2> QED
    BY <1>22, <2>1, <2>2, <2>3, <2>4, <2>5, <2>6, <2>7, <2>8, <2>9, <2>10,
       <2>11, <2>12, <2>13, <2>14, <2>15, <2>16, <2>17, <2>18, <2>19, <2>20,
       <2>21

(* The function that writes each type of response.                         *)
Writer(type, n, ragged, form, v) ==
    CASE type = "void" -> responseVoid
      [] type = "string" -> responseString
      [] type = "strings" -> responseStrings(n, ragged)
      [] type = "ints" -> responseInts(n, ragged)
      [] type = "raw_or_NULL" -> responseRaw(n)
      [] type = "SMS_Response" -> responseSMS(ragged)
      [] type = "SIM_IO_Response" -> responseSIM_IO(ragged)
      [] type = "CardStatus" -> responseSimStatus(n, ragged)
      [] type = "Calls" -> responseCallList(n, ragged, form, v)
      [] type = "SignalStrength" -> responseRilSignalStrength(form)
      [] type = "DataCall" -> responseSetupDataCall(n, ragged, v)
      [] type = "CallForwards" -> responseCallForwards(n, ragged)
      [] type = "DataCalls" -> responseDataCallList(n, ragged, v)
      [] type = "Cells" -> responseCellList(n, ragged)
      [] type = "GSM_Broadcast" -> responseGsmBrSmsCnf(n)
      [] type = "CDMA_Broadcast" -> responseCdmaBrSmsCnf(n)

ResponseTypes ==
    {"void", "string", "strings", "ints", "raw_or_NULL", "SMS_Response", "SIM_IO_Response",
     "CardStatus", "Calls", "SignalStrength", "DataCall", "CallForwards", "DataCalls",
     "Cells", "GSM_Broadcast", "CDMA_Broadcast"}

WrittenAs(T) ==
    \A t \in T : /\ t[3] \in ResponseTypes
                 /\ (t[3] = "SignalStrength") <=> (t[1] = 19)
                 /\ \A n, ragged, form, v :
                      Response(t[1], n, ragged, form, v) = Writer(t[3], n, ragged, form, v)

(* Each answer in the table of ril.h is written as its type.               *)
LEMMA RequestsWritten == WrittenAs(Requests)
<1> USE DEF WrittenAs, Writer, Response, ResponseTypes, Each
<1>1. WrittenAs(SimPins)
  BY DEF SimPins
<1>2. WrittenAs(CallsAndImsi)
  BY DEF CallsAndImsi
<1>3. WrittenAs(CallSwitching)
  BY DEF CallSwitching
<1>4. WrittenAs(Registration)
  BY DEF Registration
<1>5. WrittenAs(RadioAndDtmf)
  BY DEF RadioAndDtmf
<1>6. WrittenAs(SmsAndDataSetup)
  BY DEF SmsAndDataSetup
<1>7. WrittenAs(SimIoAndUssd)
  BY DEF SimIoAndUssd
<1>8. WrittenAs(CallForwardAndWaiting)
  BY DEF CallForwardAndWaiting
<1>9. WrittenAs(FacilityLocks)
  BY DEF FacilityLocks
<1>10. WrittenAs(NetworkSelection)
  BY DEF NetworkSelection
<1>11. WrittenAs(DtmfTonesAndMute)
  BY DEF DtmfTonesAndMute
<1>12. WrittenAs(DataCallsAndOem)
  BY DEF DataCallsAndOem
<1>13. WrittenAs(ScreenAndSmsStorage)
  BY DEF ScreenAndSmsStorage
<1>14. WrittenAs(BandModesAndStk)
  BY DEF BandModesAndStk
<1>15. WrittenAs(NetworkType)
  BY DEF NetworkType
<1>16. WrittenAs(CdmaPreferences)
  BY DEF CdmaPreferences
<1>17. WrittenAs(CdmaSms)
  BY DEF CdmaSms
<1>18. WrittenAs(Broadcast)
  BY DEF Broadcast
<1>19. WrittenAs(Device)
  BY DEF Device
<1>20. WrittenAs(StkAndIms)
  BY DEF StkAndIms
<1>21. WrittenAs(UiccSubscription)
  BY DEF UiccSubscription
<1> HIDE DEF Writer, Response, ResponseTypes, Each
<1> QED
  BY <1>1, <1>2, <1>3, <1>4, <1>5, <1>6, <1>7, <1>8, <1>9, <1>10, <1>11, <1>12,
     <1>13, <1>14, <1>15, <1>16, <1>17, <1>18, <1>19, <1>20, <1>21 DEF Requests

(* Some structures are made of two.                                        *)
LEMMA TuplesMade ==
    /\ <<I, I, I, I, I, I, I, I, S, I, S, I>> \o <<I>> = <<I, I, I, I, I, I, I, I, S, I, S, I, I>>
    /\ <<I, I>> \o <<I, I>> = <<I, I, I, I>>
    /\ <<I, I, I, I>> \o <<I, I, I>> = <<I, I, I, I, I, I, I>>
    /\ <<I, I, I, I, I, I, I>> \o <<I, I, I, I, I>> = <<I, I, I, I, I, I, I, I, I, I, I, I>>
    /\ <<I, I, I, I, I, I, I, I, I, I, I, I>> \o <<I>> = <<I, I, I, I, I, I, I, I, I, I, I, I, I>>
    /\ <<I, I, S>> \o <<S>> = <<I, I, S, S>>
<1>1. <<I, I, I, I, I, I, I, I, S, I, S, I>> \o <<I>> = <<I, I, I, I, I, I, I, I, S, I, S, I, I>>
  <2> DEFINE p == <<I, I, I, I, I, I, I, I, S, I, S, I>>  q == <<I>>
           r == <<I, I, I, I, I, I, I, I, S, I, S, I, I>>
  <2>1. /\ p \in Seq({I, S}) /\ q \in Seq({I, S}) /\ r \in Seq({I, S})
        /\ Len(r) = Len(p) + Len(q)
    OBVIOUS
  <2>2. \A i \in 1..Len(p) : r[i] = p[i]
    OBVIOUS
  <2>3. \A i \in 1..Len(q) : r[Len(p) + i] = q[i]
    OBVIOUS
  <2> HIDE DEF p, q, r
  <2>4. p \o q = r
    BY <2>1, <2>2, <2>3, ConcatIs
  <2> QED
    BY <2>4 DEF p, q, r
<1>2. <<I, I>> \o <<I, I>> = <<I, I, I, I>>
  <2> DEFINE p == <<I, I>>  q == <<I, I>>
           r == <<I, I, I, I>>
  <2>1. p \in Seq({I}) /\ q \in Seq({I}) /\ r \in Seq({I}) /\ Len(r) = Len(p) + Len(q)
    OBVIOUS
  <2>2. \A i \in 1..Len(p) : r[i] = p[i]
    OBVIOUS
  <2>3. \A i \in 1..Len(q) : r[Len(p) + i] = q[i]
    OBVIOUS
  <2> HIDE DEF p, q, r
  <2>4. p \o q = r
    BY <2>1, <2>2, <2>3, ConcatIs
  <2> QED
    BY <2>4 DEF p, q, r
<1>3. <<I, I, I, I>> \o <<I, I, I>> = <<I, I, I, I, I, I, I>>
  <2> DEFINE p == <<I, I, I, I>>  q == <<I, I, I>>
           r == <<I, I, I, I, I, I, I>>
  <2>1. p \in Seq({I}) /\ q \in Seq({I}) /\ r \in Seq({I}) /\ Len(r) = Len(p) + Len(q)
    OBVIOUS
  <2>2. \A i \in 1..Len(p) : r[i] = p[i]
    OBVIOUS
  <2>3. \A i \in 1..Len(q) : r[Len(p) + i] = q[i]
    OBVIOUS
  <2> HIDE DEF p, q, r
  <2>4. p \o q = r
    BY <2>1, <2>2, <2>3, ConcatIs
  <2> QED
    BY <2>4 DEF p, q, r
<1>4. <<I, I, I, I, I, I, I>> \o <<I, I, I, I, I>> = <<I, I, I, I, I, I, I, I, I, I, I, I>>
  <2> DEFINE p == <<I, I, I, I, I, I, I>>  q == <<I, I, I, I, I>>
           r == <<I, I, I, I, I, I, I, I, I, I, I, I>>
  <2>1. p \in Seq({I}) /\ q \in Seq({I}) /\ r \in Seq({I}) /\ Len(r) = Len(p) + Len(q)
    OBVIOUS
  <2>2. \A i \in 1..Len(p) : r[i] = p[i]
    OBVIOUS
  <2>3. \A i \in 1..Len(q) : r[Len(p) + i] = q[i]
    OBVIOUS
  <2> HIDE DEF p, q, r
  <2>4. p \o q = r
    BY <2>1, <2>2, <2>3, ConcatIs
  <2> QED
    BY <2>4 DEF p, q, r
<1>5. <<I, I, I, I, I, I, I, I, I, I, I, I>> \o <<I>> = <<I, I, I, I, I, I, I, I, I, I, I, I, I>>
  <2> DEFINE p == <<I, I, I, I, I, I, I, I, I, I, I, I>>  q == <<I>>
           r == <<I, I, I, I, I, I, I, I, I, I, I, I, I>>
  <2>1. p \in Seq({I}) /\ q \in Seq({I}) /\ r \in Seq({I}) /\ Len(r) = Len(p) + Len(q)
    OBVIOUS
  <2>2. \A i \in 1..Len(p) : r[i] = p[i]
    OBVIOUS
  <2>3. \A i \in 1..Len(q) : r[Len(p) + i] = q[i]
    OBVIOUS
  <2> HIDE DEF p, q, r
  <2>4. p \o q = r
    BY <2>1, <2>2, <2>3, ConcatIs
  <2> QED
    BY <2>4 DEF p, q, r
<1>6. <<I, I, S>> \o <<S>> = <<I, I, S, S>>
  <2> DEFINE p == <<I, I, S>>  q == <<S>>
           r == <<I, I, S, S>>
  <2>1. /\ p \in Seq({I, S}) /\ q \in Seq({I, S}) /\ r \in Seq({I, S})
        /\ Len(r) = Len(p) + Len(q)
    OBVIOUS
  <2>2. \A i \in 1..Len(p) : r[i] = p[i]
    OBVIOUS
  <2>3. \A i \in 1..Len(q) : r[Len(p) + i] = q[i]
    OBVIOUS
  <2> HIDE DEF p, q, r
  <2>4. p \o q = r
    BY <2>1, <2>2, <2>3, ConcatIs
  <2> QED
    BY <2>4 DEF p, q, r
<1> QED
  BY <1>1, <1>2, <1>3, <1>4, <1>5, <1>6

(* RilContract.  Each writer writes what ril.h says, or gives up.          *)
LEMMA WriterImage ==
    ASSUME NEW n \in Int, NEW ragged \in BOOLEAN, NEW form, NEW v \in Nat, NEW type \in ResponseTypes,
           type = "SignalStrength" => form \in {"short", "v5", "v6", "v7"}
    PROVE  Writer(type, n, ragged, form, v) \in {Invalid, Image(type, n, form, v)}
<1>1. CASE type \in {"void", "string", "strings", "ints", "raw_or_NULL"}
  BY <1>1 DEF Writer, Image, responseVoid, responseString, responseStrings,
     responseInts, responseRaw, Whole
<1>2. CASE type \in {"SMS_Response", "SIM_IO_Response"}
  BY <1>2 DEF Writer, Image, responseSMS, responseSIM_IO, Whole,
     RIL_SMS_Response, RIL_SIM_IO_Response
<1>3. CASE type = "CardStatus"
  BY <1>3 DEF Writer, Image, responseSimStatus, Whole, RIL_CardStatus_v6,
     sendSimStatusAppInfo, AppStatus, RIL_AppStatus
<1>4. CASE type = "Calls"
  <2> DEFINE w == Wide(RIL_Call)
             z == <<I, I, I, I, I, I, I, I, S, I, S, I>>
             q == <<I, I, I, I, I, I, I, I, S, I, S, I, I>>
  <2>1. w = z
    BY DEF RIL_Call, Wide, C, I, S
  <2>2. z \o <<I>> = q
    BY TuplesMade
  <2>3. q \o <<>> = q /\ z \o (<<I>> \o RIL_UUS_Info) = q \o <<I, I, I, D>>
    <3>1. /\ z \in Seq(Tokens) /\ <<I>> \in Seq(Tokens) /\ RIL_UUS_Info \in Seq(Tokens)
          /\ q \in Seq(Tokens)
      BY DEF Tokens, RIL_UUS_Info
    <3>2. (z \o <<I>>) \o RIL_UUS_Info = z \o (<<I>> \o RIL_UUS_Info)
      <4> HIDE DEF z
      <4> QED
        BY <3>1, ConcatAssociative
    <3> QED
      BY <2>2, <3>1, <3>2, ConcatEmptySeq DEF RIL_UUS_Info
  <2> HIDE DEF w, z, q
  <2>4. w \o Uus(form, v) = q \o (IF v < 3 \/ form # "uus" THEN <<>> ELSE <<I, I, I, D>>)
    <3>1. v >= 3 <=> ~(v < 3)
      OBVIOUS
    <3> QED
      BY <2>1, <2>2, <2>3, <3>1 DEF Uus
  <2> QED
    BY <1>4, <2>4 DEF Writer, Image, responseCallList, Whole, w, q
<1>5. CASE type = "SignalStrength"
  <2>1. /\ Times(7, <<I>>) = <<I, I, I, I, I, I, I>>
        /\ Times(12, <<I>>) = <<I, I, I, I, I, I, I, I, I, I, I, I>>
        /\ Times(13, <<I>>) = <<I, I, I, I, I, I, I, I, I, I, I, I, I>>
    BY DEF Times
  <2>2. \A p \in Seq({I}) : p \o <<>> = p
    BY ConcatEmptySeq
  <2>3. /\ <<I, I, I, I, I, I, I>> \in Seq({I})
        /\ <<I, I, I, I, I, I, I, I, I, I, I, I>> \in Seq({I})
    OBVIOUS
  <2>4. CASE form = "short"
    BY <1>5, <2>4 DEF Writer, responseRilSignalStrength
  <2>5. CASE form = "v5"
    <3>1. RIL_SignalStrength(form) = <<I, I, I, I, I, I, I>>
      BY <2>2, <2>3, <2>5, TuplesMade DEF RIL_SignalStrength
    <3> QED
      BY <1>5, <2>1, <2>5, <3>1 DEF Writer, Image, responseRilSignalStrength
  <2>6. CASE form = "v6"
    <3>1. RIL_SignalStrength(form) = <<I, I, I, I, I, I, I, I, I, I, I, I>>
      BY <2>2, <2>3, <2>6, TuplesMade DEF RIL_SignalStrength
    <3> QED
      BY <1>5, <2>1, <2>6, <3>1 DEF Writer, Image, responseRilSignalStrength
  <2>7. CASE form = "v7"
    <3>1. RIL_SignalStrength(form) = <<I, I, I, I, I, I, I, I, I, I, I, I, I>>
      BY <2>7, TuplesMade DEF RIL_SignalStrength
    <3> QED
      BY <1>5, <2>1, <2>7, <3>1 DEF Writer, Image, responseRilSignalStrength
  <2> QED
    BY <1>5, <2>4, <2>5, <2>6, <2>7
<1>6. DataCallImage(v) = IF v >= 5 THEN <<I, I, I, I, S, S, S, S, S>> ELSE <<I, I, S, S>>
  <2>1. RemoveAt(<<I, I, S, S, S>>, 4) = <<I, I, S, S>>
    <3> DEFINE s == <<I, I, S, S, S>>
    <3>1. /\ SubSeq(<<I, I, S, S, S>>, 1, 3) = <<I, I, S>>
          /\ SubSeq(<<I, I, S, S, S>>, 5, 5) = <<S>>
      <4>1. /\ \A i \in 1..3 : s[i] \in {I, S} /\ s[1 + i - 1] = <<I, I, S>>[i]
            /\ \A i \in 5..5 : s[i] \in {I, S}
            /\ \A i \in 1..1 : s[5 + i - 1] = <<S>>[i]
            /\ <<I, I, S>> \in Seq({I, S}) /\ Len(<<I, I, S>>) = 3
            /\ <<S>> \in Seq({I, S}) /\ Len(<<S>>) = 1
        OBVIOUS
      <4> HIDE DEF s
      <4>2. /\ SubSeq(s, 1, 3) \in Seq({I, S}) /\ Len(SubSeq(s, 1, 3)) = 3
            /\ \A i \in 1..3 : SubSeq(s, 1, 3)[i] = s[1 + i - 1]
        BY <4>1, SubSeqProperties
      <4>3. /\ SubSeq(s, 5, 5) \in Seq({I, S}) /\ Len(SubSeq(s, 5, 5)) = 1
            /\ \A i \in 1..1 : SubSeq(s, 5, 5)[i] = s[5 + i - 1]
        BY <4>1, SubSeqProperties
      <4>4. SubSeq(s, 1, 3) = <<I, I, S>> /\ SubSeq(s, 5, 5) = <<S>>
        <5> DEFINE a == SubSeq(s, 1, 3)  b == SubSeq(s, 5, 5)
                   x == <<I, I, S>>  y == <<S>>
        <5>1. /\ a \in Seq({I, S}) /\ x \in Seq({I, S}) /\ Len(a) = Len(x)
              /\ b \in Seq({I, S}) /\ y \in Seq({I, S}) /\ Len(b) = Len(y)
          BY <4>1, <4>2, <4>3
        <5>2. \A i \in 1..Len(a) : a[i] = x[i]
          BY <4>1, <4>2
        <5>3. \A i \in 1..Len(b) : b[i] = y[i]
          BY <4>1, <4>3
        <5> HIDE DEF a, b, x, y
        <5>4. a = x /\ b = y
          BY <5>1, <5>2, <5>3, SeqEqual
        <5> QED
          BY <5>4 DEF a, b, x, y
      <4> QED
        BY <4>4 DEF s
    <3>2. RemoveAt(<<I, I, S, S, S>>, 4)
            = SubSeq(<<I, I, S, S, S>>, 1, 3) \o SubSeq(<<I, I, S, S, S>>, 5, 5)
      BY DEF RemoveAt
    <3> QED
      BY <3>1, <3>2, TuplesMade
  <2> QED
    BY <2>1 DEF DataCallImage, RIL_Data_Call_Response_v6, RIL_Data_Call_Response_v4
<1>7. CASE type \in {"DataCall", "DataCalls"}
  <2>1. CASE ragged
    BY <1>7, <2>1 DEF Writer, responseSetupDataCall, responseDataCallList, Whole
  <2>2. CASE ~ragged /\ v >= 5
    <3>1. ~(v < 5)
      BY <2>2
    <3> QED
      BY <1>6, <1>7, <2>2, <3>1 DEF Writer, Image, responseSetupDataCall,
         responseDataCallList, Whole
  <2>3. CASE ~ragged /\ ~(v >= 5)
    <3>1. v < 5
      BY <2>3
    <3> QED
      BY <1>6, <1>7, <2>3, <3>1
      DEF Writer, Image, responseSetupDataCall, responseDataCallList, responseDataCallListV4,
          responseStrings, Whole
  <2> QED
    BY <2>1, <2>2, <2>3
<1>8. CASE type = "CallForwards"
  BY <1>8 DEF Writer, Image, responseCallForwards, Whole, CallForwardInfo,
     RIL_CallForwardInfo
<1>9. CASE type = "Cells"
  <2>1. Reverse(RIL_NeighboringCell) = <<I, S>>
    BY DEF Reverse, RIL_NeighboringCell
  <2> QED
    BY <1>9, <2>1 DEF Writer, Image, responseCellList, Whole
<1>10. CASE type \in {"GSM_Broadcast", "CDMA_Broadcast"}
  BY <1>10, TupleBytes DEF Writer, Image, responseGsmBrSmsCnf, responseCdmaBrSmsCnf,
                           RIL_GSM_BroadcastSmsConfigInfo, RIL_CDMA_BroadcastSmsConfigInfo
<1> QED
  BY <1>1, <1>2, <1>3, <1>4, <1>5, <1>7, <1>8, <1>9, <1>10 DEF ResponseTypes

(* Where libril gives an IMS message of another form up.                   *)
LEMMA OtherImsRejected ==
    ASSUME NEW n, NEW form, form \notin {"3GPP", "3GPP2"}, NEW k
    PROVE  ~Passes(dispatchImsSms(form, n), k)
<1> DEFINE p == <<I, Status, B, Status, I, Status>>
           q == <<Reject>>
           r == p \o q
<1>1. dispatchImsSms(form, n) = r
  BY DEF dispatchImsSms
<1>2. p \in Seq(Tokens) /\ q \in Seq(Tokens) /\ Len(p) = 6 /\ Len(q) = 1 /\ q[1] = Reject
  BY DEF Tokens, Tests
<1> HIDE DEF p, q
<1>3. r \in Seq(Tokens) /\ Len(r) = 7 /\ \A i \in 1..7 : r[i] = IF i <= 6 THEN p[i] ELSE q[i - 6]
  <2>1. /\ r \in Seq(Tokens) /\ Len(r) = Len(p) + Len(q)
        /\ \A i \in 1..(Len(p) + Len(q)) : r[i] = IF i <= Len(p) THEN p[i] ELSE q[i - Len(p)]
    BY <1>2, ConcatProperties
  <2> HIDE DEF r
  <2> QED
    BY <1>2, <2>1
<1>4. DOMAIN r = 1..7 /\ r[7] = Reject
  <2>1. DOMAIN r = 1..7
    BY <1>3, LenProperties
  <2>2. r[7] = q[7 - 6]
    BY <1>3
  <2> QED
    BY <1>2, <2>1, <2>2
<1> HIDE DEF r
<1>5. ~Passes(r, k)
  BY <1>4 DEF Passes
<1> QED
  BY <1>1, <1>5

(* The wire form of a dial request, with and without its UUS part.         *)
LEMMA DialItems ==
    ASSUME NEW form, NEW v \in Nat
    PROVE  Items(dispatchDial(form, v)) = RIL_Dial \o (IF v < 3 THEN <<>> ELSE Uus(form, v))
<1> DEFINE a == <<S, I, Status, NotNull>>
           b == <<I, Status>>
           c == <<I, I, I, Status, D>>
<1>1. /\ a \in Seq(Tokens) /\ b \in Seq(Tokens) /\ c \in Seq(Tokens) /\ <<>> \in Seq(Tokens)
      /\ RIL_Dial \in Seq(Tokens) /\ <<I>> \in Seq(Tokens) /\ RIL_UUS_Info \in Seq(Tokens)
  BY DEF Tokens, Tests, RIL_Dial, RIL_UUS_Info
<1>2. Items(a) = RIL_Dial /\ Items(b) = <<I>> /\ Items(c) = RIL_UUS_Info
  BY HeadItems DEF RIL_Dial, RIL_UUS_Info
<1>3. dispatchDial(form, v)
        = (a \o (IF v < 3 THEN <<>> ELSE b)) \o (IF v < 3 \/ form # "uus" THEN <<>> ELSE c)
  BY DEF dispatchDial
<1>4. v >= 3 <=> ~(v < 3)
  OBVIOUS
<1> HIDE DEF a, b, c
<1>5. CASE v < 3
  <2>1. dispatchDial(form, v) = (a \o <<>>) \o <<>>
    BY <1>3, <1>5
  <2>2. dispatchDial(form, v) = a
    BY <1>1, <2>1, ConcatEmptySeq
  <2>3. RIL_Dial \o <<>> = RIL_Dial
    BY <1>1, ConcatEmptySeq
  <2> QED
    BY <1>2, <1>5, <2>2, <2>3
<1>6. CASE ~(v < 3) /\ form # "uus"
  <2>1. dispatchDial(form, v) = (a \o b) \o <<>>
    BY <1>3, <1>6
  <2>2. a \o b \in Seq(Tokens)
    BY <1>1, ConcatProperties
  <2>3. (a \o b) \o <<>> = a \o b
    BY <2>2, ConcatEmptySeq
  <2>4. Items(a \o b) = RIL_Dial \o <<I>>
    <3>1. Items(a \o b) = Items(a) \o Items(b)
      BY <1>1, ItemsConcat
    <3> QED
      BY <1>2, <3>1
  <2>5. Uus(form, v) = <<I>>
    BY <1>4, <1>6 DEF Uus
  <2> QED
    BY <1>6, <2>1, <2>3, <2>4, <2>5
<1>7. CASE ~(v < 3) /\ form = "uus"
  <2>1. dispatchDial(form, v) = (a \o b) \o c
    BY <1>3, <1>7
  <2>2. a \o b \in Seq(Tokens)
    BY <1>1, ConcatProperties
  <2>3. Items(a \o b) = RIL_Dial \o <<I>>
    <3>1. Items(a \o b) = Items(a) \o Items(b)
      BY <1>1, ItemsConcat
    <3> QED
      BY <1>2, <3>1
  <2>4. Items((a \o b) \o c) = (RIL_Dial \o <<I>>) \o RIL_UUS_Info
    BY <1>1, <1>2, <2>2, <2>3, ItemsConcat
  <2>5. (RIL_Dial \o <<I>>) \o RIL_UUS_Info = RIL_Dial \o (<<I>> \o RIL_UUS_Info)
    BY <1>1, ConcatAssociative
  <2>6. Uus(form, v) = <<I>> \o RIL_UUS_Info
    BY <1>4, <1>7 DEF Uus
  <2> QED
    BY <1>7, <2>1, <2>4, <2>5, <2>6
<1> QED
  BY <1>5, <1>6, <1>7

(* The wire form of an IMS message, for each of the two technologies.      *)
LEMMA ImsItems ==
    ASSUME NEW n \in Int, NEW form \in {"3GPP", "3GPP2"}
    PROVE  Items(dispatchImsSms(form, n)) =
             <<I, B, I>> \o (IF form = "3GPP" THEN List(n, <<S>>) ELSE responseCdmaSms(n))
<1> DEFINE p == <<I, Status, B, Status, I, Status>>
           x == IF form = "3GPP" THEN dispatchStrings(n) ELSE constructCdmaSms(n)
<1>1. p \in Seq(Tokens) /\ Items(p) = <<I, B, I>>
  <2>1. p \in Seq(Tokens)
    BY DEF Tokens, Tests
  <2> QED
    BY <2>1, HeadItems
<1>2. dispatchImsSms(form, n) = p \o x
  BY DEF dispatchImsSms, dispatchImsGsmSms, dispatchImsCdmaSms
<1>3. x \in Seq(Tokens) /\ Items(x) = IF form = "3GPP" THEN List(n, <<S>>) ELSE responseCdmaSms(n)
  BY ListItems, MessageItems
<1> HIDE DEF p, x
<1>4. Items(p \o x) = Items(p) \o Items(x)
  BY <1>1, <1>3, ItemsConcat
<1> QED
  BY <1>1, <1>2, <1>3, <1>4

(* Every function reads what ril.h says of its request's data.             *)
LEMMA ReaderImage ==
    ASSUME NEW c, NEW n \in Int, NEW form, NEW v \in Nat, NEW type, HandlerOf(c) \in Reader(type),
           type = "IMS_SMS" => form \in {"3GPP", "3GPP2"}
    PROVE  Items(Program(c, n, form, v)) = Image(type, n, form, v)
<1>1. CASE type \in {"void", "string"}
  <2>1. <<>> \in Seq(Wire) /\ <<S>> \in Seq(Wire)
    BY DEF Wire
  <2> QED
    BY <1>1, <2>1, ItemsAll DEF Reader, Program, Image, dispatchVoid, dispatchString
<1>2. CASE type \in {"strings", "ints"}
  BY <1>2, ListItems DEF Reader, Program, Image
<1>3. CASE type = "raw"
  BY <1>3, HeadItems DEF Reader, Program, Image, dispatchRaw
<1>4. CASE type \in {"Depersonalization", "SIM_IO", "CallForward", "SMS_WriteArgs",
            "CDMA_SMS_Ack", "SelectUiccSub"}
  BY <1>4, HeadItems DEF Reader, Program, Image, dispatchDepersonalization,
     dispatchSIM_IO, dispatchCallForward,
     dispatchSmsWrite, dispatchCdmaSmsAck, dispatchUiccSubscripton, RIL_Depersonalization, RIL_SIM_IO_v6,
     RIL_CallForwardInfo, RIL_SMS_WriteArgs, RIL_CDMA_SMS_Ack, RIL_SelectUiccSub
<1>5. CASE type = "Dial"
  BY <1>5, DialItems DEF Reader, Program, Image
<1>6. CASE type = "SetupDataCall"
  <2> DEFINE m == IF v < 4 THEN AtMost(n, numParamsRilV3) ELSE n
  <2>1. m \in Int /\ m = IF v < 4 /\ n > numParamsRilV3 THEN numParamsRilV3 ELSE n
    BY DEF AtMost, numParamsRilV3
  <2> HIDE DEF m
  <2>2. Program(c, n, form, v) = dispatchStrings(m)
    BY <1>6, <2>1 DEF Reader, Program, dispatchDataCall
  <2>3. Image(type, n, form, v) = List(m, <<S>>)
    BY <1>6 DEF Image, m
  <2> QED
    BY <2>1, <2>2, <2>3, ListItems
<1>7. CASE type = "CDMA_SMS"
  BY <1>7, MessageItems, MessageImage DEF Reader, Program, Image, dispatchCdmaSms
<1>8. CASE type = "CDMA_SMS_WriteArgs"
  <2>1. DigitsMax \in Int
    BY CodecAssumption
  <2>2. Bytes(RIL_CDMA_SMS_WriteArgs(DigitsMax)) = <<I>> \o responseCdmaSms(DigitsMax)
    <3>1. <<I>> \in Seq(Wire \cup {C})
      BY DEF Wire
    <3>2. /\ RIL_CDMA_SMS_Message(DigitsMax) \in Seq(Wire \cup {C})
          /\ Bytes(RIL_CDMA_SMS_Message(DigitsMax)) = responseCdmaSms(DigitsMax)
      BY <2>1, MessageImage
    <3>3. Bytes(<<I>>) = <<I>>
      BY TupleBytes
    <3> QED
      BY <3>1, <3>2, <3>3, BytesConcat, ZenonT(60) DEF RIL_CDMA_SMS_WriteArgs
  <2> QED
    BY <1>8, <2>2, StoredMessageItems DEF Reader, Program, Image
<1>9. CASE type = "IMS_SMS"
  <2>1. Bytes(RIL_IMS_SMS_Message) = <<I, B, I>>
    BY TupleBytes DEF RIL_IMS_SMS_Message
  <2>2. Program(c, n, form, v) = dispatchImsSms(form, n)
    BY <1>9 DEF Reader, Program
  <2>3. Image(type, n, form, v) =
          <<I, B, I>> \o (IF form = "3GPP" THEN List(n, <<S>>) ELSE responseCdmaSms(n))
    BY <1>9, <2>1, MessageImage DEF Image
  <2> QED
    BY <1>9, <2>2, <2>3, ImsItems
<1>10. CASE type \in {"GSM_Broadcast", "CDMA_Broadcast"}
  BY <1>10, ListItems, TupleBytes
  DEF Reader, Program, Image, RIL_GSM_BroadcastSmsConfigInfo, RIL_CDMA_BroadcastSmsConfigInfo
<1> QED
  BY <1>1, <1>2, <1>3, <1>4, <1>5, <1>6, <1>7, <1>8, <1>9, <1>10 DEF Reader

(* Those of the events, too.                                               *)
LEMMA EventTuples ==
    /\ <<S, I, S>> \o <<C, C, C, C>> = <<S, I, S, C, C, C, C>>
    /\ <<S, I, S, C, C, C, C>> \o <<I, I>> = <<S, I, S, C, C, C, C, I, I>>
    /\ <<S, I, S>> \o <<I, I, I, I>> = <<S, I, S, I, I, I, I>>
    /\ <<S, I, S, I, I, I, I>> \o <<I, I>> = <<S, I, S, I, I, I, I, I, I>>
    /\ <<I>> \o <<S>> = <<I, S>>
    /\ <<I>> \o <<I, D>> = <<I, I, D>>
    /\ <<I>> \o <<S, C, C, C, C>> = <<I, S, C, C, C, C>>
    /\ <<I>> \o <<C, C, C, C>> = <<I, C, C, C, C>>
    /\ <<S, C, C, C, C>> \o <<I>> = <<S, C, C, C, C, I>>
    /\ <<I>> \o <<S, C, C, C, C, I>> = <<I, S, C, C, C, C, I>>
    /\ <<I>> \o <<C>> = <<I, C>>
    /\ <<I>> \o <<C, C>> = <<I, C, C>>
    /\ <<I>> \o <<I, I, I, I>> = <<I, I, I, I, I>>
<1>1. <<S, I, S>> \o <<C, C, C, C>> = <<S, I, S, C, C, C, C>>
  <2> DEFINE p == <<S, I, S>>  q == <<C, C, C, C>>
           r == <<S, I, S, C, C, C, C>>
  <2>1. /\ p \in Seq({I, S, C, D}) /\ q \in Seq({I, S, C, D}) /\ r \in Seq({I, S, C, D})
        /\ Len(r) = Len(p) + Len(q)
    OBVIOUS
  <2>2. \A i \in 1..Len(p) : r[i] = p[i]
    OBVIOUS
  <2>3. \A i \in 1..Len(q) : r[Len(p) + i] = q[i]
    OBVIOUS
  <2> HIDE DEF p, q, r
  <2>4. p \o q = r
    BY <2>1, <2>2, <2>3, ConcatIs
  <2> QED
    BY <2>4 DEF p, q, r
<1>2. <<S, I, S, C, C, C, C>> \o <<I, I>> = <<S, I, S, C, C, C, C, I, I>>
  <2> DEFINE p == <<S, I, S, C, C, C, C>>  q == <<I, I>>
           r == <<S, I, S, C, C, C, C, I, I>>
  <2>1. /\ p \in Seq({I, S, C, D}) /\ q \in Seq({I, S, C, D}) /\ r \in Seq({I, S, C, D})
        /\ Len(r) = Len(p) + Len(q)
    OBVIOUS
  <2>2. \A i \in 1..Len(p) : r[i] = p[i]
    OBVIOUS
  <2>3. \A i \in 1..Len(q) : r[Len(p) + i] = q[i]
    OBVIOUS
  <2> HIDE DEF p, q, r
  <2>4. p \o q = r
    BY <2>1, <2>2, <2>3, ConcatIs
  <2> QED
    BY <2>4 DEF p, q, r
<1>3. <<S, I, S>> \o <<I, I, I, I>> = <<S, I, S, I, I, I, I>>
  <2> DEFINE p == <<S, I, S>>  q == <<I, I, I, I>>
           r == <<S, I, S, I, I, I, I>>
  <2>1. /\ p \in Seq({I, S, C, D}) /\ q \in Seq({I, S, C, D}) /\ r \in Seq({I, S, C, D})
        /\ Len(r) = Len(p) + Len(q)
    OBVIOUS
  <2>2. \A i \in 1..Len(p) : r[i] = p[i]
    OBVIOUS
  <2>3. \A i \in 1..Len(q) : r[Len(p) + i] = q[i]
    OBVIOUS
  <2> HIDE DEF p, q, r
  <2>4. p \o q = r
    BY <2>1, <2>2, <2>3, ConcatIs
  <2> QED
    BY <2>4 DEF p, q, r
<1>4. <<S, I, S, I, I, I, I>> \o <<I, I>> = <<S, I, S, I, I, I, I, I, I>>
  <2> DEFINE p == <<S, I, S, I, I, I, I>>  q == <<I, I>>
           r == <<S, I, S, I, I, I, I, I, I>>
  <2>1. /\ p \in Seq({I, S, C, D}) /\ q \in Seq({I, S, C, D}) /\ r \in Seq({I, S, C, D})
        /\ Len(r) = Len(p) + Len(q)
    OBVIOUS
  <2>2. \A i \in 1..Len(p) : r[i] = p[i]
    OBVIOUS
  <2>3. \A i \in 1..Len(q) : r[Len(p) + i] = q[i]
    OBVIOUS
  <2> HIDE DEF p, q, r
  <2>4. p \o q = r
    BY <2>1, <2>2, <2>3, ConcatIs
  <2> QED
    BY <2>4 DEF p, q, r
<1>5. <<I>> \o <<S>> = <<I, S>>
  <2> DEFINE p == <<I>>  q == <<S>>
           r == <<I, S>>
  <2>1. /\ p \in Seq({I, S, C, D}) /\ q \in Seq({I, S, C, D}) /\ r \in Seq({I, S, C, D})
        /\ Len(r) = Len(p) + Len(q)
    OBVIOUS
  <2>2. \A i \in 1..Len(p) : r[i] = p[i]
    OBVIOUS
  <2>3. \A i \in 1..Len(q) : r[Len(p) + i] = q[i]
    OBVIOUS
  <2> HIDE DEF p, q, r
  <2>4. p \o q = r
    BY <2>1, <2>2, <2>3, ConcatIs
  <2> QED
    BY <2>4 DEF p, q, r
<1>6. <<I>> \o <<I, D>> = <<I, I, D>>
  <2> DEFINE p == <<I>>  q == <<I, D>>
           r == <<I, I, D>>
  <2>1. /\ p \in Seq({I, S, C, D}) /\ q \in Seq({I, S, C, D}) /\ r \in Seq({I, S, C, D})
        /\ Len(r) = Len(p) + Len(q)
    OBVIOUS
  <2>2. \A i \in 1..Len(p) : r[i] = p[i]
    OBVIOUS
  <2>3. \A i \in 1..Len(q) : r[Len(p) + i] = q[i]
    OBVIOUS
  <2> HIDE DEF p, q, r
  <2>4. p \o q = r
    BY <2>1, <2>2, <2>3, ConcatIs
  <2> QED
    BY <2>4 DEF p, q, r
<1>7. <<I>> \o <<S, C, C, C, C>> = <<I, S, C, C, C, C>>
  <2> DEFINE p == <<I>>  q == <<S, C, C, C, C>>
           r == <<I, S, C, C, C, C>>
  <2>1. /\ p \in Seq({I, S, C, D}) /\ q \in Seq({I, S, C, D}) /\ r \in Seq({I, S, C, D})
        /\ Len(r) = Len(p) + Len(q)
    OBVIOUS
  <2>2. \A i \in 1..Len(p) : r[i] = p[i]
    OBVIOUS
  <2>3. \A i \in 1..Len(q) : r[Len(p) + i] = q[i]
    OBVIOUS
  <2> HIDE DEF p, q, r
  <2>4. p \o q = r
    BY <2>1, <2>2, <2>3, ConcatIs
  <2> QED
    BY <2>4 DEF p, q, r
<1>8. <<I>> \o <<C, C, C, C>> = <<I, C, C, C, C>>
  <2> DEFINE p == <<I>>  q == <<C, C, C, C>>
           r == <<I, C, C, C, C>>
  <2>1. /\ p \in Seq({I, S, C, D}) /\ q \in Seq({I, S, C, D}) /\ r \in Seq({I, S, C, D})
        /\ Len(r) = Len(p) + Len(q)
    OBVIOUS
  <2>2. \A i \in 1..Len(p) : r[i] = p[i]
    OBVIOUS
  <2>3. \A i \in 1..Len(q) : r[Len(p) + i] = q[i]
    OBVIOUS
  <2> HIDE DEF p, q, r
  <2>4. p \o q = r
    BY <2>1, <2>2, <2>3, ConcatIs
  <2> QED
    BY <2>4 DEF p, q, r
<1>9. <<S, C, C, C, C>> \o <<I>> = <<S, C, C, C, C, I>>
  <2> DEFINE p == <<S, C, C, C, C>>  q == <<I>>
           r == <<S, C, C, C, C, I>>
  <2>1. /\ p \in Seq({I, S, C, D}) /\ q \in Seq({I, S, C, D}) /\ r \in Seq({I, S, C, D})
        /\ Len(r) = Len(p) + Len(q)
    OBVIOUS
  <2>2. \A i \in 1..Len(p) : r[i] = p[i]
    OBVIOUS
  <2>3. \A i \in 1..Len(q) : r[Len(p) + i] = q[i]
    OBVIOUS
  <2> HIDE DEF p, q, r
  <2>4. p \o q = r
    BY <2>1, <2>2, <2>3, ConcatIs
  <2> QED
    BY <2>4 DEF p, q, r
<1>10. <<I>> \o <<S, C, C, C, C, I>> = <<I, S, C, C, C, C, I>>
  <2> DEFINE p == <<I>>  q == <<S, C, C, C, C, I>>
           r == <<I, S, C, C, C, C, I>>
  <2>1. /\ p \in Seq({I, S, C, D}) /\ q \in Seq({I, S, C, D}) /\ r \in Seq({I, S, C, D})
        /\ Len(r) = Len(p) + Len(q)
    OBVIOUS
  <2>2. \A i \in 1..Len(p) : r[i] = p[i]
    OBVIOUS
  <2>3. \A i \in 1..Len(q) : r[Len(p) + i] = q[i]
    OBVIOUS
  <2> HIDE DEF p, q, r
  <2>4. p \o q = r
    BY <2>1, <2>2, <2>3, ConcatIs
  <2> QED
    BY <2>4 DEF p, q, r
<1>11. <<I>> \o <<C>> = <<I, C>>
  <2> DEFINE p == <<I>>  q == <<C>>
           r == <<I, C>>
  <2>1. /\ p \in Seq({I, S, C, D}) /\ q \in Seq({I, S, C, D}) /\ r \in Seq({I, S, C, D})
        /\ Len(r) = Len(p) + Len(q)
    OBVIOUS
  <2>2. \A i \in 1..Len(p) : r[i] = p[i]
    OBVIOUS
  <2>3. \A i \in 1..Len(q) : r[Len(p) + i] = q[i]
    OBVIOUS
  <2> HIDE DEF p, q, r
  <2>4. p \o q = r
    BY <2>1, <2>2, <2>3, ConcatIs
  <2> QED
    BY <2>4 DEF p, q, r
<1>12. <<I>> \o <<C, C>> = <<I, C, C>>
  <2> DEFINE p == <<I>>  q == <<C, C>>
           r == <<I, C, C>>
  <2>1. /\ p \in Seq({I, S, C, D}) /\ q \in Seq({I, S, C, D}) /\ r \in Seq({I, S, C, D})
        /\ Len(r) = Len(p) + Len(q)
    OBVIOUS
  <2>2. \A i \in 1..Len(p) : r[i] = p[i]
    OBVIOUS
  <2>3. \A i \in 1..Len(q) : r[Len(p) + i] = q[i]
    OBVIOUS
  <2> HIDE DEF p, q, r
  <2>4. p \o q = r
    BY <2>1, <2>2, <2>3, ConcatIs
  <2> QED
    BY <2>4 DEF p, q, r
<1>13. <<I>> \o <<I, I, I, I>> = <<I, I, I, I, I>>
  <2> DEFINE p == <<I>>  q == <<I, I, I, I>>
           r == <<I, I, I, I, I>>
  <2>1. /\ p \in Seq({I, S, C, D}) /\ q \in Seq({I, S, C, D}) /\ r \in Seq({I, S, C, D})
        /\ Len(r) = Len(p) + Len(q)
    OBVIOUS
  <2>2. \A i \in 1..Len(p) : r[i] = p[i]
    OBVIOUS
  <2>3. \A i \in 1..Len(q) : r[Len(p) + i] = q[i]
    OBVIOUS
  <2> HIDE DEF p, q, r
  <2>4. p \o q = r
    BY <2>1, <2>2, <2>3, ConcatIs
  <2> QED
    BY <2>4 DEF p, q, r
<1> QED
  BY <1>1, <1>2, <1>3, <1>4, <1>5, <1>6, <1>7, <1>8, <1>9, <1>10, <1>11, <1>12,
     <1>13

(* What is written for each type of event alone.                           *)
EventWriter(type, n, ragged, form) ==
    CASE type = "SuppSvc" -> responseSsn(ragged)
      [] type = "SimRefresh" -> responseSimRefresh
      [] type = "CallRing" -> responseCallRing(n, ragged)
      [] type = "CDMA_SMS" -> Whole(ragged, responseCdmaSms(n))
      [] type = "CallWaiting" -> responseCdmaCallWaiting
      [] type = "InfoRecords" -> responseCdmaInformationRecords(n, ragged, form)
      [] type = "SS" -> responseSSData(n, ragged, form)
EventTypes == {"SuppSvc", "SimRefresh", "CallRing", "CDMA_SMS", "CallWaiting", "InfoRecords", "SS"}
EventsWrittenAs(T) ==
    \A t \in T :
      /\ t[1] \in Events /\ t[2] \in ResponseTypes \cup EventTypes
      /\ (t[2] = "SignalStrength") <=> (t[1] = 1009)
      /\ \A n, ragged, form, v :
           UnsolResponse(t[1], n, ragged, form, v) =
             IF t[2] \in ResponseTypes THEN Writer(t[2], n, ragged, form, v)
             ELSE EventWriter(t[2], n, ragged, form)

(* Each event in the table of ril.h is written as its type.                *)
LEMMA EventsWritten == EventsWrittenAs(Unsolicited)
<1> USE DEF EventsWrittenAs, Writer, EventWriter, UnsolResponse, ResponseTypes, EventTypes, Events, Sent
<1>1. EventsWrittenAs(StateEvents)
  BY DEF StateEvents
<1>2. EventsWrittenAs(ServiceEvents)
  BY DEF ServiceEvents
<1>3. EventsWrittenAs(CdmaEvents)
  BY DEF CdmaEvents
<1>4. EventsWrittenAs(LateEvents)
  BY DEF LateEvents
<1>5. EventsWrittenAs(CardEvents)
  BY DEF CardEvents
<1> HIDE DEF Writer, EventWriter, UnsolResponse, ResponseTypes, EventTypes, Events, Sent
<1> QED
  BY <1>1, <1>2, <1>3, <1>4, <1>5 DEF Unsolicited

(* And each event is in it.                                                *)
LEMMA EventListed == \A e \in Events : \E t \in Unsolicited : t[1] = e
<1> DEFINE Has(T, U) == \A e \in U : \E t \in T : t[1] = e
<1>1. Has(StateEvents, 1000..1008)
  <2>1. \A e \in 1000..1002 : <<e, "void">> \in StateEvents
    BY DEF StateEvents, Sent
  <2>2. \A e \in {1003, 1004, 1008} : <<e, "string">> \in StateEvents
    BY DEF StateEvents, Sent
  <2>3. /\ <<1005, "ints">> \in StateEvents /\ <<1006, "strings">> \in StateEvents
        /\ <<1007, "void">> \in StateEvents
    BY DEF StateEvents
  <2> QED
    BY <2>1, <2>2, <2>3
<1>2. Has(ServiceEvents, (1009..1017))
  <2>1. \A e \in {1012, 1016} : <<e, "void">> \in ServiceEvents
    BY DEF ServiceEvents, Sent
  <2>2. \A e \in {1013, 1014} : <<e, "string">> \in ServiceEvents
    BY DEF ServiceEvents, Sent
  <2>3. /\ <<1009, "SignalStrength">> \in ServiceEvents
        /\ <<1010, "DataCalls">> \in ServiceEvents /\ <<1011, "SuppSvc">> \in ServiceEvents
        /\ <<1015, "ints">> \in ServiceEvents /\ <<1017, "SimRefresh">> \in ServiceEvents
    BY DEF ServiceEvents
  <2> QED
    BY <2>1, <2>2, <2>3
<1>3. Has(CdmaEvents, (1018..1029))
  <2>1. \A e \in {1019, 1022, 1024} : <<e, "void">> \in CdmaEvents
    BY DEF CdmaEvents, Sent
  <2>2. \A e \in {1021, 1028} : <<e, "raw_or_NULL">> \in CdmaEvents
    BY DEF CdmaEvents, Sent
  <2>3. \A e \in {1023, 1026, 1029} : <<e, "ints">> \in CdmaEvents
    BY DEF CdmaEvents, Sent
  <2>4. /\ <<1018, "CallRing">> \in CdmaEvents /\ <<1020, "CDMA_SMS">> \in CdmaEvents
        /\ <<1025, "CallWaiting">> \in CdmaEvents /\ <<1027, "InfoRecords">> \in CdmaEvents
    BY DEF CdmaEvents
  <2> QED
    BY <2>1, <2>2, <2>3, <2>4
<1>4. Has(LateEvents, 1030..1036)
  <2>1. \A e \in {1030, 1033, 1036} : <<e, "void">> \in LateEvents
    BY DEF LateEvents, Sent
  <2>2. \A e \in {1031, 1032, 1034, 1035} : <<e, "ints">> \in LateEvents
    BY DEF LateEvents, Sent
  <2> QED
    BY <2>1, <2>2
<1>5. Has(CardEvents, 1039..1041)
  <2>1. /\ <<1039, "SS">> \in CardEvents /\ <<1040, "string">> \in CardEvents
        /\ <<1041, "ints">> \in CardEvents
    BY DEF CardEvents
  <2> QED
    BY <2>1
<1>6. \A e \in Events : e \in 1000..1008 \/ e \in 1009..1017 \/ e \in 1018..1029
            \/ e \in 1030..1036 \/ e \in 1039..1041
  BY DEF Events
<1> QED
  BY <1>1, <1>2, <1>3, <1>4, <1>5, <1>6 DEF Unsolicited

(* The client's number of an event tells which it is.                      *)
LEMMA ToClientTells == \A d, e \in Events : ToClient(d) = ToClient(e) => d = e
  BY DEF Events, ToClient

(* The records of the network are made of their parts.                     *)
LEMMA RecordImage ==
    ASSUME NEW form \in InfoRecs
    PROVE  Wide(RIL_CDMA_InformationRecord(form)) = InfoRec(form)
<1> USE EventTuples
<1>1. CASE form \in {"display", "extended display"}
  <2>1. RIL_CDMA_InformationRecord(form) = IF form = "display" THEN <<I, S>> ELSE <<I, I, D>>
    BY <1>1 DEF RIL_CDMA_InformationRecord
  <2>2. Wide(<<I, S>>) = <<I, S>> /\ Wide(<<I, I, D>>) = <<I, I, D>>
    BY DEF Wide, C, I, S, D
  <2> QED
    BY <1>1, <2>1, <2>2 DEF InfoRec
<1>2. CASE form \in {"number", "redirecting"}
  <2>1. RIL_CDMA_InformationRecord(form)
          = IF form = "number" THEN <<I, S, C, C, C, C>> ELSE <<I, S, C, C, C, C, I>>
    BY <1>2 DEF RIL_CDMA_InformationRecord, RIL_CDMA_NumberInfoRecord
  <2>2. /\ Wide(<<I, S, C, C, C, C>>) = <<I, S, I, I, I, I>>
        /\ Wide(<<I, S, C, C, C, C, I>>) = <<I, S, I, I, I, I, I>>
    BY DEF Wide, C, I, S
  <2> QED
    BY <1>2, <2>1, <2>2 DEF InfoRec
<1>3. CASE form \in {"signal", "line control"}
  <2>1. RIL_CDMA_InformationRecord(form) = <<I, C, C, C, C>>
    BY <1>3 DEF RIL_CDMA_InformationRecord, RIL_CDMA_SignalInfoRecord
  <2>2. Wide(<<I, C, C, C, C>>) = <<I, I, I, I, I>>
    BY DEF Wide, C, I
  <2>3. InfoRec(form) = <<I, I, I, I, I>>
    BY <1>3 DEF InfoRec, marshallSignalInfoRecord
  <2> QED
    BY <2>1, <2>2, <2>3
<1>4. CASE form \in {"clir", "audio control"}
  <2>1. RIL_CDMA_InformationRecord(form) = IF form = "clir" THEN <<I, C>> ELSE <<I, C, C>>
    BY <1>4 DEF RIL_CDMA_InformationRecord
  <2>2. Wide(<<I, C>>) = <<I, I>> /\ Wide(<<I, C, C>>) = <<I, I, I>>
    BY DEF Wide, C, I
  <2> QED
    BY <1>4, <2>1, <2>2 DEF InfoRec
<1> QED
  BY <1>1, <1>2, <1>3, <1>4 DEF InfoRecs

(* Each is written as ril.h says, or dropped.                              *)
LEMMA EventImage ==
    ASSUME NEW n \in Int, NEW ragged \in BOOLEAN, NEW form, NEW v, NEW type \in EventTypes, n >= 0
    PROVE  EventWriter(type, n, ragged, form) \in {Invalid, Image(type, n, form, v)}
<1>1. CASE type \in {"SuppSvc", "SimRefresh"}
  BY <1>1 DEF EventWriter, Image, responseSsn, responseSimRefresh, Whole,
     RIL_SuppSvcNotification,
              RIL_SimRefreshResponse_v7
<1>2. CASE type = "CallRing"
  BY <1>2, TupleBytes DEF EventWriter, Image, responseCallRing,
     responseCdmaSignalInfoRecord, Whole, responseVoid,
     marshallSignalInfoRecord, RIL_CDMA_SignalInfoRecord
<1>3. CASE type = "CDMA_SMS"
  BY <1>3, MessageImage DEF EventWriter, Image, Whole
<1>4. CASE type = "CallWaiting"
  <2>1. RIL_CDMA_CallWaiting_v6 = <<S, I, S, C, C, C, C, I, I>>
    BY EventTuples DEF RIL_CDMA_CallWaiting_v6, RIL_CDMA_SignalInfoRecord
  <2>2. responseCdmaCallWaiting = <<S, I, S, I, I, I, I, I, I>>
    BY EventTuples DEF responseCdmaCallWaiting, marshallSignalInfoRecord
  <2>3. Wide(<<S, I, S, C, C, C, C, I, I>>) = <<S, I, S, I, I, I, I, I, I>>
    BY DEF Wide, C, I, S
  <2> QED
    BY <1>4, <2>1, <2>2, <2>3 DEF EventWriter, Image
<1>5. CASE type = "InfoRecords"
  <2>1. CASE ragged \/ (n > 0 /\ form \notin InfoRecs)
    BY <1>5, <2>1 DEF EventWriter, responseCdmaInformationRecords
  <2>2. CASE ~ragged /\ n = 0
    <3>1. <<I>> \o <<>> = <<I>>
      <4>1. <<I>> \in Seq(Tokens)
        BY DEF Tokens
      <4> QED
        BY <4>1, ConcatEmptySeq
    <3> QED
      BY <1>5, <2>2, <3>1 DEF EventWriter, responseCdmaInformationRecords,
         RIL_CDMA_InformationRecords, Image
  <2>3. CASE ~ragged /\ n # 0 /\ form \in InfoRecs
    BY <1>5, <2>3, RecordImage DEF EventWriter, responseCdmaInformationRecords,
       RIL_CDMA_InformationRecords, Image
  <2> QED
    BY <2>1, <2>2, <2>3
<1>6. CASE type = "SS"
  BY <1>6 DEF EventWriter, Image, responseSSData, Whole, isServiceTypeCFQuery,
     RIL_StkCcUnsolSsResponse, RIL_CfData,
              CallForwardInfo, RIL_CallForwardInfo
<1> QED
  BY <1>1, <1>2, <1>3, <1>4, <1>5, <1>6 DEF EventTypes

(* RilCodec.  Until it is answered a request is what processCommandBuffer  *)
(* made of the client's; what was written is what the response function of *)
(* the command, or of the event, writes.                                   *)
Answered ==
    /\ sent.n \in Counts
    /\ (command = 19) <=> sent.form \in {"short", "v5", "v6", "v7"}
    /\ \E ragged \in BOOLEAN : reply = Response(command, sent.n, ragged, sent.form, version)
Happened ==
    \E e \in Events, ragged \in BOOLEAN :
      /\ sent.id = ToClient(e) /\ sent.n \in Counts /\ sent.form \in EventForms(e)
      /\ reply = UnsolResponse(e, sent.n, ragged, sent.form, version) /\ reply # Invalid
Looked == {"unsupported", "invalid", "vendor", "done"}
WireInv ==
    /\ version \in Nat /\ IsRequest(sent)
    /\ fate \in {"idle", "sent", "event", "dropped"} \cup Looked
    /\ fate \in {"sent"} \cup Looked => sent.id \in ClientIds \ NotSupported
    /\ fate \in Looked => command = Translate(sent.id)
    /\ fate \in {"vendor", "done"} => command # Unsupported
    /\ fate = "vendor" => Passes(Program(command, sent.n, sent.form, version), sent.items)
    /\ fate = "done" => Answered
    /\ fate = "event" => Happened

(* Every step keeps it.                                                    *)
LEMMA WireStep == WireInv /\ [CodecNext]_codecVars => WireInv'
<1> SUFFICES ASSUME WireInv, [CodecNext]_codecVars PROVE WireInv'
  OBVIOUS
<1> USE DEF Looked
<1>1. CASE ClientSends
  <2>1. PICK id \in ClientIds \ NotSupported :
          \E n \in CountsOf(Written(id)), form \in Forms(Written(id)) :
          \E k \in 0..Len(Items(Program(Written(id), n, form, version))) :
            sent' = [id |-> id, n |-> n, form |-> form, items |-> k]
    BY <1>1 DEF ClientSends
  <2>2. CountsOf(Written(id)) \subseteq Int
    BY CodecAssumption DEF CountsOf
  <2>3. IsRequest(sent') /\ sent'.id \in ClientIds \ NotSupported
    BY <2>1, <2>2 DEF IsRequest
  <2>4. fate' = "sent" /\ version' = version
    BY <1>1 DEF ClientSends
  <2> QED
    BY <2>3, <2>4 DEF WireInv, IsRequest
<1>2. CASE processCommandBuffer
  <2>1. /\ fate = "sent" /\ command' = Translate(sent.id)
        /\ version' = version /\ sent' = sent
    BY <1>2 DEF processCommandBuffer
  <2>2. CASE /\ fate' = "vendor" /\ command' # Unsupported
             /\ Passes(Program(command', sent.n, sent.form, version), sent.items)
    BY <2>1, <2>2 DEF WireInv, IsRequest
  <2>3. CASE fate' \in {"unsupported", "invalid"}
    BY <2>1, <2>3 DEF WireInv, IsRequest
  <2> QED
    BY <1>2, <2>2, <2>3 DEF processCommandBuffer
<1>3. CASE RIL_onRequestComplete
  <2>1. PICK n \in Counts, ragged \in BOOLEAN, form \in {"plain", "uus", "short", "v5", "v6", "v7"} :
          /\ (command = 19) <=> form \in {"short", "v5", "v6", "v7"}
          /\ reply' = Response(command, n, ragged, form, version)
          /\ sent' = [sent EXCEPT !.n = n, !.form = form]
    BY <1>3 DEF RIL_onRequestComplete
  <2>2. n \in Int
    BY CodecAssumption
  <2>3. /\ sent' = [id |-> sent.id, n |-> n, form |-> form, items |-> sent.items]
        /\ IsRequest(sent') /\ sent'.id = sent.id /\ sent'.n = n /\ sent'.form = form
    BY <2>1, <2>2 DEF WireInv, IsRequest
  <2>4. fate = "vendor" /\ fate' = "done" /\ version' = version /\ command' = command
    BY <1>3 DEF RIL_onRequestComplete
  <2>5. Answered'
    BY <2>1, <2>3, <2>4 DEF Answered
  <2> QED
    BY <2>3, <2>4, <2>5 DEF WireInv
<1>4. CASE RIL_onUnsolicitedResponse
  <2>1. PICK e \in Events, n \in Counts, ragged \in BOOLEAN :
          \E form \in EventForms(e) :
            /\ fate' = IF UnsolResponse(e, n, ragged, form, version) = Invalid
                       THEN "dropped" ELSE "event"
            /\ reply' = UnsolResponse(e, n, ragged, form, version)
            /\ sent' = [NoRequest EXCEPT !.id = ToClient(e), !.n = n, !.form = form]
    BY <1>4, Zenon DEF RIL_onUnsolicitedResponse
  <2>2. PICK form \in EventForms(e) :
          /\ fate' = IF UnsolResponse(e, n, ragged, form, version) = Invalid THEN "dropped" ELSE "event"
          /\ reply' = UnsolResponse(e, n, ragged, form, version)
          /\ sent' = [NoRequest EXCEPT !.id = ToClient(e), !.n = n, !.form = form]
    BY <2>1
  <2>3. n \in Int
    BY CodecAssumption
  <2>4. sent' = [id |-> ToClient(e), n |-> n, form |-> form, items |-> 0]
    BY <2>2 DEF NoRequest
  <2>5. IsRequest(sent') /\ sent'.id = ToClient(e) /\ sent'.n = n /\ sent'.form = form
    BY <2>3, <2>4 DEF IsRequest
  <2>6. version' = version /\ fate' \in {"dropped", "event"} /\ (fate' = "event" => reply' # Invalid)
    BY <1>4, <2>2 DEF RIL_onUnsolicitedResponse
  <2>7. fate' = "event" => Happened'
    <3> SUFFICES ASSUME fate' = "event" PROVE Happened'
      OBVIOUS
    <3>1. /\ sent'.id = ToClient(e) /\ sent'.n \in Counts /\ sent'.form \in EventForms(e)
          /\ reply' = UnsolResponse(e, sent'.n, ragged, sent'.form, version')
          /\ reply' # Invalid
      BY <2>2, <2>5, <2>6
    <3> QED
      BY <3>1 DEF Happened
  <2> QED
    BY <2>5, <2>6, <2>7 DEF WireInv
<1>5. CASE UNCHANGED codecVars
  BY <1>5 DEF codecVars, WireInv, IsRequest, Answered, Happened
<1> QED
  BY <1>1, <1>2, <1>3, <1>4, <1>5 DEF CodecNext

(* The wire invariant holds in every state that libril's codec reaches.    *)
LEMMA WireAlways == CodecSpec => []WireInv
<1>1. CodecInit => WireInv
  BY CodecAssumption DEF CodecInit, WireInv, IsRequest, NoRequest, Looked
<1> QED
  BY <1>1, WireStep, PTL DEF CodecSpec

(* A client's number reaches the command it means.                         *)
LEMMA TranslateIs ==
    \A id \in ClientIds \ (NotSupported \cup Misread) : Translate(id) = Meaning(id)
<1> TAKE id \in ClientIds \ (NotSupported \cup Misread)
<1>1. /\ DOMAIN reqNumRILJ = {109, 110, 118} /\ reqNumRILJ[109] = 112
      /\ reqNumRILJ[110] = 113 /\ reqNumRILJ[118] = 122
  BY DEF reqNumRILJ
<1>2. CASE id \in {112, 113, 122}
  <2>1. \E c \in {109, 110, 118} : reqNumRILJ[c] = id
    BY <1>1, <1>2
  <2>2. Translate(id) = CHOOSE c \in {109, 110, 118} : reqNumRILJ[c] = id
    BY <1>1, <2>1 DEF Translate
  <2>3. Translate(id) \in {109, 110, 118} /\ reqNumRILJ[Translate(id)] = id
    BY <2>1, <2>2
  <2> QED
    BY <1>1, <1>2, <2>3 DEF Meaning
<1>3. CASE id \notin {112, 113, 122}
  <2>1. Translate(id) = getCmdInfoByReqId(id)
    BY <1>1, <1>3 DEF Translate
  <2>2. id \in 1..108 \/ (id \notin s_commands /\ id \notin 1..108)
    BY <1>3 DEF ClientIds, NotSupported, Misread, s_commands
  <2> QED
    BY <1>3, <2>1, <2>2 DEF getCmdInfoByReqId, Meaning, s_commands, Unsupported
<1> QED
  BY <1>2, <1>3

(* What reaches the vendor is a command of the table.                      *)
LEMMA TranslateListed == \A id : Translate(id) # Unsupported => Translate(id) \in s_commands
<1> TAKE id
<1>1. CASE \E c \in DOMAIN reqNumRILJ : reqNumRILJ[c] = id
  <2>1. Translate(id) \in DOMAIN reqNumRILJ
    BY <1>1 DEF Translate
  <2> QED
    BY <2>1 DEF reqNumRILJ, s_commands
<1>2. CASE ~(\E c \in DOMAIN reqNumRILJ : reqNumRILJ[c] = id)
  BY <1>2 DEF Translate, getCmdInfoByReqId
<1> QED
  BY <1>1, <1>2

(* What libril gives the vendor and writes for it is what ril.h says.      *)
LEMMA WireKeepsContract == WireInv => ContractKept
<1> SUFFICES ASSUME WireInv PROVE ContractKept
  OBVIOUS
<1>1. sent.n \in Int /\ version \in Nat
  BY DEF WireInv, IsRequest
<1>2. ASSUME fate \in {"vendor", "done"}
      PROVE  /\ RequestOf(command) \in Requests /\ RequestOf(command)[1] = command
  <2>1. command \in s_commands
    BY <1>2, TranslateListed DEF WireInv, Looked
  <2>2. \E t \in Requests : t[1] = command
    BY <2>1, RequestListed
  <2> QED
    BY <2>2 DEF RequestOf
<1>3. ASSUME fate = "vendor", command # 47
      PROVE  Items(Program(command, sent.n, sent.form, version)) =
               Image(RequestOf(command)[2], sent.n, sent.form, version)
  <2> DEFINE type == RequestOf(command)[2]
  <2>1. HandlerOf(command) \in Reader(type)
    BY <1>2, <1>3, RequestsRead DEF ReadAs
  <2> HIDE DEF type
  <2>2. type = "IMS_SMS" => sent.form \in {"3GPP", "3GPP2"}
    <3> SUFFICES ASSUME type = "IMS_SMS", sent.form \notin {"3GPP", "3GPP2"} PROVE FALSE
      OBVIOUS
    <3>1. Program(command, sent.n, sent.form, version) = dispatchImsSms(sent.form, sent.n)
      BY <2>1 DEF Reader, Program
    <3>2. Passes(dispatchImsSms(sent.form, sent.n), sent.items)
      BY <1>3, <3>1 DEF WireInv
    <3> QED
      BY <3>2, OtherImsRejected
  <2>3. Items(Program(command, sent.n, sent.form, version)) = Image(type, sent.n, sent.form, version)
    BY <1>1, <2>1, <2>2, ReaderImage
  <2> QED
    BY <2>3 DEF type
<1>4. ASSUME fate = "done", reply # Invalid
      PROVE  reply = Image(RequestOf(command)[3], sent.n, sent.form, version)
  <2> DEFINE t == RequestOf(command)
             type == t[3]
  <2>1. t \in Requests /\ t[1] = command
    BY <1>2, <1>4
  <2>2. PICK ragged \in BOOLEAN : reply = Response(command, sent.n, ragged, sent.form, version)
    BY <1>4 DEF WireInv, Answered
  <2> HIDE DEF t
  <2>3. /\ type \in ResponseTypes
        /\ (type = "SignalStrength") <=> (command = 19)
        /\ reply = Writer(type, sent.n, ragged, sent.form, version)
    BY <2>1, <2>2, RequestsWritten DEF WrittenAs
  <2>4. command = 19 => sent.form \in {"short", "v5", "v6", "v7"}
    BY <1>4 DEF WireInv, Answered
  <2> HIDE DEF type
  <2>5. Writer(type, sent.n, ragged, sent.form, version)
          \in {Invalid, Image(type, sent.n, sent.form, version)}
    BY <1>1, <2>3, <2>4, WriterImage
  <2> QED
    BY <1>4, <2>3, <2>5 DEF type, t
<1>5. ASSUME fate = "event"
      PROVE  reply = Image(EventOf(sent.id)[2], sent.n, sent.form, version)
  <2>1. PICK e \in Events, ragged \in BOOLEAN :
          /\ sent.id = ToClient(e) /\ sent.n \in Counts /\ sent.form \in EventForms(e)
          /\ reply = UnsolResponse(e, sent.n, ragged, sent.form, version) /\ reply # Invalid
    BY <1>5 DEF WireInv, Happened
  <2> DEFINE t == EventOf(sent.id)
             type == t[2]
  <2>2. t \in Unsolicited /\ ToClient(t[1]) = ToClient(e)
    BY <2>1, EventListed DEF EventOf
  <2> HIDE DEF t
  <2>3. t[1] = e
    BY <2>2, EventsWritten, ToClientTells DEF EventsWrittenAs
  <2>4. /\ type \in ResponseTypes \cup EventTypes
        /\ (type = "SignalStrength") <=> (e = 1009)
        /\ reply = IF type \in ResponseTypes THEN Writer(type, sent.n, ragged, sent.form, version)
                   ELSE EventWriter(type, sent.n, ragged, sent.form)
    BY <2>1, <2>2, <2>3, EventsWritten DEF EventsWrittenAs
  <2>5. e = 1009 => sent.form \in {"short", "v5", "v6", "v7"}
    BY <2>1 DEF EventForms
  <2>6. sent.n >= 0
    <3>1. sent.n \in Counts /\ Counts \subseteq Nat
      BY <2>1, CodecAssumption
    <3>2. sent.n \in Nat
      BY <3>1
    <3> QED
      BY <3>2
  <2> HIDE DEF type
  <2>7. CASE type \in ResponseTypes
    <3>1. Writer(type, sent.n, ragged, sent.form, version)
            \in {Invalid, Image(type, sent.n, sent.form, version)}
      BY <1>1, <2>4, <2>5, <2>7, WriterImage
    <3> QED
      BY <2>1, <2>4, <2>7, <3>1 DEF type, t
  <2>8. CASE type \notin ResponseTypes
    <3>1. EventWriter(type, sent.n, ragged, sent.form)
            \in {Invalid, Image(type, sent.n, sent.form, version)}
      BY <1>1, <2>4, <2>6, <2>8, EventImage
    <3> QED
      BY <2>1, <2>4, <2>8, <3>1 DEF type, t
  <2> QED
    BY <2>7, <2>8
<1> QED
  BY <1>3, <1>4, <1>5 DEF ContractKept

(* The two halves of libril keep the vendor interface's contract: what it  *)
(* takes from a client's parcel and what it writes for an answer or event  *)
(* is what ril.h says, for every command, event, version, count and form   *)
(* (the dispatch and response functions of ril.cpp).                       *)
THEOREM ContractAlwaysKept == CodecSpec => []ContractKept
  BY WireAlways, WireKeepsContract, PTL

(* A card has no more applications than the client reads: ril.h allows     *)
(* RIL_CARD_MAX_APPS of them, and CARD_MAX_APPS of JSRQualcommRIL is the   *)
(* same number.                                                            *)
CardFits == command = 1 => sent.n <= CARD_MAX_APPS

(* And those of the client.                                               *)
LEMMA ClientTuples ==
    /\ <<I>> \o <<S, S>> = <<I, S, S>>
    /\ <<I, I, I, S, S, I, I>> \o <<I>> = <<I, I, I, S, S, I, I, I>>
    /\ <<I, I, I, I, I>> \o <<I>> = <<I, I, I, I, I, I>>
<1>1. <<I>> \o <<S, S>> = <<I, S, S>>
  <2> DEFINE p == <<I>>  q == <<S, S>>
           r == <<I, S, S>>
  <2>1. /\ p \in Seq({I, S}) /\ q \in Seq({I, S}) /\ r \in Seq({I, S})
        /\ Len(r) = Len(p) + Len(q)
    OBVIOUS
  <2>2. \A i \in 1..Len(p) : r[i] = p[i]
    OBVIOUS
  <2>3. \A i \in 1..Len(q) : r[Len(p) + i] = q[i]
    OBVIOUS
  <2> HIDE DEF p, q, r
  <2>4. p \o q = r
    BY <2>1, <2>2, <2>3, ConcatIs
  <2> QED
    BY <2>4 DEF p, q, r
<1>2. <<I, I, I, S, S, I, I>> \o <<I>> = <<I, I, I, S, S, I, I, I>>
  <2> DEFINE p == <<I, I, I, S, S, I, I>>  q == <<I>>
           r == <<I, I, I, S, S, I, I, I>>
  <2>1. /\ p \in Seq({I, S}) /\ q \in Seq({I, S}) /\ r \in Seq({I, S})
        /\ Len(r) = Len(p) + Len(q)
    OBVIOUS
  <2>2. \A i \in 1..Len(p) : r[i] = p[i]
    OBVIOUS
  <2>3. \A i \in 1..Len(q) : r[Len(p) + i] = q[i]
    OBVIOUS
  <2> HIDE DEF p, q, r
  <2>4. p \o q = r
    BY <2>1, <2>2, <2>3, ConcatIs
  <2> QED
    BY <2>4 DEF p, q, r
<1>3. <<I, I, I, I, I>> \o <<I>> = <<I, I, I, I, I, I>>
  <2> DEFINE p == <<I, I, I, I, I>>  q == <<I>>
           r == <<I, I, I, I, I, I>>
  <2>1. /\ p \in Seq({I, S}) /\ q \in Seq({I, S}) /\ r \in Seq({I, S})
        /\ Len(r) = Len(p) + Len(q)
    OBVIOUS
  <2>2. \A i \in 1..Len(p) : r[i] = p[i]
    OBVIOUS
  <2>3. \A i \in 1..Len(q) : r[Len(p) + i] = q[i]
    OBVIOUS
  <2> HIDE DEF p, q, r
  <2>4. p \o q = r
    BY <2>1, <2>2, <2>3, ConcatIs
  <2> QED
    BY <2>4 DEF p, q, r
<1> QED
  BY <1>1, <1>2, <1>3

(* The first record of a list of forwardings.                              *)
LEMMA FirstForward ==
    ASSUME NEW n \in Nat, n > 0
    PROVE  SubSeq(<<I>> \o Times(n, CallForwardInfo), 2, 7) = CallForwardInfo
<1> DEFINE r == CallForwardInfo
           t == Times(n, r)
<1>1. r \in Seq(Wire) /\ Len(r) = 6 /\ <<I>> \in Seq(Wire) /\ Len(<<I>>) = 1
  BY DEF CallForwardInfo, Wire
<1>2. t = [k \in 1..(n * 6) |-> r[((k - 1) % 6) + 1]]
  <2> HIDE DEF r
  <2> QED
    BY <1>1 DEF Times
<1>3. t \in Seq(Wire)
  <2> HIDE DEF r
  <2> QED
    BY <1>1, TimesWire
<1>4. Len(t) = n * 6 /\ n * 6 >= 6
  BY <1>2
<1>5. \A k \in 1..6 : t[k] = r[k]
  <2> TAKE k \in 1..6
  <2>1. k \in 1..(n * 6) /\ ((k - 1) % 6) + 1 = k
    BY <1>4
  <2> HIDE DEF r
  <2> QED
    BY <1>2, <2>1
<1> HIDE DEF r, t
<1>6. SubSeq(<<I>> \o t, 2, 7) = SubSeq(t, 2 - 1, 7 - 1)
  BY <1>1, <1>3, <1>4, SubSeqOfConcat2
<1>7. SubSeq(t, 1, 6) = r
  <2> DEFINE u == SubSeq(t, 1, 6)
  <2>1. \A i \in 1..6 : t[i] \in Wire
    BY <1>3, <1>4, ElementOfSeq
  <2>2. u \in Seq(Wire) /\ Len(u) = 6 /\ \A i \in 1..6 : u[i] = t[1 + i - 1]
    BY <2>1, SubSeqProperties
  <2>3. \A i \in 1..6 : u[i] = r[i]
    <3> TAKE i \in 1..6
    <3>1. 1 + i - 1 = i
      OBVIOUS
    <3> QED
      BY <1>5, <2>2, <3>1
  <2> HIDE DEF u
  <2>4. Len(u) = Len(r) /\ \A i \in 1..Len(u) : u[i] = r[i]
    BY <1>1, <2>2, <2>3
  <2>5. u = r
    BY <1>1, <2>2, <2>4, SeqEqual
  <2> QED
    BY <2>5 DEF u
<1>8. 2 - 1 = 1 /\ 7 - 1 = 6
  OBVIOUS
<1>9. SubSeq(<<I>> \o t, 2, 7) = r
  BY <1>6, <1>7, <1>8, Zenon
<1> QED
  BY <1>9 DEF r, t

(* The wire form of a list of strings (ril.cpp, dispatchStrings).          *)
LEMMA StringsItems ==
    \A m \in Nat : Items(dispatchStrings(m)) = List(m, <<S>>)
<1> TAKE m \in Nat
<1>1. m \in Int
  OBVIOUS
<1> QED
  BY <1>1, ListItems

(* What the client reads is what libril writes, and the other way around.  *)
LEMMA WireIsAgreed == WireInv => (CardFits => WireAgrees)
<1> SUFFICES ASSUME WireInv, CardFits PROVE WireAgrees
  OBVIOUS
<1>1. sent.n \in Int /\ version \in Nat
  BY DEF WireInv, IsRequest
<1>2. fate \in {"unsupported", "invalid", "vendor", "done"} /\ sent.id \notin Misread =>
        command = Meaning(sent.id)
  BY TranslateIs DEF WireInv, Looked
<1>3. /\ Program(11, 1, "plain", version) = dispatchStrings(1)
      /\ Program(47, 2, "plain", version) = dispatchStrings(2)
      /\ Program(28, 0, "plain", version) = dispatchSIM_IO
      /\ Program(34, 0, "plain", version) = dispatchCallForward
      /\ Program(90, sent.n, "plain", version) = dispatchGsmBrSmsCnf(sent.n)
      /\ Program(93, sent.n, "plain", version) = dispatchCdmaBrSmsCnf(sent.n)
  BY ListedAt DEF Program
<1>4. getIMSI = Items(Program(11, 1, "plain", version))
  <2>1. List(1, <<S>>) = <<I, S>>
    <3>1. Times(1, <<S>>) = <<S>>
      BY DEF Times
    <3> QED
      BY <3>1, EventTuples DEF List
  <2>2. Items(dispatchStrings(1)) = List(1, <<S>>)
    BY StringsItems
  <2> QED
    BY <1>3, <2>1, <2>2 DEF getIMSI
<1>5. setNetworkSelectionModeManual = Items(Program(47, 2, "plain", version))
  <2>1. List(2, <<S>>) = <<I, S, S>>
    <3>1. Times(2, <<S>>) = <<S, S>>
      BY DEF Times
    <3> QED
      BY <3>1, ClientTuples DEF List
  <2>2. Items(dispatchStrings(2)) = List(2, <<S>>)
    BY StringsItems
  <2> QED
    BY <1>3, <2>1, <2>2 DEF setNetworkSelectionModeManual
<1>6. iccIO = Items(Program(28, 0, "plain", version))
  BY <1>3, HeadItems DEF iccIO, dispatchSIM_IO
<1>7. ASSUME fate = "done" PROVE Answered
  BY <1>7 DEF WireInv
<1>8. ASSUME fate = "done", command = 1, reply # Invalid
      PROVE  reply = responseIccCardStatus(sent.n)
  <2>1. PICK ragged \in BOOLEAN : reply = Response(1, sent.n, ragged, sent.form, version)
    BY <1>7, <1>8 DEF Answered
  <2>2. reply = <<I, I, I, I, I>> \o List(sent.n, AppStatus)
    BY <1>8, <2>1 DEF Response, responseSimStatus, Whole, sendSimStatusAppInfo
  <2>3. AtMost(sent.n, CARD_MAX_APPS) = sent.n
    BY <1>1, <1>8, CodecAssumption DEF CardFits, AtMost
  <2>4. <<I, I, I, S, S, I, I>> \o pinPukCount \o <<I>> \o pinPukCount = AppStatus
    <3>1. pinPukCount = <<>>
      BY DEF pinPukCount, oldRilFeatures
    <3>2. <<I, I, I, S, S, I, I>> \in Seq(Wire) /\ AppStatus \in Seq(Wire)
      BY DEF Wire, AppStatus
    <3>3. \A p \in Seq(Wire) : p \o <<>> = p
      BY ConcatEmptySeq
    <3>4. <<I, I, I, S, S, I, I>> \o <<I>> = AppStatus
      BY ClientTuples DEF AppStatus
    <3> QED
      BY <3>1, <3>2, <3>3, <3>4, Zenon
  <2>5. <<I, I, I, I, I>> \o List(sent.n, AppStatus) = <<I, I, I, I, I, I>> \o Times(sent.n, AppStatus)
    <3> DEFINE p == <<I, I, I, I, I>>  q == <<I>>  t == Times(sent.n, AppStatus)
    <3>1. p \in Seq(Wire) /\ q \in Seq(Wire)
      BY DEF Wire
    <3>2. t \in Seq(Wire)
      <4>1. AppStatus \in Seq(Wire) /\ Len(AppStatus) = 8
        BY DEF Wire, AppStatus
      <4> QED
        BY <1>1, <4>1, TimesWire
    <3>3. p \o q = <<I, I, I, I, I, I>>
      BY ClientTuples
    <3> HIDE DEF p, q, t
    <3>4. (p \o q) \o t = p \o (q \o t)
      BY <3>1, <3>2, ConcatAssociative
    <3> QED
      BY <3>3, <3>4 DEF List, p, q, t
  <2> QED
    BY <2>2, <2>3, <2>4, <2>5 DEF responseIccCardStatus
<1>9. ASSUME fate = "done", command \in {89, 92}
      PROVE  reply = Items(Program(command + 1, sent.n, "plain", version))
  <2>1. PICK ragged \in BOOLEAN : reply = Response(command, sent.n, ragged, sent.form, version)
    BY <1>7, <1>9 DEF Answered
  <2>2. /\ Items(dispatchGsmBrSmsCnf(sent.n)) = List(sent.n, <<I, I, I, I, I>>)
        /\ Items(dispatchCdmaBrSmsCnf(sent.n)) = List(sent.n, <<I, I, I>>)
    BY <1>1, ListItems
  <2>3. CASE command = 89
    <3>1. reply = List(sent.n, <<I, I, I, I, I>>)
      BY <2>1, <2>3 DEF Response, responseGsmBrSmsCnf
    <3> QED
      BY <1>3, <2>2, <2>3, <3>1
  <2>4. CASE command = 92
    <3>1. reply = List(sent.n, <<I, I, I>>)
      BY <2>1, <2>4 DEF Response, responseCdmaBrSmsCnf
    <3> QED
      BY <1>3, <2>2, <2>4, <3>1
  <2> QED
    BY <1>9, <2>3, <2>4
<1>10. ASSUME fate = "done", command = 33, reply # Invalid, sent.n > 0
       PROVE  SubSeq(reply, 2, 7) = Items(Program(34, 0, "plain", version))
  <2>1. PICK ragged \in BOOLEAN : reply = Response(33, sent.n, ragged, sent.form, version)
    BY <1>7, <1>10 DEF Answered
  <2>2. reply = <<I>> \o Times(sent.n, CallForwardInfo)
    BY <1>10, <2>1 DEF Response, responseCallForwards, Whole, List
  <2>3. SubSeq(<<I>> \o Times(sent.n, CallForwardInfo), 2, 7) = CallForwardInfo
    <3>1. sent.n \in Nat /\ sent.n > 0
      BY <1>1, <1>10
    <3> QED
      BY <3>1, FirstForward, Zenon
  <2> QED
    BY <1>3, <2>2, <2>3, HeadItems DEF dispatchCallForward, CallForwardInfo
<1>11. ASSUME fate = "event", sent.id = 1020 PROVE reply = Items(constructCdmaSms(sent.n))
  <2>1. PICK e \in Events, ragged \in BOOLEAN :
          /\ sent.id = ToClient(e)
          /\ reply = UnsolResponse(e, sent.n, ragged, sent.form, version) /\ reply # Invalid
    BY <1>11 DEF WireInv, Happened
  <2>2. e = 1020
    BY <1>11, <2>1 DEF ToClient
  <2>3. reply = responseCdmaSms(sent.n)
    BY <2>1, <2>2 DEF UnsolResponse, Whole
  <2> QED
    BY <1>1, <2>3, MessageItems
<1> QED
  BY <1>2, <1>4, <1>5, <1>6, <1>8, <1>9, <1>10, <1>11 DEF WireAgrees

(* The client and libril agree on the wire, in both directions, as long as *)
(* the card has no more applications than ril.h allows (ril.cpp against    *)
(* JSRQualcommRIL.java and rilj.h).                                        *)
THEOREM WireAlwaysAgrees == CodecSpec => [](CardFits => WireAgrees)
  BY WireAlways, WireIsAgreed, PTL

==============================================================================
