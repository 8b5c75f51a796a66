-------------------------- MODULE RilTimerService ---------------------------
(***************************************************************************)
(* What libril promises about timed callbacks (RIL_requestTimedCallback in *)
(* ril.h, ril_timer_add): an armed timer fires once, never before its time *)
(* is over, and timers fire in the order of their deadlines.  The comment  *)
(* in processTimeouts has it that now >= ev->timeout is enough; the loop   *)
(* waits for now > ev->timeout, which implements that.                     *)
(***************************************************************************)
EXTENDS Integers

CONSTANTS Timers, Delays, MaxTime

VARIABLES now, armed, due
tvars == <<now, armed, due>>

TInit == now = 0 /\ armed = {} /\ due = [t \in Timers |-> 0]

Arm(t, d) ==
    /\ t \notin armed /\ now + d < MaxTime
    /\ armed' = armed \cup {t}
    /\ due' = [due EXCEPT ![t] = now + d]
    /\ UNCHANGED now

Fire(t) ==
    /\ t \in armed /\ now >= due[t]
    /\ \A u \in armed : due[t] <= due[u]
    /\ armed' = armed \ {t}
    /\ UNCHANGED <<now, due>>

Elapse == now < MaxTime /\ now' = now + 1 /\ UNCHANGED <<armed, due>>

TNext == Elapse \/ \E t \in Timers : Fire(t) \/ \E d \in Delays : Arm(t, d)

TSpec == TInit /\ [][TNext]_tvars
=============================================================================
