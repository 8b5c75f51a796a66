----------------------------- MODULE MCRilEvent -----------------------------
(* A small instance of RilEvent for TLC: the wake-up event and a one-shot  *)
(* event with a higher descriptor, two timers, two threads.                *)
EXTENDS RilEvent, TLC

CONSTANTS wk, b, tm1, tm2, x, y

MCEvents == {wk, b}
MCTimers == {tm1, tm2}
MCThreads == {x, y}
MCFdOf == (wk :> 1) @@ (b :> 2)
MCPersistent == {wk}
=============================================================================
