------------------------------- MODULE MCLoc -------------------------------
(* Six independent parts of the location stack, one behaviour each: the    *)
(* part is chosen initially and only its steps happen.                     *)
EXTENDS LocNi, LocGlue, LocXtra, LocHal, MsgQueue, LocXdr

VARIABLE which

vars == <<which, niVars, glueVars, xtraVars, halVars, queueVars, xdrVars>>

Init ==
    /\ which \in {"ni", "glue", "xtra", "hal", "queue", "xdr"}
    /\ NiInit /\ GlueInit /\ XtraInit /\ HalInit /\ QueueInit /\ XdrInit
    /\ which # "xtra" => \A n \in XtraLengths : length <= n

Next ==
    /\ UNCHANGED which
    /\ \/ which = "ni" /\ NiNext /\ UNCHANGED <<glueVars, xtraVars, halVars, queueVars, xdrVars>>
       \/ which = "glue" /\ GlueNext /\ UNCHANGED <<niVars, xtraVars, halVars, queueVars, xdrVars>>
       \/ which = "xtra" /\ XtraNext /\ UNCHANGED <<niVars, glueVars, halVars, queueVars, xdrVars>>
       \/ which = "hal" /\ HalNext /\ UNCHANGED <<niVars, glueVars, xtraVars, queueVars, xdrVars>>
       \/ which = "queue" /\ QueueNext /\ UNCHANGED <<niVars, glueVars, xtraVars, halVars, xdrVars>>
       \/ which = "xdr" /\ XdrNext /\ UNCHANGED <<niVars, glueVars, xtraVars, halVars, queueVars>>

Spec == Init /\ [][Next]_vars /\ NiFairness /\ QueueFairness
=============================================================================
