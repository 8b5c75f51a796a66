------------------------------ MODULE MCDevice ------------------------------
(* Six independent parts of the device's other libraries, one behaviour    *)
(* each: the part is chosen initially and only its steps happen.           *)
EXTENDS RilContract, JsrRil, AudioVoip, AudioFilter, AudioRoute, AudioPolicy

VARIABLE which

vars == <<which, codecVars, jsrVars, voipVars, filterVars, routeVars, policyVars>>

Init ==
    /\ which \in {"codec", "jsr", "voip", "filter", "route", "policy"}
    /\ CodecInit /\ JsrInit /\ VoipInit /\ FilterInit /\ RouteInit /\ PolicyInit
    /\ which # "codec" => \A v \in Versions : version <= v
    /\ which # "policy" => ~pol.canBeMuted

CodecStep ==
    /\ which = "codec" /\ CodecNext
    /\ UNCHANGED <<which, jsrVars, voipVars, filterVars, routeVars, policyVars>>

JsrStep ==
    /\ which = "jsr" /\ JsrNext
    /\ UNCHANGED <<which, codecVars, voipVars, filterVars, routeVars, policyVars>>

VoipStep ==
    /\ which = "voip" /\ VoipNext
    /\ UNCHANGED <<which, codecVars, jsrVars, filterVars, routeVars, policyVars>>

FilterStep ==
    /\ which = "filter" /\ FilterNext
    /\ UNCHANGED <<which, codecVars, jsrVars, voipVars, routeVars, policyVars>>

RouteStep ==
    /\ which = "route" /\ RouteNext
    /\ UNCHANGED <<which, codecVars, jsrVars, voipVars, filterVars, policyVars>>

PolicyStep ==
    /\ which = "policy" /\ PolicyNext
    /\ UNCHANGED <<which, codecVars, jsrVars, voipVars, filterVars, routeVars>>

Next == CodecStep \/ JsrStep \/ VoipStep \/ FilterStep \/ RouteStep \/ PolicyStep

Spec == Init /\ [][Next]_vars /\ JsrFairness
=============================================================================
