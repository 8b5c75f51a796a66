--------------------------- MODULE MCLocSyncCall ----------------------------
(* Small instances of LocSyncCall for TLC.                                 *)
EXTENDS LocSyncCall

CONSTANTS c1, c2, c3, x, y

SameType == [c \in Callers |-> {x}]
(* One type is used by c1 only, the other by everybody else.               *)
OwnType  == [c \in Callers |-> IF c = c1 THEN {x} ELSE {y}]
=============================================================================
