----------------------------- MODULE MCRilUnsol -----------------------------
(* Small instances of RilUnsol for TLC.                                    *)
EXTENDS RilUnsol

CONSTANTS i1, i2, i3, v1, v2
=============================================================================
