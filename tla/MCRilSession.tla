---------------------------- MODULE MCRilSession ----------------------------
(* Small instances of RilSession for TLC.                                  *)
EXTENDS RilSession, TLC

CONSTANTS a1, a2, v1

MCEvents == {"listen", "debug", "cmd0", "cmd1"}
Phones == {<<0, "phone">>, <<1, "phone">>}
Phone0 == {<<0, "phone">>}
AnyCaller == {<<0, "phone">>, <<0, "stranger">>, <<0, "silent">>}
PhonesAndStrangers == Phones \cup {<<0, "stranger">>}
Everybody == PhonesAndStrangers \cup {<<0, "silent">>, <<1, "silent">>}
=============================================================================
