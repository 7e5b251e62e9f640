---------------------------- MODULE MCLeaveLedger ----------------------------
(***************************************************************************)
(* LeaveLedger for TLC: a day's leave, two days that include it, a half    *)
(* day apart from both.                                                    *)
(***************************************************************************)
EXTENDS LeaveLedger

CONSTANTS u1, u2, w1

SomeRequests == 1..3
SomeSpans    == <<{1}, {1, 2}, {3}>>
SomeDays     == <<2, 4, 1>>
SomeCredits  == {2, 5}
TwoUsers     == {u1, u2}
OneWorker    == {w1}
=============================================================================
