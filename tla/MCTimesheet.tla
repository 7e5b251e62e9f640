----------------------------- MODULE MCTimesheet -----------------------------
(***************************************************************************)
(* Timesheet for TLC: a period of one working day and one day off, two     *)
(* people who submit and review.                                           *)
(***************************************************************************)
EXTENDS Timesheet

CONSTANTS u1, u2, w1

TwoDays   == 1..2
SecondDay == {2}
TwoUsers  == {u1, u2}
OneWorker == {w1}

SomeMarks   == {"PRESENT", "UNPAID_LEAVE", "WEEKLY_OFF"}
PaidAndHalf == {"PAID_LEAVE", "HALF_DAY"}
=============================================================================
