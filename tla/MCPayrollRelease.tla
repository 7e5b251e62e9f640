--------------------------- MODULE MCPayrollRelease ---------------------------
(***************************************************************************)
(* PayrollRelease for TLC: handlers of the cycle that do not overlap, and  *)
(* payslips released in between.                                           *)
(***************************************************************************)
EXTENDS PayrollRelease

CONSTANTS e1, e2, w1

TwoEmployees == {e1, e2}
OneWorker    == {w1}

Deductions == Employees \X {"deduction"}
OneScale == {1}

AllOps   == Ops
AllEdits == (PayScales \cup {NoPay}) \X (PayScales \cup {NoPay})

KeyOrder12 == {<<e1, e2>>}
=============================================================================
