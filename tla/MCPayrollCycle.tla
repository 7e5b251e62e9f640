--------------------------- MODULE MCPayrollCycle ---------------------------
(***************************************************************************)
(* PayrollCycle for TLC: one or two employees, one or two overlapping      *)
(* handlers.                                                               *)
(***************************************************************************)
EXTENDS PayrollCycle

CONSTANTS e1, e2, w1, w2

OneEmployee  == {e1}
TwoEmployees == {e1, e2}
Nobody       == {}
OneWorker    == {w1}
TwoWorkers   == {w1, w2}

OneScale == {1}
AllEdits == (PayScales \cup {NoPay}) \X (PayScales \cup {NoPay})
NoEdits  == {}
NoOrder  == {}

\* Every adjustment; and one of one payslip, so that two runs may differ.
BothKinds    == Employees \X {"earning", "deduction"}
OneDeduction == {<<e1, "deduction">>}

AllOps == Ops

KeyOrder12 == {<<e1, e2>>}
=============================================================================
