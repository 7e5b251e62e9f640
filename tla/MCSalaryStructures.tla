-------------------------- MODULE MCSalaryStructures --------------------------
(***************************************************************************)
(* SalaryStructures for TLC.                                               *)
(***************************************************************************)
EXTENDS SalaryStructures, TLC

CONSTANTS e1, e2, s1, s2, s3, w1, w2

TwoEmployees == {e1, e2}
SomeRows     == {s1, s2, s3}
TwoWorkers   == {w1, w2}

\* Both employees, in either order, and one employee listed twice.
SomeBatches  == {<<e1, e2>>, <<e2, e1>>, <<e1, e1>>, <<e2, e2>>}

\* Employees, rows and handlers are interchangeable (so is the set of batches).
Symmetry == Permutations(TwoEmployees) \cup Permutations(SomeRows) \cup Permutations(TwoWorkers)
=============================================================================
