------------------------------ MODULE MCAccounts ------------------------------
(***************************************************************************)
(* Accounts for TLC.                                                       *)
(***************************************************************************)
EXTENDS Accounts, TLC

CONSTANTS c1, c2, m1, m2, u1, u2, e1, e2, w1, w2

TwoCompanies == {c1, c2}
TwoEmails    == {m1, m2}
TwoUsers     == {u1, u2}
TwoEmployees == {e1, e2}
TwoWorkers   == {w1, w2}

\* Every kind of thing is interchangeable.
Symmetry ==
  UNION {Permutations(S) : S \in {TwoCompanies, TwoEmails, TwoUsers, TwoEmployees, TwoWorkers}}
=============================================================================
