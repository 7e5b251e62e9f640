------------------------------ MODULE Statutory ------------------------------
(***************************************************************************)
(* Provident fund, state insurance and professional tax:                   *)
(* app/services/statutory.py.  Money is counted in paise, rates of the     *)
(* company's settings in hundredths of a percent.                          *)
(***************************************************************************)
EXTENDS Integers, Sequences

CONSTANTS
  PTSlabs,   \* the bands of each state with a schedule, from the lowest
  Above      \* the upper end of a last band, which has none

\* Every schedule reaches any gross: its last band has no upper end.
ASSUME PTSlabsAssumption ==
  \A state \in DOMAIN PTSlabs :
    /\ PTSlabs[state] \in Seq([upto: Nat \cup {Above}, amount: Nat])
    /\ \E i \in DOMAIN PTSlabs[state] : PTSlabs[state][i].upto = Above

\* n / d without its fraction; to the nearest integer, a half going away from zero; and to
\* the next integer.
RoundDown(n, d) == IF n >= 0 THEN n \div d ELSE -((-n) \div d)
RoundHalfUp(n, d) == IF n >= 0 THEN RoundDown(n + d \div 2, d) ELSE RoundDown(n - d \div 2, d)
RoundUp(n, d) == (n + d - 1) \div d

Rupee == 100
Rate  == 10000

Least(a, b)    == IF a <= b THEN a ELSE b
Greatest(a, b) == IF a >= b THEN a ELSE b

\* A share of an amount, in whole rupees.
Share(amount, rate)   == Rupee * RoundHalfUp(amount * rate, Rate * Rupee)
ShareUp(amount, rate) == Rupee * RoundUp(amount * rate, Rate * Rupee)

\* Mutant of EPSWage: the pension share is taken of the whole wage.
EPSWageUncapped(wage, cfg) == wage

\* The wage that the employer's pension share is taken of.
EPSWage(wage, cfg) == Least(wage, cfg.epsCeiling)

\* compute_pf: the employee's share, and the employer's, which splits into pension
\* and fund.
ComputePF(wage, cap, cfg) ==
  LET contributory == IF cap THEN Least(wage, cfg.pfCeiling) ELSE wage
      eps == Share(EPSWage(wage, cfg), cfg.epsRate)
  IN  [employee |-> Share(contributory, cfg.pfEmployee),
       eps |-> eps,
       epf |-> Share(contributory, cfg.pfEmployer) - eps]

\* compute_esi, of a gross within the limit.
Covered(gross, cfg) == gross <= cfg.esiLimit

ComputeESI(gross, cfg) == [employee |-> ShareUp(gross, cfg.esiEmployee),
                           employer |-> ShareUp(gross, cfg.esiEmployer)]

Within(amount, band) == band.upto = Above \/ amount <= band.upto

\* compute_pt: the amount of the first band that reaches the gross.
ComputePT(state, gross) ==
  IF state \notin DOMAIN PTSlabs THEN 0
  ELSE LET bands == PTSlabs[state]
           i == CHOOSE i \in DOMAIN bands :
                  /\ Within(gross, bands[i])
                  /\ \A j \in 1..(i - 1) : ~Within(gross, bands[j])
       IN  Rupee * RoundHalfUp(bands[i].amount, Rupee)
=============================================================================
