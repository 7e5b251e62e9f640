------------------------------ MODULE TaxEngine ------------------------------
(***************************************************************************)
(* The estimate of income tax: app/services/tax_engine.py.  Slab rates are *)
(* whole percents, so that a tax is counted in hundredths of a paisa.      *)
(***************************************************************************)
EXTENDS Statutory, SequencesExt

CONSTANTS
  Slabs,     \* the bands of each regime, from the lowest
  Caps       \* what the old regime deducts at most of 80C, 80D and a home loan

Regimes == {"NEW", "OLD"}

\* The bands of a regime rise up to the last, which has no upper end.
ASSUME SlabsAssumption ==
  \A regime \in Regimes :
    LET bands == Slabs[regime]
        last == Len(bands)
    IN  /\ bands \in Seq([upto: Nat \cup {Above}, rate: Nat])
        /\ last > 0
        /\ bands[last].upto = Above
        /\ \A i \in 1..(last - 1) : bands[i].upto \in Nat \ {Above}
        /\ \A i \in 2..(last - 1) : bands[i - 1].upto <= bands[i].upto

ASSUME CapsAssumption == Caps \in [c80: Nat, d80: Nat, home: Nat]

\* Mutant of ChargeBand: the band in which the income ends is charged from zero.
ChargeBandFromZero(acc, band, taxable) ==
  IF acc.done THEN acc
  ELSE IF Within(taxable, band)
       THEN [acc EXCEPT !.tax = @ + taxable * band.rate, !.done = TRUE]
       ELSE [tax |-> acc.tax + (band.upto - acc.lower) * band.rate,
             lower |-> band.upto, done |-> FALSE]

\* One turn of _slab_tax: it is done after the band in which the income ends.
ChargeBand(acc, band, taxable) ==
  IF acc.done THEN acc
  ELSE IF Within(taxable, band)
       THEN [acc EXCEPT !.tax = @ + (taxable - acc.lower) * band.rate, !.done = TRUE]
       ELSE [tax |-> acc.tax + (band.upto - acc.lower) * band.rate,
             lower |-> band.upto, done |-> FALSE]

SlabTax(taxable, bands) ==
  FoldLeft(LAMBDA acc, band : ChargeBand(acc, band, taxable),
           [tax |-> 0, lower |-> 0, done |-> FALSE], bands).tax

\* _old_regime_deductions
Declared(p) ==
  IF p.regime # "OLD" THEN 0
  ELSE Least(p.c80, Caps.c80) + Least(p.d80, Caps.d80) + Least(p.home, Caps.home) + p.other

Taxable(annualGross, p, cfg) ==
  Greatest(0, annualGross + p.prevIncome - cfg.standard[p.regime] - Declared(p))

\* The 87A rebate waives the whole tax of an income up to the limit.
TaxAfterRebate(taxable, p, cfg) ==
  IF taxable <= cfg.rebate[p.regime] THEN 0 ELSE SlabTax(taxable, Slabs[p.regime])

(***************************************************************************)
(* compute_tds: a cess of 4%, less what an earlier employer withheld, over *)
(* twelve months.  104 / (100 * 100) of a tax is 26 / 2500 paise.          *)
(***************************************************************************)
MonthlyTds(annualGross, p, cfg) ==
  LET tax == TaxAfterRebate(Taxable(annualGross, p, cfg), p, cfg)
  IN  RoundHalfUp(Greatest(0, tax * 26 - p.prevTds * 2500), 12 * 2500)
=============================================================================
