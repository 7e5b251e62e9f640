----------------------------- MODULE PayslipCalc -----------------------------
(***************************************************************************)
(* The calculation of one payslip: compute_payslip and                     *)
(* compute_hourly_payslip of app/services/payroll_service.py.              *)
(*                                                                         *)
(* Money is counted in paise, percentages are whole, lost days are halves. *)
(* The factor paid_days / working_days is a 28-digit decimal, so that an   *)
(* exact half of a paisa may be lost when the factor does not terminate:   *)
(* Prorate lets it be lost or not.                                         *)
(***************************************************************************)
EXTENDS TaxEngine

CONSTANTS
  Drafts,    \* the structures, attendance, settings and adjustments considered
  Omitted,   \* percent_of is not given
  Running,   \* the gross so far
  NoSlip,    \* nothing has been computed yet
  Refused    \* ValueError: a run skips the employee

VARIABLES draft, slip
vars == <<draft, slip>>

\* What the columns and the request schemas admit: rates, limits, days and hours are not
\* negative (ge=0), adjustments neither, a period has a working day.  The amounts and the
\* percentages of a MoneyLine, and the cost to company, may be any number.
Lines == Seq([code: STRING, type: {"fixed", "percent", "balance"}, amount: Int,
              percent: Int, of: {Omitted} \cup STRING])

Configs ==
  [pfEmployee: Nat, pfEmployer: Nat, pfCeiling: Nat, epsRate: Nat, epsCeiling: Nat,
   esiLimit: Nat, esiEmployee: Nat, esiEmployer: Nat,
   rebate: [Regimes -> Nat], standard: [Regimes -> Nat]]

Profiles == [regime: Regimes, c80: Nat, d80: Nat, home: Nat, other: Nat,
             prevIncome: Nat, prevTds: Nat]

Draft ==
  [freq: {"MONTHLY", "WEEKLY", "HOURLY"}, ctc: Int, components: Lines, deductions: Lines,
   lop: Nat, days: Nat \ {0}, hours: Nat, rate: Nat, pf: BOOLEAN, cap: BOOLEAN,
   pfCodes: Seq(STRING), esi: BOOLEAN, pt: BOOLEAN, state: {Omitted} \cup STRING,
   tds: BOOLEAN, cfg: Configs, profile: Profiles,
   adjustments: Seq([kind: {"EARNING", "DEDUCTION"}, code: STRING, amount: Nat])]

ASSUME DraftsAssumption == Drafts \subseteq Draft

\* The codes that the calculation itself writes are codes like any other.
ASSUME CodesAssumption ==
  {"CTC", "WAGES", "BASIC", "PF", "ESI", "PT", "TDS", "PF_ER", "EPS_ER", "ESI_ER"}
    \subseteq STRING

Sum(lines) == FoldLeft(LAMBDA total, l : total + l.amount, 0, lines)
Entry(code, amount) == [code |-> code, amount |-> amount]

\* The lines that are in a set, in their order.
Kept(lines, S) == FoldLeft(LAMBDA kept, l : IF l \in S THEN Append(kept, l) ELSE kept, <<>>, lines)

\* The amounts by code, with one more: of two with one code, the last counts.
With(ref, code, amount) ==
  [c \in DOMAIN ref \cup {code} |-> IF c = code THEN amount ELSE ref[c]]

\* The cost to company of one period.
PeriodCTC(d) == RoundHalfUp(d.ctc, IF d.freq = "WEEKLY" THEN 52 ELSE 12)

\* _resolve_amount.  A percentage of a code that is not resolved yet is nothing.
Resolve(line, ref, baseWhenOmitted) ==
  CASE line.type = "fixed" -> line.amount
    [] line.type = "percent" ->
         LET base == IF line.of = Omitted THEN baseWhenOmitted
                     ELSE IF line.of \in DOMAIN ref THEN ref[line.of] ELSE 0
         IN  RoundHalfUp(line.percent * base, 100)
    [] OTHER -> 0

\* The lines one after the other, each of which the next ones may refer to.  A percentage
\* of nothing is of the gross: Running while the earnings still add up to it.
ResolveAll(lines, ref, gross) ==
  FoldLeft(LAMBDA acc, l :
             LET base == IF gross = Running THEN Sum(acc.lines) ELSE gross
                 amount == Resolve(l, acc.ref, base)
             IN  [ref |-> With(acc.ref, l.code, amount),
                  lines |-> Append(acc.lines, Entry(l.code, amount))],
           [ref |-> ref, lines |-> <<>>], lines).lines

Balances(d) == Kept(d.components, {l \in Range(d.components) : l.type = "balance"})
Others(d) == Kept(d.components, {l \in Range(d.components) : l.type # "balance"})

\* The cost of the period has a code of its own, which is no earning.
CTCOnly(d) == [code \in {"CTC"} |-> PeriodCTC(d)]

\* Mutant of Remainder: a balance line may be negative.
RemainderUnclamped(d, others) == PeriodCTC(d) - Sum(others)

\* What the other lines leave of the cost to company, never less than nothing.
Remainder(d, others) == Greatest(0, PeriodCTC(d) - Sum(others))

\* Mutant of BalanceShare: every balance line takes the whole remainder.
BalanceShareWhole(remainder, n) == remainder

\* It is shared equally.
BalanceShare(remainder, n) == RoundHalfUp(remainder, n)

\* Pass 1: the earnings of a full period.  Balance lines come last, wherever they stand.
RawEarnings(d) ==
  LET balances == Balances(d)
      others == ResolveAll(Others(d), CTCOnly(d), Running)
  IN  others \o [i \in DOMAIN balances |->
                   Entry(balances[i].code, BalanceShare(Remainder(d, others), Len(balances)))]

\* Mutant of Prorate: the pro-ration counts the days lost instead of the days paid.
ProrateLost(amount, d, lost) ==
  IF d.lop = 0 THEN amount ELSE RoundHalfUp(amount * d.lop, 2 * d.days)

\* The days paid are a part of the period that a decimal holds exactly.
Terminates(d) == (1000000 * (2 * d.days - d.lop)) % (2 * d.days) = 0

\* An earning for the days paid.
Prorate(amount, d, lost) ==
  LET n == amount * (2 * d.days - d.lop)
      tie == (2 * n) % (4 * d.days) = 2 * d.days
  IN  IF d.lop = 0 THEN amount
      ELSE IF lost /\ tie /\ ~Terminates(d) THEN RoundDown(n, 2 * d.days)
      ELSE RoundHalfUp(n, 2 * d.days)

\* Pass 2: every earning is prorated by itself; lost holds those that lose a half.
Earnings(d, lost) ==
  LET raw == RawEarnings(d)
  IN  [i \in DOMAIN raw |-> Entry(raw[i].code, Prorate(raw[i].amount, d, i \in lost))]

\* The amounts of earnings by their codes, upon what else can be referred to.
ByCode(lines, ref) == FoldLeft(LAMBDA acc, l : With(acc, l.code, l.amount), ref, lines)

\* The structure's own deductions, of the prorated earnings.
OwnDeductions(d, earnings) ==
  ResolveAll(d.deductions, ByCode(earnings, CTCOnly(d)), Sum(earnings))

-----------------------------------------------------------------------------
\* The wage PF is computed on: the earnings of the listed codes (BASIC when none is
\* listed), as often as they are listed or, without them, the gross.
PFWage(d, earnings) ==
  LET codes == IF d.pfCodes = <<>> THEN <<"BASIC">> ELSE d.pfCodes
      ref == ByCode(earnings, <<>>)
      named == [i \in DOMAIN codes |->
                  Entry(codes[i], IF codes[i] \in DOMAIN ref THEN ref[codes[i]] ELSE 0)]
  IN  IF Sum(named) > 0 THEN Sum(named) ELSE Sum(earnings)

If(condition, lines) == IF condition THEN lines ELSE <<>>

\* What the estimate of tax is based on: twelve times the full period.
AnnualGross(d) == 12 * Sum(RawEarnings(d))

\* PF, ESI, PT and TDS, each if the structure enables it.
StatutoryDeductions(d, earnings) ==
  LET gross == Sum(earnings)
      pt == ComputePT(d.state, gross)
      tds == MonthlyTds(AnnualGross(d), d.profile, d.cfg)
  IN  If(d.pf, <<Entry("PF", ComputePF(PFWage(d, earnings), d.cap, d.cfg).employee)>>)
      \o If(d.esi /\ Covered(gross, d.cfg), <<Entry("ESI", ComputeESI(gross, d.cfg).employee)>>)
      \o If(d.pt /\ pt > 0, <<Entry("PT", pt)>>)
      \o If(d.tds /\ tds > 0, <<Entry("TDS", tds)>>)

\* What the employer pays on top.
EmployerContributions(d, earnings) ==
  LET gross == Sum(earnings)
      pf == ComputePF(PFWage(d, earnings), d.cap, d.cfg)
  IN  If(d.pf, <<Entry("PF_ER", pf.epf), Entry("EPS_ER", pf.eps)>>)
      \o If(d.esi /\ Covered(gross, d.cfg),
            <<Entry("ESI_ER", ComputeESI(gross, d.cfg).employer)>>)

Adjustments(d, kind) == Kept(d.adjustments, {a \in Range(d.adjustments) : a.kind = kind})
AsEntries(adjustments) ==
  [i \in DOMAIN adjustments |-> Entry(adjustments[i].code, adjustments[i].amount)]

(***************************************************************************)
(* compute_payslip.  Adjustments come after everything else: they are not  *)
(* prorated and change neither the statutory deductions nor the tax.       *)
(***************************************************************************)
Assemble(d, earnings, deductions, employer) ==
  [earnings |-> earnings, deductions |-> deductions, employer |-> employer,
   gross |-> Sum(earnings), totalDeductions |-> Sum(deductions),
   net |-> Sum(earnings) - Sum(deductions)]

\* Mutant of Payslip: adjustments are applied before the statutory deductions.
PayslipAdjustedFirst(d, lost) ==
  LET earnings == Earnings(d, lost) \o AsEntries(Adjustments(d, "EARNING"))
  IN  Assemble(d, earnings,
        OwnDeductions(d, earnings) \o StatutoryDeductions(d, earnings)
          \o AsEntries(Adjustments(d, "DEDUCTION")),
        EmployerContributions(d, earnings))

Payslip(d, lost) ==
  LET earnings == Earnings(d, lost)
  IN  Assemble(d, earnings \o AsEntries(Adjustments(d, "EARNING")),
        OwnDeductions(d, earnings) \o StatutoryDeductions(d, earnings)
          \o AsEntries(Adjustments(d, "DEDUCTION")),
        EmployerContributions(d, earnings))

\* compute_hourly_payslip: one fixed line for the hours (in hundredths), nothing lost.
Hourly(d) ==
  [d EXCEPT !.freq = "MONTHLY", !.ctc = 0, !.lop = 0, !.days = 1,
     !.components = <<[code |-> "WAGES", type |-> "fixed", percent |-> 0, of |-> Omitted,
                       amount |-> RoundHalfUp(d.hours * d.rate, 100)]>>]

Effective(d) == IF d.freq = "HOURLY" THEN Hourly(d) ELSE d

\* An employee without a tax profile: the new regime and nothing declared.
Undeclared == [regime |-> "NEW", c80 |-> 0, d80 |-> 0, home |-> 0, other |-> 0,
               prevIncome |-> 0, prevTds |-> 0]

\* Mutant of Previewed: the employee's declaration is not loaded.
PreviewedUndeclared(d, named) ==
  [d EXCEPT !.days = 30, !.lop = Least(@, 2 * 30), !.adjustments = <<>>,
            !.state = IF named THEN @ ELSE Omitted, !.profile = Undeclared]

\* preview_structure: what it reads into a structure that is not saved.  A month has 30
\* days, of which no more can be lost; the state and the declaration are those of the
\* employee, when the form names one.
Previewed(d, named) ==
  [d EXCEPT !.days = 30, !.lop = Least(@, 2 * 30), !.adjustments = <<>>,
            !.state = IF named THEN @ ELSE Omitted,
            !.profile = IF named /\ d.tds THEN @ ELSE Undeclared]

-----------------------------------------------------------------------------
Init == draft \in Drafts /\ slip = NoSlip

Valid(d) == d.lop <= 2 * d.days

\* A run, or a run again, computes the payslip.
Compute ==
  /\ Valid(Effective(draft))
  /\ \E lost \in SUBSET DOMAIN Effective(draft).components :
       slip' = Payslip(Effective(draft), lost)
  /\ UNCHANGED draft

\* More days are lost than there are.
Refuse ==
  /\ ~Valid(Effective(draft))
  /\ slip' = Refused
  /\ UNCHANGED draft

Next == Compute \/ Refuse

Spec == Init /\ [][Next]_vars

-----------------------------------------------------------------------------
(***************************************************************************)
(* Properties.                                                             *)
(***************************************************************************)
Entries == Seq([code: STRING, amount: Nat])

\* Deductions may exceed the gross: the net may be negative, and nothing refuses it.
Slip == [earnings: Entries, deductions: Entries, employer: Seq([code: STRING, amount: Int]),
         gross: Nat, totalDeductions: Nat, net: Int]

\* The structures that make sense: no line of theirs is negative.
NotNegative(d) ==
  /\ d.ctc >= 0
  /\ \A i \in DOMAIN d.components : d.components[i].amount >= 0 /\ d.components[i].percent >= 0
  /\ \A i \in DOMAIN d.deductions : d.deductions[i].amount >= 0 /\ d.deductions[i].percent >= 0

TypeOK == draft \in Drafts /\ slip \in Slip \cup {NoSlip, Refused}

Computed == slip \notin {NoSlip, Refused}

\* LineType.BALANCE "keeps the package summing to exactly the CTC": when nothing is lost,
\* one balance line brings the gross to the cost of the period, unless the other lines
\* exceed it; n lines do so up to n halves of a paisa.
BalanceFillsCTC ==
  LET d == Effective(draft)
      n == Len(Balances(d))
      gross == slip.gross - Sum(Adjustments(d, "EARNING"))
      others == Sum(SubSeq(slip.earnings, 1, Len(d.components) - n))
      missed == gross - Greatest(others, PeriodCTC(d))
  IN  Computed /\ n > 0 /\ d.lop = 0 => 2 * Greatest(missed, -missed) <= n

\* "Adjustments ... do NOT change the statutory wage base": they change the net by
\* their own amounts, and no other line.
AdjustmentsAside ==
  Computed =>
    \E lost \in SUBSET DOMAIN Effective(draft).components :
      LET d == Effective(draft)
          plain == Payslip([d EXCEPT !.adjustments = <<>>], lost)
      IN  /\ IsPrefix(plain.earnings, slip.earnings)
          /\ IsPrefix(plain.deductions, slip.deductions)
          /\ plain.employer = slip.employer
          /\ slip.net = plain.net + Sum(Adjustments(d, "EARNING"))
                                  - Sum(Adjustments(d, "DEDUCTION"))

\* Losing another half day never raises the gross, whichever halves of a paisa are lost
\* on the way; and a whole period lost pays nothing but the adjustments.
LossNeverPays ==
  LET d == Effective(draft)
  IN  /\ Computed /\ d.lop < 2 * d.days =>
           \A lost \in SUBSET DOMAIN d.components :
             Payslip([d EXCEPT !.lop = @ + 1], lost).gross <= slip.gross
      /\ Computed /\ d.lop = 2 * d.days => slip.gross = Sum(Adjustments(d, "EARNING"))

\* The employer's provident fund share is what the pension leaves of it, and never
\* negative, as long as the settings keep the pension within the share.
PensionWithinShare ==
  LET d == Effective(draft)
      cfg == d.cfg
  IN  Computed /\ cfg.epsRate <= cfg.pfEmployer /\ cfg.epsCeiling <= cfg.pfCeiling =>
        \A i \in DOMAIN slip.employer : slip.employer[i].amount >= 0

TdsLine == Kept(slip.deductions, {l \in Range(slip.deductions) : l.code = "TDS"})

\* What a band holds of an income.
InBand(taxable, bands, i) ==
  LET lower == IF i = 1 THEN 0 ELSE bands[i - 1].upto
  IN  Greatest(0, (IF Within(taxable, bands[i]) THEN taxable ELSE bands[i].upto) - lower)

\* "monthly TDS doesn't swing with LOP": the tax of twelve such months, days lost or not,
\* is the progressive tax of a full year's income, each rupee at the rate of its band,
\* with the cess, less what was withheld before; it is withheld up to twelve halves of
\* a paisa.
YearIsWithheld ==
  LET d == Effective(draft)
      p == d.profile
      bands == Slabs[p.regime]
      taxable == Taxable(12 * Sum(RawEarnings(d)), p, d.cfg)
      charge == [i \in DOMAIN bands |-> InBand(taxable, bands, i) * bands[i].rate]
      tax == MapThenSumSet(LAMBDA i : charge[i], DOMAIN bands)
      due == IF taxable <= d.cfg.rebate[p.regime] THEN 0
             ELSE Greatest(0, tax * 26 - p.prevTds * 2500)
      missed == due - 12 * 2500 * Sum(TdsLine)
  IN  Computed /\ d.tds => Greatest(missed, -missed) <= 6 * 2500

\* "the preview matches what the next payroll run will produce": for an employee, paid by
\* the month or the week and without adjustments, it does when no day is lost, or 30
\* days are worked.  For nobody in particular it differs by taxes alone; and no loss
\* typed into the form is refused.
PreviewMatchesRun ==
  LET shown(named, lost) == Payslip(Previewed(draft, named), lost)
      untaxed(s) == Kept(s.deductions, {l \in Range(s.deductions) : l.code \notin {"PT", "TDS"}})
  IN  /\ \A named \in BOOLEAN : Valid(Previewed(draft, named))
      /\ /\ Computed /\ draft.freq # "HOURLY" /\ draft.adjustments = <<>>
         /\ draft.lop = 0 \/ draft.days = 30
         => \E lost \in SUBSET DOMAIN draft.components :
              /\ shown(TRUE, lost) = slip
              /\ shown(FALSE, lost).earnings = slip.earnings
              /\ untaxed(shown(FALSE, lost)) = untaxed(slip)

\* compute_tds is told the "projected gross for the year from THIS employer": as many
\* periods as the year has.
ProjectsTheYear ==
  draft.freq = "WEEKLY" /\ draft.tds => AnnualGross(draft) = 52 * Sum(RawEarnings(draft))
=============================================================================
