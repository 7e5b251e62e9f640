---------------------------- MODULE MCPayslipCalc ----------------------------
(***************************************************************************)
(* PayslipCalc for TLC.  The limits of the law are divided by a hundred,   *)
(* so that products fit TLC's integers: 15000 rupees are 15000 paise.      *)
(***************************************************************************)
EXTENDS PayslipCalc

\* The slabs of two of the five states, and of both regimes.
SomePTSlabs ==
  [KA |-> <<[upto |-> 24999, amount |-> 0], [upto |-> Above, amount |-> 200]>>,
   WB |-> <<[upto |-> 10000, amount |-> 0], [upto |-> 15000, amount |-> 110],
            [upto |-> 25000, amount |-> 130], [upto |-> 40000, amount |-> 150],
            [upto |-> Above, amount |-> 200]>>]

Band(upto, rate) == [upto |-> upto, rate |-> rate]

BothSlabs ==
  [NEW |-> <<Band(400000, 0), Band(800000, 5), Band(1200000, 10), Band(1600000, 15),
             Band(2000000, 20), Band(2400000, 25), Band(Above, 30)>>,
   OLD |-> <<Band(250000, 0), Band(500000, 5), Band(1000000, 20), Band(Above, 30)>>]

TheCaps == [c80 |-> 150000, d80 |-> 100000, home |-> 200000]

DefaultConfig ==
  [pfEmployee |-> 1200, pfEmployer |-> 1200, pfCeiling |-> 15000,
   epsRate |-> 833, epsCeiling |-> 15000,
   esiLimit |-> 21000, esiEmployee |-> 75, esiEmployer |-> 325,
   rebate |-> [NEW |-> 1200000, OLD |-> 500000],
   standard |-> [NEW |-> 75000, OLD |-> 50000]]

OwnConfig == [DefaultConfig EXCEPT !.pfCeiling = 20000, !.esiLimit = 60000,
                                   !.rebate = [NEW |-> 700000, OLD |-> 500000]]

Fixed(code, amount) ==
  [code |-> code, type |-> "fixed", amount |-> amount, percent |-> 0, of |-> Omitted]
Percent(code, percent, of) ==
  [code |-> code, type |-> "percent", amount |-> 0, percent |-> percent, of |-> of]
Balance(code) ==
  [code |-> code, type |-> "balance", amount |-> 0, percent |-> 0, of |-> Omitted]

SomeComponents ==
  { <<Percent("BASIC", 40, "CTC"), Percent("HRA", 50, "BASIC"), Balance("SPECIAL")>>,
    <<Percent("BASIC", 50, "CTC"), Balance("SPECIAL"), Balance("FLEXI")>>,
    <<Balance("SPECIAL"), Fixed("BASIC", 30001), Percent("BONUS", 10, Omitted)>>,
    <<Percent("BASIC", 50, "HRA"), Fixed("HRA", 15015)>> }

SomeDeductions ==
  { <<>>, <<Fixed("LOAN", 1200), Percent("CLUB", 1, Omitted), Percent("NPS", 10, "BASIC")>> }

Plain == [pf |-> FALSE, cap |-> TRUE, pfCodes |-> <<>>, esi |-> FALSE,
          pt |-> FALSE, state |-> "KA", tds |-> FALSE, cfg |-> DefaultConfig]

SomeStatutory ==
  { Plain,
    [Plain EXCEPT !.pf = TRUE, !.esi = TRUE, !.pt = TRUE, !.tds = TRUE],
    [Plain EXCEPT !.pf = TRUE, !.cap = FALSE, !.pfCodes = <<"HRA", "BASIC", "HRA">>, !.esi = TRUE,
                  !.pt = TRUE, !.state = "WB", !.tds = TRUE, !.cfg = OwnConfig] }

SomeProfiles ==
  { Undeclared,
    [Undeclared EXCEPT !.regime = "OLD", !.c80 = 160000, !.d80 = 30000, !.other = 1000,
                          !.prevIncome = 100000, !.prevTds = 5003] }

SomeAdjustments ==
  { <<>>,
    <<[kind |-> "EARNING", code |-> "BONUS", amount |-> 9000],
      [kind |-> "DEDUCTION", code |-> "ADVANCE", amount |-> 700]>> }

\* Half days lost, of working days.
SomeAttendance == {<<0, 30>>, <<1, 30>>, <<58, 30>>, <<60, 30>>, <<61, 30>>, <<9, 7>>}

SomeDrafts ==
  { [freq |-> freq, ctc |-> ctc, components |-> components, deductions |-> deductions,
     lop |-> attendance[1], days |-> attendance[2], hours |-> 9925, rate |-> 250,
     pf |-> s.pf, cap |-> s.cap, pfCodes |-> s.pfCodes, esi |-> s.esi, pt |-> s.pt,
     state |-> s.state, tds |-> s.tds, cfg |-> s.cfg, profile |-> profile,
     adjustments |-> adjustments] :
       freq \in {"MONTHLY", "WEEKLY", "HOURLY"}, ctc \in {240007, 600000, 1800000},
       components \in SomeComponents, deductions \in SomeDeductions,
       attendance \in SomeAttendance, s \in SomeStatutory, profile \in SomeProfiles,
       adjustments \in SomeAdjustments }
=============================================================================
