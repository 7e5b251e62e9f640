-------------------------- MODULE MCCompanySettings --------------------------
(***************************************************************************)
(* CompanySettings for TLC: one company, one request at a time.            *)
(***************************************************************************)
EXTENDS CompanySettings

CONSTANTS w1, a, b, t, u

OneWorker  == {w1}
TwoLabels  == {a, b}
TwoTokens  == {t, u}
TwoRates   == {"default", "own"}
OneDefault == "default"

\* A Friday, perhaps a holiday, a Saturday and a Monday.
ThreeDates == 1..3
DayNames   == <<"FRI", "SAT", "MON">>
OneHoliday == {1}
Weekend    == {"SAT", "SUN"}

SomeCalendars ==
  {[counted |-> TRUE,  offs |-> {"SAT", "FRI"}, checked |-> TRUE],
   [counted |-> FALSE, offs |-> Weekend, checked |-> FALSE]}

Named(form, label) == [form |-> form, name |-> label, holds |-> NoName]
Blank  == Named("blank", NoName)
Amount == Named("amount", NoName)

\* Labels above their blanks, and one of them again in a line of text.
Stack == <<<<Named("words", a), Named("words", b)>>, <<Blank, Blank>>, <<Named("field", a)>>>>

\* A placeholder for the value in a table, and the same label in a line of text.
Bracketed == <<<<Named("words", a), Named("bracket", b)>>, <<Named("field", b)>>>>

\* Two pairs in a row, one of them labelled by a placeholder.
PairsInARow == <<<<Named("bracket", a), Amount, Named("words", b), Blank>>>>

\* A line of text before the table, which the wizard shows after it.
Preface == <<<<Named("field", b)>>, <<Named("words", a), Amount>>>>

\* A label in another script, beside one that is recognised.
Foreign == <<<<Named("words", NoName), Amount>>, <<Named("words", a), Amount>>>>

SomeDocuments == {Stack, Bracketed, PairsInARow, Preface, Foreign}
=============================================================================
