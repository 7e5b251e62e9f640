--------------------------- MODULE CompanySettings ---------------------------
(***************************************************************************)
(* The settings of a company: the handlers of app/router/settings.py and   *)
(* app/router/calendar.py on its companies row, and its holidays.  What a  *)
(* payroll run and a payslip take from them: the statutory rates, the      *)
(* working days of the period, the maker-checker rule, the document the    *)
(* payslip is rendered from.                                               *)
(*                                                                         *)
(* The rates and the work calendar share one JSON column.                  *)
(***************************************************************************)
EXTENDS DocTemplate, Session

CONSTANTS
  Workers,
  Documents,            \* the .docx files that may be uploaded
  Rates, DefaultRate,   \* StatutoryConfig, all its fields together
  Dates,                \* the days of the payroll period
  Weekday,              \* the weekday of each
  Festive,              \* the days that may be made a holiday
  Calendars,            \* WorkCalendarConfig: the ones the admin may choose
  DefaultOffs,          \* the weekly-offs of a new company
  FixedDays             \* DEFAULT_WORKING_DAYS

ASSUME SettingsAssumption ==
  /\ DefaultRate \in Rates
  /\ Festive \subseteq Dates
  /\ FixedDays \in Nat \ {0}

\* The documents are made of cells.
ASSUME DocumentsAssumption == Documents \subseteq Seq(Seq(Cell))

Ops == {"rates", "calendar", "layout", "upload", "remove", "scan", "map"}

VARIABLES
  company,   \* the companies row
  holiday,   \* the holidays rows, by date
  req,       \* what each worker is doing
  \* History: the document the stored template was generated from
  source

vars == <<company, holiday, req, source>>

\* WorkCalendarConfig: use_calendar_working_days, weekly_offs, enforce_maker_checker.
DefaultCalendar == [counted |-> TRUE, offs |-> DefaultOffs, checked |-> FALSE]

\* A saved mapping: the chosen token and the label of some slots.
Mappings == UNION {[D -> [token: Tokens, label: Labels \cup Tokens \cup {NoName}]] :
                     D \in UNION {SUBSET DOMAIN Slots(doc) : doc \in Documents}}

NoMapping == <<>>

\* Columns are written back one by one; statutory is one column, use that of
\* payslip_settings, whose other fields (branding, sections shown) are left out.
TypeOK ==
  /\ company.statutory \in [rates: Rates, calendar: Calendars \cup {DefaultCalendar}]
  /\ company.use \in BOOLEAN
  /\ company.original \in Documents \cup {NoDocument}
  /\ company.template \in Seq(Seq(Cell))
  /\ company.mapping = NoMapping \/ company.mapping \in Mappings
  /\ holiday \in [Festive -> {"none", "kept", "deleted"}]
  /\ \A w \in Workers : req[w].op \in Ops \cup {"none"}
  /\ source \in Documents \cup {NoDocument}

New == [statutory |-> [rates |-> DefaultRate, calendar |-> DefaultCalendar], use |-> FALSE,
        template |-> NoDocument, original |-> NoDocument, mapping |-> NoMapping]

Idle == [op |-> "none", loaded |-> New]

Init ==
  /\ company = New
  /\ holiday = [d \in Festive |-> "none"]
  /\ req = [w \in Workers |-> Idle]
  /\ source = NoDocument

-----------------------------------------------------------------------------
(***************************************************************************)
(* What the handlers make of the row they loaded.                          *)
(***************************************************************************)

\* StatutoryConfig(**merged).model_dump(): its own fields, and no other key.
SaveRates(row, rates) ==
  [row EXCEPT !.statutory = [rates |-> rates, calendar |-> DefaultCalendar]]

\* Mutant of SaveCalendar: what is stored is the calendar slice alone.
SaveCalendarAlone(row, calendar) ==
  [row EXCEPT !.statutory = [rates |-> DefaultRate, calendar |-> calendar]]

\* The calendar keys over the stored blob.
SaveCalendar(row, calendar) == [row EXCEPT !.statutory.calendar = calendar]

\* upload_payslip_document drops any wizard state.
Uploaded(row, doc) ==
  [row EXCEPT !.template = doc, !.original = NoDocument, !.mapping = NoMapping]

Removed(row) == [Uploaded(row, NoDocument) EXCEPT !.use = FALSE]

\* Mutant of Chosen: the slots left blank are stored as well.
ChosenOrBlank(payload) == payload

\* "Keep only real (non-blank) token choices."
Chosen(payload) == Restrict(payload, {i \in DOMAIN payload : payload[i] # NoName})

Mapped(row, chosen) ==
  [row EXCEPT !.template = ApplyMapping(row.original, chosen),
              !.mapping = Saved(row.original, chosen), !.use = TRUE]

-----------------------------------------------------------------------------
\* _load_company; the mapping needs a scanned document (404).
Load(w, op) ==
  /\ req[w].op = "none"
  /\ op = "map" => company.original # NoDocument
  /\ req' = [req EXCEPT ![w] = [op |-> op, loaded |-> company]]
  /\ UNCHANGED <<company, holiday, source>>

Commit(w, op, row) ==
  /\ req[w].op = op
  /\ company' = [c \in DOMAIN company |-> Written(company[c], req[w].loaded[c], row[c])]
  /\ req' = [req EXCEPT ![w] = Idle]
  /\ UNCHANGED holiday

CommitRates(w) ==
  \E rates \in Rates : Commit(w, "rates", SaveRates(req[w].loaded, rates)) /\ UNCHANGED source

CommitCalendar(w) ==
  \E calendar \in Calendars :
    Commit(w, "calendar", SaveCalendar(req[w].loaded, calendar)) /\ UNCHANGED source

\* update_payslip_settings
CommitLayout(w) ==
  \E use \in BOOLEAN :
    Commit(w, "layout", [req[w].loaded EXCEPT !.use = use]) /\ UNCHANGED source

CommitUpload(w) ==
  \E doc \in Documents :
    Commit(w, "upload", Uploaded(req[w].loaded, doc)) /\ source' = NoDocument

CommitRemove(w) == Commit(w, "remove", Removed(req[w].loaded)) /\ source' = NoDocument

\* scan_payslip_document: the original is stored; the template and the mapping stay.
CommitScan(w) ==
  \E doc \in Documents :
    Commit(w, "scan", [req[w].loaded EXCEPT !.original = doc]) /\ UNCHANGED source

\* apply_payslip_mapping: "map at least one field".
CommitMap(w) ==
  /\ req[w].op = "map"
  /\ \E payload \in [DOMAIN Slots(req[w].loaded.original) -> Tokens \cup {NoName}] :
       /\ Chosen(payload) # NoMapping
       /\ Commit(w, "map", Mapped(req[w].loaded, Chosen(payload)))
  /\ source' = req[w].loaded.original

Rollback(w) ==
  /\ req[w].op # "none"
  /\ req' = [req EXCEPT ![w] = Idle]
  /\ UNCHANGED <<company, holiday, source>>

\* create_holiday: the unique constraint counts the deleted rows, too (409).
CreateHoliday(d) ==
  /\ holiday[d] = "none"
  /\ holiday' = [holiday EXCEPT ![d] = "kept"]
  /\ UNCHANGED <<company, req, source>>

DeleteHoliday(d) ==
  /\ holiday[d] = "kept"
  /\ holiday' = [holiday EXCEPT ![d] = "deleted"]
  /\ UNCHANGED <<company, req, source>>

Next ==
  \/ \E w \in Workers :
       \/ \E op \in Ops : Load(w, op)
       \/ CommitRates(w) \/ CommitCalendar(w) \/ CommitLayout(w)
       \/ CommitUpload(w) \/ CommitRemove(w) \/ CommitScan(w) \/ CommitMap(w)
       \/ Rollback(w)
  \/ \E d \in Festive : CreateHoliday(d) \/ DeleteHoliday(d)

Spec == Init /\ [][Next]_vars

-----------------------------------------------------------------------------
(***************************************************************************)
(* What payroll reads.                                                     *)
(***************************************************************************)

\* working_days_in_period
WorkingDays ==
  LET calendar == company.statutory.calendar
      off == {d \in Dates : Weekday[d] \in calendar.offs} \cup {d \in Festive : holiday[d] = "kept"}
  IN  IF calendar.counted THEN Max({1, Cardinality(Dates \ off)})
      ELSE FixedDays

\* _render_payslip_doc: the document, or NoDocument for the built-in layout.
Rendered == IF company.use THEN company.template ELSE NoDocument

-----------------------------------------------------------------------------
(***************************************************************************)
(* Properties.                                                             *)
(***************************************************************************)

\* The second pass of apply_field_mapping misses a placeholder the first one filled.
\* A choice is lost if such a placeholder comes before its slot, or is its slot.
Misses(chosen, i) ==
  LET first == Len(TablePass(source))
      here  == Slots(source)[i].place
  IN  /\ i > first
      /\ \E j \in DOMAIN chosen \cap 1..first :
           LET there == Slots(source)[j].place
           IN  /\ At(source, there).form = "bracket"
               /\ there[1] < here[1] \/ (there[1] = here[1] /\ there[2] <= here[2])

\* "A slot's index is identical at scan time and apply time": each choice of the wizard
\* is in the template where the wizard showed the slot, and nothing else has changed, as
\* far as no placeholder of a table was filled before.
TokensLand ==
  LET chosen == company.mapping
      slots  == Slots(source)
      lost   == {i \in DOMAIN chosen : Misses(chosen, i)}
  IN  source # NoDocument =>
        /\ \A i \in DOMAIN chosen \ lost :
             At(company.template, slots[i].place)
               = Filled(At(source, slots[i].place), chosen[i].token)
        /\ lost = {} =>
             \A place \in Places(source) \ {slots[i].place : i \in DOMAIN chosen} :
               At(company.template, place) = At(source, place)

\* Re-opening the wizard on the mapped document shows each choice in its slot, also when
\* labels repeat, unless an earlier slot of the same label was left unmapped or the label
\* normalises to nothing; and the stored template is that of the choices shown.
ReopenShowsChoices ==
  LET saved == company.mapping
      slots == Slots(source)
      Unmapped(i) == {j \in 1..i : slots[j].label = slots[i].label} \ DOMAIN saved
  IN  /\ source # NoDocument /\ source = company.original =>
           /\ \A i \in DOMAIN saved :
                slots[i].label # NoName /\ Unmapped(i) = {} =>
                  Shown(company.original, saved)[i] = saved[i].token
           /\ company.template = ApplyMapping(source, [i \in DOMAIN saved |-> saved[i].token])
      /\ source = NoDocument => saved = NoMapping

\* The step is the commit of one of the handlers ops.
Saves(ops) == \E w \in Workers : req[w].op \in ops /\ req'[w].op = "none"

\* The handlers save different settings into the same row: the rates, the proration basis
\* and what payslips look like change only when the admin saves them (a save of the
\* rates resets the calendar, see RatesKeepCalendar; a wizard that was abandoned
\* changes nothing).
SavesOnlyItsOwn ==
  [][/\ company'.statutory.rates # company.statutory.rates => Saves({"rates"})
     /\ WorkingDays' # WorkingDays => Saves({"calendar", "rates"}) \/ holiday' # holiday
     /\ Rendered' # Rendered => Saves({"layout", "upload", "remove", "map"})]_vars

\* "Partial update": saving the statutory rates leaves the work calendar alone, the
\* working days a run divides by and the maker-checker rule above all.
RatesKeepCalendar ==
  [][\A w \in Workers : req[w].op = "rates" =>
       company'.statutory.calendar = company.statutory.calendar]_vars
=============================================================================
