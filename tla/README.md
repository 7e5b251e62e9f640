# Payroll-system: a TLA+ development

A multi-tenant payroll back end (FastAPI handlers over SQLAlchemy and PostgreSQL).
HR runs a *payroll cycle*: payslips are computed for every employee, approved, marked
paid, and released. Attendance comes from *timesheets*, which are stamped with *leave*;
pay comes from *salary structures*; both are read with the *settings* of the company.
The modules here model the handlers that change this state, TLC checks them on small
instances, and TLAPS proves part of the results for every instance.

## Inventory

| Component | State | Operations | Interacts with | What makes it correct |
|---|---|---|---|---|
| Payroll cycle (`services/payroll_service.py`, `router/payroll.py`) | `payroll_cycles` (status, totals, soft delete), `payslips`, `payroll_adjustments` | create, run, approve, mark-paid, cancel, delete, add/delete adjustment | reads employees, structures, approved timesheets, settings | lifecycle; PAID is terminal; approved is what is paid; roll-up matches payslips |
| Payslip release, e-mail (`router/payroll.py` 668-744, 1062-1172, `router/me.py`) | none (nothing records what was sent) | list, fetch, download, e-mail one or all, own view | reads cycle, payslips | released only when PAID; what was sent is what was paid |
| Payslip calculation (`payroll_service.compute_payslip`, `compute_hourly_payslip`, `preview_structure`, `statutory.py`, `tax_engine.py`) | none | pure | called by a run and by the preview | net = gross - deductions; rounding; CTC absorbed by balance lines; statutory caps; the preview is what a run will do |
| Timesheets (`services/timesheet_service.py`) | `timesheets` (status, aggregates, actor stamps), `timesheet_entries` | generate, bulk edit, self-mark, import, submit, approve, reject, reopen, resync | leave ledger (stamps), cycle (guards), run (reads aggregates) | frozen under review; maker is not checker; aggregates follow entries; grid follows leave |
| Leave (`services/leave_service.py`) | `leave_requests`, `leave_balances`, `leave_types` | file, approve, reject, cancel, list balances, edit type | calls the timesheet resync after a decision | no day twice; never overdrawn; charged and credited once; maker is not checker |
| Salary structures, templates (`router/payroll.py`, `apply_template`) | `salary_structures`, templates | create, edit, delete, apply a template to a list | read by runs and by generation | one active structure per employee; a batch costs nobody the structure |
| Accounts, employees, tax profiles (`router/auth.py`, `employee.py`, `taxes.py`) | `companies`, `users`, `employees`, `employee_tax_profiles` | sign up, create user, hire, edit, delete, declare | JWT carries company and role; deletion turns structures off | an address names one login; one login per employee |
| Company settings (`router/settings.py`) | one `companies` row: statutory JSON, payslip settings, document, mapping | rates, layout, upload, scan, map, remove | runs and renders read them | a save changes what it is about |
| Payslip document (`services/docx_service.py`) | the stored template | scan slots, apply mapping, pre-fill | the wizard | a token lands in the slot the wizard showed |
| Work calendar, holidays (`router/calendar.py`, `services/calendar_service.py`) | keys of the statutory JSON; `holidays` | configure, add, remove | the working days a run divides by | counted as configured |
| TDS liabilities and challans, audit trail, reports, background-job scaffold, frontend, migrations | rows edited by forms; rendering | CRUD, I/O | | no state machine |

All interaction goes through the database. A request owns one `AsyncSession`
(`core/database.py`): autoflush off, READ COMMITTED, no `SELECT ... FOR UPDATE`, no
version columns; four gunicorn workers serve requests at the same time. So the hard
behaviour is: a guard read in one statement and acted upon in another, read-modify-write
of a counter, several commits in one request, columns written one at a time, a request
that dies between its commits, and state that another component changes meanwhile.
`PROJECT.json` lists the hazards at their lines.

## Modules

| Module | Models |
|---|---|
| `Session` | `Written`: what a commit of a session stores in a column |
| `PayrollCycle` | one cycle, its payslips and adjustments, and the handlers that change them |
| `CycleLifecycle` | the abstract lifecycle of the repository's README, one atomic step per operation |
| `PayrollRelease` | `PayrollCycle` composed with the handlers that show and mail its payslips |
| `Timesheet` | one employee's ATTENDANCE sheet for one cycle |
| `LeaveLedger` | one employee's requests and balance for one leave type and year |
| `Statutory`, `TaxEngine` | PF, ESI, professional tax; the income tax estimate. Operators only |
| `PayslipCalc` | the calculation of one payslip, from a draft (structure, attendance, settings, declaration, adjustments), and its preview |
| `SalaryStructures` | the structures of all employees and the template applied to them |
| `Accounts` | companies, logins, employees, tax profiles |
| `DocTemplate` | the slots of a payslip document and the mapping of tokens. Operators only |
| `CompanySettings` | the settings row, the holidays, and what payroll reads from them |
| `MC*` | instances for TLC |
| `LeaveLedger_proofs`, `Timesheet_proofs`, `CompanySettings_proofs` | theorems for any interleaving, then for handlers served one at a time |
| `PayrollRelease_proofs` | the same for the cycle, and then together with the release of its payslips |
| `SalaryStructures_proofs`, `Accounts_proofs` | theorems for any interleaving, and about requests that nobody overlapped |
| `PayslipCalc_proofs` | theorems about the calculation, for any draft |
| `SumTheorems` | laws of the folds the models add up with, and induction over numbers and finite sets |

Common conventions. A handler is split at its database round trips: *Load* (the first
read and the guards of the handler), further reads where the handler makes them, and
*Commit* (its assignments, its commit). `req[w]` holds what the worker `w` has read.
`Written(current, loaded, computed)` is the ORM's rule: a column is updated if and only
if its value differs from the one *loaded*; otherwise it keeps what the database holds
by then. A refused request changes nothing and is not modelled; `Rollback` is a request
that dies (database error, constraint, gunicorn timeout) before a commit. `met` is
history: another request has committed since this one began. Operators named in a
comment as a mutant are not part of the model: each is a plausible bug that replaces the
operator after it and must break the property `PROJECT.json` pairs it with.

### PayrollCycle

`status`, `deleted`, `totals` are the cycle's row; `amount`, `slipStatus`, `stamped`
the payslips by employee (`NoPayslip` without a row); `pay`, `adjustments`, `gone`
the inputs of a run. A run is `LoadCycle`, `Read`, one `WriteRow` for each payslip it
inserts or changes, `Flush`, `CommitRun`; a payment is `LoadCycle`, `FindSlips` (the rows its
UPDATE will stamp are those committed when it starts), one `WriteRow` for each, `CommitPay`;
every other operation is a load and a commit. The commit also writes the cycle's row, which
no handler touches before (autoflush is off): it is the last lock of every transaction, so
that a commit can be one step. (The key-share lock an insert takes on the cycle does not
conflict with an update of its status.)

*Locks.* A row once written, or the unique key of a row inserted, stays `locked` until the
transaction ends; `next` is the row a worker is about to write. It waits (`Blocked`) while
another worker holds that row. Updates of a run go by primary key (`KeyOrder`), its inserts
in the order of a SELECT without ORDER BY, which of the two comes first for different rows
is left open, and the bulk UPDATE of a payment takes rows as it meets them: `Upcoming`. So
workers can wait for each other in a circle while they hold rows. PostgreSQL looks for such
circles and aborts one transaction of each (`DeadlockFound`, external). `InsertFails` is the
unique constraint, once the other transaction has committed.

`Flush` computes the roll-up over what the session sees: payslips still in its identity
map as it has them in memory, the others as the database returns them. Which ones are
still there depends on garbage collection, so the model lets any be.

Abstractions. Reads of a run are one step (each of them is a snapshot of its own in
PostgreSQL). A structure, with the timesheet and the statutory settings, is worth a gross
pay; an adjustment one unit; at most one adjustment of a kind is live per employee.
`approved` and `leftOut` are history, and so are `overtaken`, the workers whose request was
accepted before some other request changed the cycle, and `strayed`: one of these has
committed all the same. A version of the cycle that every request checks when it commits, also
one that writes an adjustment only, would refuse just these commits; the tables have none. `OrderlyUnlessOvertaken` and `SettledUnlessOvertaken` say that it
would be enough: roll-up, stamps and columns of the payslips agree, and nothing approved or
paid changes, in every interleaving, until such a commit. (Overlap, row-by-row writing,
deadlocks and crashes do no harm by themselves.) What happens afterwards is the finding of
`cycle_terminal`.

### PayrollRelease

Extends `PayrollCycle` by the way out. `release` is the one release in flight. The bulk
e-mail checks the cycle (`LoadBulk`), reads the payslips (`ReadBulk`) and sends one
after another, each of which may fail (`Send`, `SendFails`). A single payslip is read
before the cycle that releases it (`ReadOne`, `GateOne`). `EndRelease` is also the
request that dies half way: nothing records what was sent, so a retry starts over.
History: `delivered`, what each employee was ever sent, and `early`, those for whom a
payslip was read before the approval.

### Timesheet

`sheet` is the row with its entries, `leave` the ledger by day, `cycle` what the handlers
ask of the cycle. `reopen` is three steps because it commits twice; a leave decision and
the resync it owes are separate transactions, so `DecideLeave` leaves the worker in
stage "owed". `CommitImport` covers the rows of a file that concern this sheet, of
which the model takes one per request; `touchesOthers` says that a row of another sheet
completed. Aggregates count half days. History: `submitter`, `manual` (days last set by
hand or import), `skewed` (an abandoned import row was stored), `missed` (a decided
leave was kept from the sheet). Hours, notes and HOURLY sheets are left out.

### LeaveLedger

Handlers that use the balance read the type and the balance after the request, in
statements of their own (`ReadBalance`). `credit` is `_accrued_for` on this date: it
follows the calendar and the quota. `Accepts`, `Clash`, the maker-checker test and the
balance test are the four guards. `LeaveDays` is `get_approved_leave_days`, what a sheet
is stamped with. `Rollback` also stands for the approval refused for want of balance.
Each request is filed at most once, and `Days` counts half days. `charged` and `toggled`
are history. The setting of segregation of duties is a constant: turning it on later says
nothing about what was approved before.

### PayslipCalc, with Statutory and TaxEngine

The code's passes are operators, in its order: `RawEarnings` (with the balance lines
last), `Earnings` (pro-ration line by line), `OwnDeductions`, `StatutoryDeductions`,
adjustments. `Compute` is what a run does with one employee, `Refuse` the `ValueError`
for which a run skips him, `Previewed` what `preview_structure` shows of the structure.
Money is in paise, roundings are the code's: half up to a paisa for lines (away from zero
for negative amounts, which a line of a structure may have), half up to a rupee for PF and
PT, up to a rupee for ESI. Percentages are whole. Of 28-digit decimal
arithmetic one effect can be seen: the factor `paid_days / working_days` is inexact
unless it terminates, so that half a paisa may be lost; `Prorate` leaves open whether it
is, line by line. (With 30 working days, 1.65 for one day paid gives 0.05, not 0.06.)
The snapshot of the settings aside, every output of the calculation is there; employer's
shares may be negative under settings that say so, and a net below zero is possible and
stored.

### SalaryStructures

`owner`, `active`, `live` are the rows, `gone` the deleted employees. Creating, editing
and deleting a structure and deleting an employee are a load and a commit.
`apply_template` is taken statement by statement, one employee of its list after another:
`Skip`, or `Retire` (the active structure is turned off and flushed) and `Insert`; then
one `CommitApply`. Until then the rows it inserted carry it as their `writer`, the rows
it turned off are in its set `off`, and nobody else sees either; `RowLocked` and
`KeyLocked` are the waits these cause in others (a write of the row; an insert of the
same key of the index). `Refused` is the partial unique index. `Rollback` is also the
victim PostgreSQL picks when two batches wait for each other.

### Accounts

`account` and `staff` are the rows of `users` and `employees`, `founded` the companies.
A handler looks for a row in its way and then inserts; `Refused` is what the constraints
of the tables refuse. `raced` is history: logins inserted after another request had
committed since the look-up. No handler edits or deletes a login. Passwords, tokens and
permissions say who may call a handler, not what it does, and are left out.

### CompanySettings, with DocTemplate

A handler of the `companies` row loads it and writes back what it changed, column by
column (`Commit`); rates and calendar are one column. A document is its rows of cells (a
paragraph outside of tables is a row of one cell), a cell one of six forms with a label.
`Slots` is the scan, in two passes (tables, then lines of text); `ApplyMapping` repeats
both passes while it fills cells, so that the second goes over a changed document;
`Shown` re-attaches a saved mapping by label and occurrence; a label that normalises to
nothing (`NoName`) gets no saved choice. Left out are mappings of an older format, without
labels (`settings.py` 303-307): no handler saves them any more. `WorkingDays` and `Rendered`
are what payroll reads. `source` is history: the document the template was made from.
The suggestions of the wizard, merged cells and nested tables are left out.

## Runs

| Run | Instance | Shows |
|---|---|---|
| `cycle_serial` (pass) | `MCPayrollRelease`: two employees, one pay scale, deductions, one handler at a time, a release beside it | handlers that do not overlap refine `CycleLifecycle`; roll-up, payslips and stamps agree; PAID is terminal; APPROVED is locked; whatever batch or retry sent a payslip, it is the one that was paid (`MailedIsPaid`) |
| `cycle_concurrent` (pass) | two employees, one adjustment, two overlapping handlers of any operation, fair | what survives every interleaving: no payment without approval, no PAID payslip without its date, every request ends though requests wait for each other in circles; and what survives until an overtaken request commits: roll-up, stamps and amounts agree, approved and paid figures stay |
| `cycle_terminal` (violation) | one employee, two handlers | a cancel, delete, run or adjustment that read the cycle before it was paid commits after |
| `cycle_left_out` (violation) | one employee, one handler | run, delete the employee, run again, approve, pay: the payslip of the first run is paid |
| `timesheet_serial` (pass) | a working day and a day off, two users, paid and half-day leave, one handler | review freezes the sheet; maker-checker across rejection, reopening and a crash in its middle; aggregates are stale only after an abandoned import row; the grid follows the ledger unless a resync was skipped or lost |
| `leave_serial` (pass) | three requests, two of which overlap, one of half a day; a credit of 2 or 5; one handler | no day granted twice, never overdrawn, segregation of duties, decisions final; an approved day is marked paid exactly if its request is charged, and the balance is the sum of what is charged |
| `payslip_check` (pass) | 5184 drafts: four structures, three salaries, three frequencies, six attendances, three statutory settings, both regimes, with and without deductions and adjustments | balance lines fill the CTC; losing days never pays; adjustments stay aside; pension stays within the employer's share; twelve payslips withhold the progressive tax of a year, lost days or not; the preview is the run's payslip where it can be |
| `payslip_weekly` (violation) | the same | the tax of a WEEKLY payslip is projected from twelve weeks |
| `structures` (pass) | two employees, three rows, two overlapping requests, batches of two in either order and of one employee listed twice | never two active structures; a request nobody overlapped does not fail on the index; no batch, served or failed anywhere, takes a structure away |
| `accounts` (pass) | two companies, addresses, logins, employees, overlapping requests | an address is unique, and an employee has one login, unless requests raced; without a race only the address of former staff makes a request fail |
| `settings` (pass) | five documents, two labels, two tokens, three dates, one request at a time | tokens land in the slots the wizard showed; it re-opens on what was chosen; rates, working days and the layout change only when saved |
| `settings_rates` (violation) | the same | saving the rates resets the calendar and the maker-checker rule |

Bounds. The drafts put incomes below, in and above the bands, a balance line without a
remainder, a reference to a later line, a whole period and one half day more lost.
The limits of the law are divided by a hundred, to keep products within TLC's integers.
Interference between handlers is between pairs: a lost update, a stale guard, a
duplicate insert need two workers and one row, a circle of waiting requests two of each.
The constants of `PayrollCycle` that bound what is asked of it are `Served` (operations),
`Targets` (adjustments), `PayEdits` and `Leavers`: the serial run and the violations take
all operations, edits and leavers. `cycle_concurrent` takes all operations on two payslips,
so that requests can wait in circles, and one adjustment, so that two runs differ; what
structures pay differs between its initial states and then stays. Structures edited and
employees deleted beside overlapping requests are covered by the proofs, which bound
nothing. Where no edits and leavers are allowed, a cycle that is PAID or deleted accepts
nothing any more, so that deadlock is not checked there (`CHECK_DEADLOCK FALSE`): that every
request ends is what `RequestsTerminate` checks. Two employees are needed for partial runs,
roll-ups, and batches that fail half way; three rows for a structure replaced while
another is created; one adjustment for a re-run to differ; two days for a mark and a
leave to be apart; three requests for a clash and a sum; two labels and tokens for a swap.
One release in flight is enough, as releases change nothing others read. The
documents have labels above blanks, pairs in a row, placeholders in a table, a label that
repeats in a line of text, text before the table (which the wizard shows after it), and a
label that normalises to nothing.
No counter is unbounded: requests are filed once, rows inserted once, adjustments are a
set. Employees, rows, users and workers are symmetric in `structures` and `accounts`
(neither has a liveness property). In the serial runs one worker takes one step
after another, but everything that is not a handler of the module (pay, deletions,
closing of the cycle, edits of the leave type, a release) still falls between any two of
its steps.

Fairness. Only `RequestsTerminate` needs it. The event loop keeps running a handler
that was accepted, PostgreSQL looks for circles of waiting transactions, and it queues the
waiters of a row lock, so that a request which finds its row free again and again writes it:
strong fairness of `Proceed`, which differs from weak fairness only for requests that wait
for a row. No request need ever be sent, and none need die.

The properties checked serially are those which overlapping handlers break. While
modelling, `ApprovalLocksPayslips`, `PayslipsAddUp`, `MakerChecker`, `LedgerMatches`
and `NoDoubleLeave` were also found violated with two workers: columns of two runs mix,
two submits swap the maker under an approval, two approvals lose an update, two filings
pass the overlap check. They have the one cause that `cycle_terminal` reports. For the
cycle, `OrderlyUnlessOvertaken` and `SettledUnlessOvertaken` say so; for sheets and leave
no property does, and the hazards concerned say that nothing covers them.

## Proofs

Checked by `tlapm`, for every value of the constants.

*Any number of handlers, any interleaving.*
`TypeCorrect` of the cycle needs that the payslips a run loaded still exist, as rows are
never removed, that the target of an adjustment request is one, and that a request locks the rows
it writes and no others (`TypeInv`);
`LedgerTypeCorrect`, that a handler holds a request in a status its guard accepts;
`TimesheetTypeCorrect`, that the days lost are among those counted, so that the days
worked are never negative. `PaymentNeedsApproval` needs a stronger invariant: a handler in
flight that loaded an APPROVED cycle, and a cycle that is APPROVED or PAID, imply that an
approval was committed. `OverlapOrderly` and `OverlapSettled` rest on `OverlapInv`: types;
the status, roll-up and payslips a request holds are current as long as it was not
overtaken, and so is the roll-up a run is about to store (`Fresh`); the payslips a run
computed add up, whether it was overtaken or not; and, until an overtaken request
commits, the payslips, the roll-up and the stamps of the database agree with the status
(`RowsAgree`). A commit that was not overtaken writes over what it read, whatever the
others hold and in whatever order rows were locked. `PaidSlipsStamped` needs that a run leaves a payslip PAID only
where it was PAID in the database, and removes none. `LeaveApprovedByOther` needs that a
worker approving a request is not its filer, that it loaded an undecided request (so that
its commit writes both status and decider), and that a filed request is never filed again.
`OneActiveStructure` rests on `IInv`: types; the deletion of an employee names one; only a
template being applied has uncommitted rows or has turned rows off; and, of two rows of
one employee that count for the index (`Exclusive`), one replaces the other in the same
transaction, so that nobody ever sees both. `BatchKeepsPay` adds that a transaction has
inserted, or is about to insert, another row for the employee of every row it turned off
(`Replaced`), and that updates and deletions are about committed rows (`Targeted`).
`LoneStructuresServed` adds `Lone`: a request past its check sees no row that would clash
with its write until somebody else commits, since what others insert is theirs alone and
what they turn off only makes clashes fewer.
The theorems about `Accounts` need that
what a request looked up still holds as long as nobody else has committed (`Current`),
and that links stay within the company (`Linked`, `Asked`).

*Handlers served one at a time*, under `Serial == \A v, w \in Workers : v = w`.
For the cycle nothing new is needed: a request alone is never overtaken (`Alone`), so that
no commit strays, and the theorems about roll-up, stamps, `PaidIsTerminal` and
`ApprovalLocksPayslips` are corollaries of those about overlapping requests. So is the
refinement of `CycleLifecycle`: the initial state maps to its initial state, every step to a
step or a stutter. What a run computes is used only through three facts (its gross,
deductions and net). For leave, that the row and the
balance a handler holds are current and the balance it computed is not overdrawn.
`SerialLedgerMatches` needs more (`LedgerInv`): the charged requests are all the approved
ones or, for unpaid leave, none; the days used are their sum; what a handler is about to
write is its own charge upon that sum; and before the first use of the balance no day is
used. One more request in a set adds its days to the sum (`SumTheorems`). For a
sheet: what a handler loaded, checked and computed is current, and a sheet being reopened
is a draft; in review, the stored maker is the last submitter; a day nobody marked holds
what leave may be laid over, or a day off; and such days follow the ledger unless a
resync is owed or was missed.

*The way out of the cycle*, requests on it served one at a time, releases overlapping them
at every step. `SerialMailedIsPaid` rests on `ReleaseInv`: the serial invariant of the
cycle; a release that has read the payslips of a settled cycle (approved, paid or
cancelled) holds those the database holds; one that sends does so of a cycle that is PAID
and not deleted; and what was sent is what is stored. A settled cycle is never run again
and a PAID one stays, so that nothing a release holds goes stale (`CycleSettles`).
`ReleasesOnlyRead`: the composition implements the cycle alone.

*One payslip, any draft* of the types that columns and schemas admit (`Draft`: money,
percentages and the cost to company of a structure may be negative, as no schema refuses
it; rates, days, hours, declarations and adjustments may not), any bands that rise to a
last one without end, any choice of the lost halves of a paisa. A payslip that is there is what
`Payslip` makes of its draft (the lemma `SlipIsComputed`); everything else is a law of the
operators. A fold over lines or bands is taken apart once: some array holds
what the fold has made of the first *i* elements, each entry by one turn from the one before.
`SlipsAreTyped`, `LossStaysLoss` and `PensionStaysWithin` are for structures
without a negative line (`NotNegative`), and do not hold of others: of a negative line,
losing a day pays. `LossStaysLoss` rests on two facts of rounding: it is monotone, and a
lost half of a paisa is never more than half a day costs (`ProrateFalls`).
`YearIsTaxed` shows the loop over the bands to be the sum, band by band, of what lies in it
at its rate, and that twelve rounded months miss it by at most twelve halves of a paisa,
provided no other line carries the code TDS (`OneTds`), as nothing reserves it.
`BalanceReachesCTC`, `AdjustmentsStayAside` and `PreviewShowsRun` hold of every draft.

*The settings.* `SettingsTyped` holds of any interleaving (`TypeInv` adds that a request of
the wizard holds an uploaded document). Served one at a time, the row a handler loaded is
the one it writes over, which gives `SerialSavesOnlyItsOwn`, and the mapping and the
template stay those of one payload of the wizard on the document they were made from
(`MappingInv`). What such a template looks like is a law of `DocTemplate`, for every
document of rows and cells. The first pass never names a place twice and never a line
"Label: value" (`TablePassIs`); the second lists the placeholders and these lines from the
top (`ParagraphPassIs`); the half filled document has lost some placeholders, and none but
those the first pass filled (`HalfIs`). Two listings from the top agree as far as what
they list does (`ListingsAgree`), so that a slot with no filled placeholder before it has
one number in both, and `SerialTokensLand` follows. `SerialReopenShows` counts: the slots of
a label up to one are the saved choices below it and itself (`ChoiceIsShown`).

*Sums.* The prover takes no induction over data that needs an operator as a parameter.
`SumTheorems` states the step as a fact about a set: of the numbers up to *n*, or the
subsets of a finite set, for which a claim fails, there is a least one (`CountUp`,
`SmallestSet`). From it come the laws of `MapThenSumSet` (with one element more, one less,
changed, of natural numbers) and of `FoldLeft` which the proofs about balances and payslips
cite.

The proofs assume `PayrollAssumption`, `NoPayslipAssumption`, `LedgerAssumption`,
`TimesheetAssumption`, `StructureAssumption`, `AccountAssumption` and `SettingsAssumption`
(that stand-ins such as `NoPayslip` are no members of the sets they stand apart from, and
types of parameters), `DocumentsAssumption` (a document is made of cells), and
for payslips `DraftsAssumption`, `CodesAssumption` (the codes the calculation writes are
strings), `PTSlabsAssumption`, `SlabsAssumption` and
`CapsAssumption` (the tables of the law are what the code's are: of natural numbers, up to
a last band without end). TLC evaluates them on every run of the module they are about.

Only model-checked: `RequestsTerminate`, as liveness under fairness is out of the prover's
reach, and the violations. Each theorem listed in `PROJECT.json` with a property proves what the
run of that property checks on a small instance; those with a hypothesis say it in their
statement.

## Known divergences

Four are findings, each a run that TLC violates. The others were met while modelling, and
the properties are worded so as to hold beside them:

- An import row that fails half way has set its day's status, and the commit of a later
  row stores it without the aggregates (`timesheet_service.py` 8-10 against 545-575).
- An absence HR entered by hand on a day is erased when the leave of another day is
  re-applied (`timesheet_service.py` 705-706 against 688-694).
- Cancelling a charged request of a type that has been turned unpaid credits nothing, and
  cancelling an uncharged one of a type turned paid credits days
  (`leave_service.py` 475-477 against 488-489).
- The preview of a structure pro-rates on 30 days whatever the calendar says, and shows an
  hourly structure as a monthly one, though it promises what the next run will produce
  (`payroll_service.py` 353-357).
- The index of a slot is not the same at scan and at apply time when a placeholder in a
  table was filled before it (`docx_service.py` 644-647): `Misses`.
- A saved mapping is re-attached to the wrong slot when an earlier slot of the same label
  was left unmapped (`settings.py` 296-303).
- A slot whose label normalises to nothing (one in another script: only a-z and digits are
  kept) never gets its saved choice back; when all labels are such, the saved mapping is
  taken for one of the older format, and the pair of token and label is put where the token
  belongs (`settings.py` 218-223, 295-307).
- Scanning a new document leaves the template and the mapping of the old one, and the
  settings keep saying that it is mapped.
- A holiday that was deleted can never be created again: the constraint counts it
  (`models/calendar.py` 33-34).
- The bulk e-mail renders the built-in layout, never the company's document
  (`router/payroll.py` 1151), and sends everything again on a retry.
- TDS liabilities count the payslips of every cycle that is not cancelled, paid or not.
- Two logins with one address (`accounts`, a race) lock both out: login expects one row.

## Not modelled

- HOURLY timesheets, whose only aggregate is the sum of their hours; hours and notes.
- Creating and seeding leave types, and with it the second transaction of a sign-up;
  balances of several types (they do not interact).
- What a template contains: data which a structure copies.
- TDS liabilities and challans: an insert, a soft delete and a sum; no step depends on
  another. The audit trail: an insert after each response, read by no other component.
- Reports, PDF, DOCX and e-mail rendering, the frontend, migrations, scripts, and the
  background-job scaffold (no task of payroll is enqueued): I/O and layout over stored rows.

Next, if the development goes on: `LeaveTimesheetRun`, the composition of `LeaveLedger`,
`Timesheet` and a run (a day of approved leave costs the balance or the pay, never both or
none); an abstract review lifecycle which both `Timesheet` and `LeaveLedger` implement.
