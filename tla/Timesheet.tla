------------------------------ MODULE Timesheet ------------------------------
(***************************************************************************)
(* One employee's timesheet for one payroll cycle: the handlers of         *)
(* app/services/timesheet_service.py that generate, edit, import, review,  *)
(* reopen it and re-apply leave to it.  The leave ledger is seen through   *)
(* the days its APPROVED requests cover.                                   *)
(*                                                                         *)
(* A handler loads the sheet with its entries in one session and commits   *)
(* later; Session!Written says what a commit stores.  The model is that of *)
(* an ATTENDANCE sheet: hours and notes are left out.  Aggregates count    *)
(* half days, so that they are integers.                                   *)
(***************************************************************************)
EXTENDS Integers, FiniteSets, Session

CONSTANTS
  Days,         \* calendar days of the cycle's period
  OffDays,      \* those that are weekly-offs or holidays
  Elapsed,      \* those that are not in the future
  Users,        \* people who submit and review
  Workers,      \* requests that may be in flight at the same time
  Marks,        \* day statuses HR enters
  LeaveKinds,   \* day statuses an approved leave stamps
  EnforceMakerChecker,   \* the company's segregation-of-duties setting
  NoUser,       \* no actor recorded
  NoLeave       \* no approved leave on the day

NonWorking  == {"WEEKLY_OFF", "HOLIDAY"}
LeaveLocked == {"PAID_LEAVE", "UNPAID_LEAVE", "HALF_DAY", "HALF_DAY_PAID"}
LeaveOverlay == LeaveLocked \cup {"PRESENT"}
SelfMarkable == {"PRESENT", "WFH"}
Imported    == {"PRESENT", "WFH", "HALF_DAY", "UNPAID_LEAVE"}
DayStatuses == LeaveOverlay \cup SelfMarkable \cup NonWorking

Editable    == {"DRAFT", "REJECTED"}
States      == Editable \cup {"SUBMITTED", "APPROVED"}

ASSUME TimesheetAssumption ==
  /\ IsFiniteSet(Days) /\ OffDays \subseteq Days /\ Elapsed \subseteq Days
  /\ Marks \subseteq DayStatuses /\ LeaveKinds \subseteq LeaveLocked
  /\ EnforceMakerChecker \in BOOLEAN
  /\ NoUser \notin Users
  /\ NoLeave \notin LeaveKinds

Grids  == [Days -> DayStatuses]
Ledger == [Days -> LeaveKinds \cup {NoLeave}]

\* Mutant of Recompute: whole days and half days mixed.
RecomputeMixesUnits(grid) ==
  LET On(statuses) == Cardinality({d \in Days : grid[d] \in statuses})
      lop == 2 * On({"UNPAID_LEAVE"}) + On({"HALF_DAY"})
  IN  [lop    |-> lop,
       halves |-> On({"HALF_DAY", "HALF_DAY_PAID"}),
       worked |-> On(DayStatuses \ NonWorking) - lop]

(***************************************************************************)
(* recompute_aggregates, in half days.                                     *)
(***************************************************************************)
Recompute(grid) ==
  LET On(statuses) == Cardinality({d \in Days : grid[d] \in statuses})
      lop == 2 * On({"UNPAID_LEAVE"}) + On({"HALF_DAY"})
  IN  [lop    |-> lop,
       halves |-> On({"HALF_DAY", "HALF_DAY_PAID"}),
       worked |-> 2 * On(DayStatuses \ NonWorking) - lop]

Sums == [lop : Nat, halves : Nat, worked : Nat]

\* A row of the timesheets table with its entries.
Sheet == [state: States, grid: Grids, sums: Sums,
          maker: Users \cup {NoUser}, checker: Users \cup {NoUser}]

VARIABLES
  exists,   \* the sheet has been generated
  sheet,    \* its row and entries
  cycle,    \* its cycle: "open" (DRAFT, PROCESSING), "closed" or "deleted"
  leave,    \* the leave ledger, by day
  req,      \* what each worker is doing
  \* History: who sent the last committed submit; the days last set by hand or by an
  \* import; an abandoned import row was stored; a decided leave did not reach the sheet
  submitter, manual, skewed, missed

history == <<submitter, manual, skewed, missed>>
vars    == <<exists, sheet, cycle, leave, req, history>>

Ops    == {"generate", "edit", "mark", "import", "submit", "approve", "reject", "reopen", "resync"}
Stages == {"idle", "owed", "loaded", "reopened", "reloaded"}

\* What a worker holds: the sheet as loaded, and the grid it computed from leave.
Request == [op: Ops, at: Stages, actor: Users \cup {NoUser}, old: Sheet, target: Grids]

BlankGrid  == [d \in Days |-> "PRESENT"]
BlankSheet == [state |-> "DRAFT", grid |-> BlankGrid, sums |-> Recompute(BlankGrid),
               maker |-> NoUser, checker |-> NoUser]
Idle == [op |-> "edit", at |-> "idle", actor |-> NoUser, old |-> BlankSheet, target |-> BlankGrid]

TypeOK ==
  /\ exists \in BOOLEAN
  /\ sheet \in Sheet
  /\ cycle \in {"open", "closed", "deleted"}
  /\ leave \in Ledger
  /\ req \in [Workers -> Request]
  /\ submitter \in Users \cup {NoUser}
  /\ manual \in SUBSET Days
  /\ skewed \in BOOLEAN
  /\ missed \in BOOLEAN

Init ==
  /\ exists = FALSE
  /\ sheet = BlankSheet
  /\ cycle = "open"
  /\ leave = [d \in Days |-> NoLeave]
  /\ req = [w \in Workers |-> Idle]
  /\ submitter = NoUser
  /\ manual = {}
  /\ skewed = FALSE
  /\ missed = FALSE

-----------------------------------------------------------------------------
\* Mutant of From: a sheet under review can still be edited.
FromReviewToo(op) ==
  CASE op \in {"edit", "mark", "import", "submit", "resync"} -> Editable \cup {"SUBMITTED"}
    [] op \in {"approve", "reject"} -> {"SUBMITTED"}
    [] op = "reopen" -> {"SUBMITTED", "APPROVED"}

\* Statuses from which each operation starts, and cycles it is refused in.
\* Transitions never look at the cycle; an import only needs it not to be deleted.
From(op) ==
  CASE op \in {"edit", "mark", "import", "submit", "resync"} -> Editable
    [] op \in {"approve", "reject"} -> {"SUBMITTED"}
    [] op = "reopen" -> {"SUBMITTED", "APPROVED"}

CycleFor(op) ==
  CASE op \in {"edit", "mark", "resync"} -> {"open"}
    [] op = "import" -> {"open", "closed"}
    [] op \in {"submit", "approve", "reject", "reopen"} -> {"open", "closed", "deleted"}

Hold(w, r) == req' = [req EXCEPT ![w] = r]
Finish(w)  == Hold(w, Idle)

\* The guards of a handler, on the sheet and the cycle it loads.
Load(w, op, actor) ==
  /\ req[w].at = "idle"
  /\ exists
  /\ sheet.state \in From(op)
  /\ cycle \in CycleFor(op)
  /\ Hold(w, [Idle EXCEPT !.op = op, !.at = "loaded", !.actor = actor, !.old = sheet])
  /\ UNCHANGED <<exists, sheet, cycle, leave, history>>

LoadEdit(w) == \E op \in {"edit", "mark", "import"} : Load(w, op, NoUser)

LoadReview(w) == \E op \in {"submit", "reject", "reopen"}, u \in Users : Load(w, op, u)

\* Mutant of LoadApprove: no segregation of duties.
LoadApproveByAnyone(w) == \E u \in Users : Load(w, "approve", u)

\* approve: with segregation of duties on, the submitter may not approve.
LoadApprove(w) ==
  \E u \in Users : ~(EnforceMakerChecker /\ sheet.maker = u) /\ Load(w, "approve", u)

-----------------------------------------------------------------------------
\* What a commit stores: every column, and every entry, that changed since loaded.
WriteBack(old, new) ==
  sheet' = [state   |-> Written(sheet.state, old.state, new.state),
            grid    |-> [d \in Days |-> Written(sheet.grid[d], old.grid[d], new.grid[d])],
            sums    |-> [lop    |-> Written(sheet.sums.lop, old.sums.lop, new.sums.lop),
                         halves |-> Written(sheet.sums.halves, old.sums.halves, new.sums.halves),
                         worked |-> Written(sheet.sums.worked, old.sums.worked, new.sums.worked)],
            maker   |-> Written(sheet.maker, old.maker, new.maker),
            checker |-> Written(sheet.checker, old.checker, new.checker)]

\* Mutant of Regridded: the aggregates are not recomputed.
RegriddedStale(old, grid) == [old EXCEPT !.grid = grid]

\* A loaded sheet after edits to its grid.
Regridded(old, grid) == [old EXCEPT !.grid = grid, !.sums = Recompute(grid)]

Committing(w, op) == req[w].op = op /\ req[w].at = "loaded"

\* bulk_update_entries, one day at a time: any status on any day.
CommitEdit(w) ==
  /\ Committing(w, "edit")
  /\ \E d \in Days, m \in Marks :
       LET old == req[w].old
       IN  /\ WriteBack(old, Regridded(old, [old.grid EXCEPT ![d] = m]))
           /\ manual' = manual \cup {d}
  /\ Finish(w)
  /\ UNCHANGED <<exists, cycle, leave, submitter, skewed, missed>>

\* self_mark_entries: not a future day, not a day of approved leave; a day off is
\* passed over, and the aggregates are recomputed all the same.
CommitMark(w) ==
  /\ Committing(w, "mark")
  /\ \E d \in Elapsed, m \in SelfMarkable :
       LET old == req[w].old
       IN  /\ old.grid[d] \notin LeaveLocked
           /\ IF old.grid[d] \in NonWorking
              THEN /\ WriteBack(old, Regridded(old, old.grid))
                   /\ UNCHANGED manual
              ELSE /\ WriteBack(old, Regridded(old, [old.grid EXCEPT ![d] = m]))
                   /\ manual' = manual \cup {d}
  /\ Finish(w)
  /\ UNCHANGED <<exists, cycle, leave, submitter, skewed, missed>>

(***************************************************************************)
(* import_attendance: the rows of a file that concern this sheet, on       *)
(* working days without leave.  A row abandoned half way (bad punch times, *)
(* bad hours) has already set its day's status, but only completed rows    *)
(* make the sheet "touched" and recompute it.  Whatever the session holds  *)
(* is committed if a row of the file completed, on this sheet or another.  *)
(***************************************************************************)
CommitImport(w) ==
  /\ Committing(w, "import")
  /\ \E d \in Days, m \in Imported, completed, touchesOthers \in BOOLEAN :
       LET old  == req[w].old
           grid == [old.grid EXCEPT ![d] = m]
       IN  /\ old.grid[d] \notin LeaveLocked \cup NonWorking
           /\ completed \/ touchesOthers
           /\ WriteBack(old, IF completed THEN Regridded(old, grid) ELSE [old EXCEPT !.grid = grid])
           /\ manual' = manual \cup {d}
           /\ skewed' = (skewed \/ ~completed)
  /\ Finish(w)
  /\ UNCHANGED <<exists, cycle, leave, submitter, missed>>

CommitSubmit(w) ==
  /\ Committing(w, "submit")
  /\ WriteBack(req[w].old, [req[w].old EXCEPT !.state = "SUBMITTED", !.maker = req[w].actor])
  /\ submitter' = req[w].actor
  /\ Finish(w)
  /\ UNCHANGED <<exists, cycle, leave, manual, skewed, missed>>

CommitApprove(w) ==
  /\ Committing(w, "approve")
  /\ WriteBack(req[w].old, [req[w].old EXCEPT !.state = "APPROVED", !.checker = req[w].actor])
  /\ Finish(w)
  /\ UNCHANGED <<exists, cycle, leave, history>>

CommitReject(w) ==
  /\ Committing(w, "reject")
  /\ WriteBack(req[w].old, [req[w].old EXCEPT !.state = "REJECTED"])
  /\ Finish(w)
  /\ UNCHANGED <<exists, cycle, leave, history>>

\* reopen is two transactions: the status first ...
CommitReopen(w) ==
  /\ Committing(w, "reopen")
  /\ WriteBack(req[w].old, [req[w].old EXCEPT !.state = "DRAFT"])
  /\ Hold(w, [req[w] EXCEPT !.at = "reopened"])
  /\ UNCHANGED <<exists, cycle, leave, history>>

\* ... then the sheet is loaded again ...
Reload(w) ==
  /\ req[w].op = "reopen" /\ req[w].at = "reopened"
  /\ Hold(w, [req[w] EXCEPT !.at = "reloaded", !.old = sheet])
  /\ UNCHANGED <<exists, sheet, cycle, leave, history>>

\* ... and the stamps of its submission and approval are cleared.
ClearStamps(w) ==
  /\ req[w].op = "reopen" /\ req[w].at = "reloaded"
  /\ WriteBack(req[w].old, [req[w].old EXCEPT !.maker = NoUser, !.checker = NoUser])
  /\ Finish(w)
  /\ UNCHANGED <<exists, cycle, leave, history>>

-----------------------------------------------------------------------------
\* Mutant of Overlay: a day that lost its leave keeps its status.
OverlayNeverReverts(grid, ledger) ==
  [d \in Days |-> IF grid[d] \in LeaveOverlay /\ ledger[d] # NoLeave THEN ledger[d] ELSE grid[d]]

\* The days of approved leave laid over a grid; days off and other statuses stay.
Overlay(grid, ledger) ==
  [d \in Days |-> IF grid[d] \notin LeaveOverlay THEN grid[d]
                  ELSE IF ledger[d] # NoLeave THEN ledger[d] ELSE "PRESENT"]

\* _seed_entries: days off first, then approved leave, then PRESENT.
Seed(ledger) ==
  Overlay([d \in Days |-> IF d \in OffDays THEN "WEEKLY_OFF" ELSE "PRESENT"], ledger)

\* generate_for_cycle, for an employee without a sheet who has an active structure.
LoadGenerate(w) ==
  /\ req[w].at = "idle"
  /\ cycle # "deleted"
  /\ ~exists
  /\ Hold(w, [Idle EXCEPT !.op = "generate", !.at = "loaded", !.target = Seed(leave)])
  /\ UNCHANGED <<exists, sheet, cycle, leave, history>>

\* The unique constraint on (cycle_id, employee_id) makes the later insert fail.
CommitGenerate(w) ==
  /\ Committing(w, "generate")
  /\ sheet' = IF exists THEN sheet ELSE Regridded(BlankSheet, req[w].target)
  /\ exists' = TRUE
  /\ Finish(w)
  /\ UNCHANGED <<cycle, leave, history>>

\* A leave request is approved or cancelled (one commit of leave_service); the same
\* HTTP request then owes a resync of the sheet, in further transactions.
DecideLeave(w) ==
  /\ req[w].at = "idle"
  /\ \E d \in Days, kind \in LeaveKinds \cup {NoLeave} :
       kind # leave[d] /\ leave' = [leave EXCEPT ![d] = kind]
  /\ Hold(w, [Idle EXCEPT !.op = "resync", !.at = "owed"])
  /\ UNCHANGED <<exists, sheet, cycle, history>>

\* resync_leave loads an editable sheet of an open cycle and the ledger ...
LoadResync(w) ==
  /\ req[w].op = "resync" /\ req[w].at = "owed"
  /\ exists /\ sheet.state \in From("resync") /\ cycle \in CycleFor("resync")
  /\ Hold(w, [req[w] EXCEPT !.at = "loaded", !.old = sheet,
                            !.target = Overlay(sheet.grid, leave)])
  /\ UNCHANGED <<exists, sheet, cycle, leave, history>>

\* ... or leaves the sheet alone: the request ends without a resync.
SkipResync(w) ==
  /\ req[w].op = "resync" /\ req[w].at = "owed"
  /\ ~(exists /\ sheet.state \in From("resync") /\ cycle \in CycleFor("resync"))
  /\ missed' = (missed \/ exists)
  /\ Finish(w)
  /\ UNCHANGED <<exists, sheet, cycle, leave, submitter, manual, skewed>>

\* Nothing is written, and nothing recomputed, when the grid is already right.
CommitResync(w) ==
  /\ Committing(w, "resync")
  /\ LET old == req[w].old
     IN  WriteBack(old, IF req[w].target = old.grid THEN old ELSE Regridded(old, req[w].target))
  /\ missed' = FALSE
  /\ manual' = {d \in manual : req[w].target[d] = req[w].old.grid[d]}
  /\ Finish(w)
  /\ UNCHANGED <<exists, cycle, leave, submitter, skewed>>

\* A request dies between its transactions, or before its commit.
Rollback(w) ==
  /\ req[w].at # "idle"
  /\ missed' = (missed \/ (exists /\ req[w].op = "resync"))
  /\ Finish(w)
  /\ UNCHANGED <<exists, sheet, cycle, leave, submitter, manual, skewed>>

\* Other handlers approve, pay, cancel or delete the cycle.
CloseCycle ==
  /\ \/ cycle = "open" /\ cycle' \in {"closed", "deleted"}
     \/ cycle = "closed" /\ cycle' = "deleted"
  /\ UNCHANGED <<exists, sheet, leave, req, history>>

Start(w) == LoadEdit(w) \/ LoadReview(w) \/ LoadApprove(w) \/ LoadGenerate(w) \/ DecideLeave(w)

Proceed(w) ==
  \/ CommitEdit(w) \/ CommitMark(w) \/ CommitImport(w) \/ CommitSubmit(w)
  \/ CommitApprove(w) \/ CommitReject(w) \/ CommitReopen(w) \/ Reload(w) \/ ClearStamps(w)
  \/ CommitGenerate(w) \/ LoadResync(w) \/ SkipResync(w) \/ CommitResync(w)

Next ==
  \/ \E w \in Workers : Start(w) \/ Proceed(w) \/ Rollback(w)
  \/ CloseCycle

Spec == Init /\ [][Next]_vars

-----------------------------------------------------------------------------
(***************************************************************************)
(* Properties.                                                             *)
(***************************************************************************)

\* What a checker approves, and what a run reads, is what was submitted: from the
\* submission until the sheet is reopened or rejected, no edit, import, self-mark
\* or leave decision changes its days or its loss of pay.
ReviewedIsFrozen ==
  [][sheet.state \in {"SUBMITTED", "APPROVED"} => UNCHANGED <<sheet.grid, sheet.sums>>]_vars

\* Segregation of duties: an APPROVED sheet was approved by somebody other than the
\* user whose submission it is, across rejections, reopenings and resubmissions.
MakerChecker ==
  EnforceMakerChecker /\ sheet.state = "APPROVED" =>
    sheet.checker \in Users /\ sheet.checker # submitter

\* A run reads the cached aggregates without walking the entries.  They part from the
\* entries in one way only: an import stored a row it had abandoned half way.
StaleOnlyByImport == sheet.sums # Recompute(sheet.grid) => skewed

\* The days nobody marked by hand show the leave ledger, and PRESENT without leave, in
\* every state of the sheet, unless the resync of a decided leave was skipped (sheet in
\* review, cycle closed) or lost (the request died between its two transactions).
GridFollowsLeave ==
  exists /\ ~missed /\ (\A w \in Workers : req[w].at = "idle") =>
    \A d \in Days \ manual :
      \/ sheet.grid[d] = IF leave[d] # NoLeave THEN leave[d] ELSE "PRESENT"
      \/ d \in OffDays /\ sheet.grid[d] = "WEEKLY_OFF"
=============================================================================
