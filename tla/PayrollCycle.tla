---------------------------- MODULE PayrollCycle ----------------------------
(***************************************************************************)
(* The life of one payroll cycle: the handlers of app/router/payroll.py    *)
(* and app/services/payroll_service.py that run, approve, pay, cancel and  *)
(* delete it and that edit its adjustments, over the PostgreSQL rows they  *)
(* share.                                                                  *)
(*                                                                         *)
(* A handler owns one AsyncSession.  It reads the cycle in one statement   *)
(* and commits in another, under READ COMMITTED, without row locks or      *)
(* version columns: another worker's commit may fall in between.  So every *)
(* operation is split at its database round trips (Load, Read, WriteRow,   *)
(* Flush, Commit), the worker carrying what it has read; a commit writes   *)
(* the columns whose value differs from the one LOADED, as the ORM does.   *)
(*                                                                         *)
(* Payslips are written one row at a time, each row (or unique key, for an *)
(* insert) locked until the end of the transaction: two requests can wait  *)
(* for each other, and PostgreSQL then aborts one of them.                 *)
(*                                                                         *)
(* Money is abstracted: a structure is worth a gross pay, an adjustment    *)
(* one unit of earnings or of deductions, and at most one adjustment of    *)
(* each kind is live per employee.                                         *)
(***************************************************************************)
EXTENDS Integers, FiniteSets, FiniteSetsExt, Session

CONSTANTS
  Employees,    \* employees of the company
  Workers,      \* requests that may be in flight at the same time
  PayScales,    \* gross pay a payable structure can resolve to
  Targets,      \* bound: adjustments that are entered, <<employee, kind>>
  Served,       \* bound: operations that are requested
  PayEdits,     \* bound: edits of what a structure pays, <<before, after>>
  Leavers,      \* bound: employees who may be deleted
  KeyOrder,     \* order of the primary keys of the employees' payslips
  NoPay,        \* no payable structure: the run reports the employee skipped
  NoPayslip,    \* no payslip row for the employee in this cycle
  NoTotals,     \* the empty roll-up of a cycle that was never run
  NoTarget,     \* the request concerns no adjustment
  NoRow         \* the request has no further payslip row to write

ASSUME PayrollAssumption ==
  /\ IsFiniteSet(Employees)
  /\ PayScales \subseteq Nat
  /\ Targets \subseteq Employees \X {"earning", "deduction"}
  /\ NoPay \notin PayScales
  /\ PayEdits \subseteq (PayScales \cup {NoPay}) \X (PayScales \cup {NoPay})
  /\ Leavers \subseteq Employees
  /\ KeyOrder \subseteq Employees \X Employees
  /\ NoRow \notin Employees

Statuses == {"DRAFT", "PROCESSING", "APPROVED", "PAID", "CANCELLED"}
SlipStatuses == {"PENDING", "PAID"}
CycleOps == {"run", "approve", "pay", "cancel", "delete"}
AdjustmentOps == {"addAdjustment", "deleteAdjustment"}
Ops      == CycleOps \cup AdjustmentOps
Stages   == {"idle", "loaded", "writing", "flushed"}

(***************************************************************************)
(* The amounts of a payslip, one field per column of the table.            *)
(***************************************************************************)
Grosses == PayScales \cup {p + 1 : p \in PayScales}
Amount  == [gross: Grosses, deductions: {0, 1}, net: {g - d : g \in Grosses, d \in {0, 1}}]
ASSUME NoPayslipAssumption == NoPayslip \notin Amount

Slips   == [Employees -> Amount \cup {NoPayslip}]

\* The roll-up of a set of payslips stored in PayrollCycle.totals.
Rollup(slips) ==
  LET paidOut == {e \in Employees : slips[e] # NoPayslip}
      Total(column(_)) == MapThenSumSet(column, paidOut)
  IN  [headcount  |-> Cardinality(paidOut),
       gross      |-> Total(LAMBDA e : slips[e].gross),
       deductions |-> Total(LAMBDA e : slips[e].deductions),
       net        |-> Total(LAMBDA e : slips[e].net)]

Totals  == {Rollup(slips) : slips \in Slips} \cup {NoTotals}

VARIABLES
  \* The payroll_cycles row
  status, deleted, totals,
  \* The payslips rows of the cycle, by employee: amounts, status, paid_at set
  amount, slipStatus, stamped,
  \* Inputs of a run: what the active structure pays, live adjustments of the
  \* cycle, soft-deleted employees
  pay, adjustments, gone,
  \* The request each worker is serving
  req,
  \* History: an approval of this cycle has been committed; the deleted
  \* employees the last committed run left out; the workers whose request was
  \* accepted before some other request on the cycle committed; whether one of
  \* these has committed all the same
  approved, leftOut, overtaken, strayed

cycleVars == <<status, deleted, totals>>
slipVars  == <<amount, slipStatus, stamped>>
inputVars == <<pay, adjustments, gone>>
overlaps  == <<overtaken, strayed>>
history   == <<approved, leftOut, overlaps>>
vars      == <<cycleVars, slipVars, inputVars, req, history>>

(***************************************************************************)
(* What a worker holds: the operation, how far it got, the cycle row as    *)
(* loaded, the payslips as loaded, the payslips it computed (NoPayslip for *)
(* an employee the run skips), the payslips it has locked and the one it   *)
(* writes next, and the roll-up it will store.                             *)
(***************************************************************************)
Request == [op: Ops, at: Stages, status: Statuses, totals: Totals,
            target: Targets \cup {NoTarget},
            old: Slips, oldStatus: [Employees -> SlipStatuses],
            new: Slips, locked: SUBSET Employees, next: Employees \cup {NoRow},
            rollup: Totals]

NoSlips == [e \in Employees |-> NoPayslip]
AllPending == [e \in Employees |-> "PENDING"]

IdleRequest == [op |-> "run", at |-> "idle", status |-> "DRAFT", totals |-> NoTotals,
                target |-> NoTarget, old |-> NoSlips, oldStatus |-> AllPending,
                new |-> NoSlips, locked |-> {}, next |-> NoRow, rollup |-> NoTotals]

TypeOK ==
  /\ status \in Statuses
  /\ deleted \in BOOLEAN
  /\ totals \in Totals
  /\ amount \in Slips
  /\ slipStatus \in [Employees -> SlipStatuses]
  /\ stamped \in [Employees -> BOOLEAN]
  /\ pay \in [Employees -> PayScales \cup {NoPay}]
  /\ adjustments \in SUBSET Targets
  /\ gone \in SUBSET Employees
  /\ req \in [Workers -> Request]
  /\ approved \in BOOLEAN
  /\ leftOut \in SUBSET Employees
  /\ overtaken \in SUBSET Workers
  /\ strayed \in BOOLEAN

\* create_payroll_cycle: a DRAFT cycle with empty totals and no payslips, in a
\* company whose structures pay anything.
Init ==
  /\ status = "DRAFT"
  /\ deleted = FALSE
  /\ totals = NoTotals
  /\ amount = NoSlips
  /\ slipStatus = AllPending
  /\ stamped = [e \in Employees |-> FALSE]
  /\ pay \in [Employees -> PayScales \cup {NoPay}]
  /\ adjustments = {}
  /\ gone = {}
  /\ req = [w \in Workers |-> IdleRequest]
  /\ approved = FALSE
  /\ leftOut = {}
  /\ overtaken = {}
  /\ strayed = FALSE

-----------------------------------------------------------------------------
\* The statuses in which each handler accepts its operation.
Guards == [run      |-> {"DRAFT", "PROCESSING"},
           approve  |-> {"PROCESSING"},
           pay      |-> {"APPROVED"},
           cancel   |-> Statuses \ {"PAID"},
           delete   |-> Statuses \ {"PAID"},
           addAdjustment    |-> {"DRAFT", "PROCESSING"},
           deleteAdjustment |-> {"DRAFT", "PROCESSING"}]

\* Mutants of Accepts: a guard that lets one status too many through.
AcceptsPayUnapproved(op) == [Guards EXCEPT !.pay = @ \cup {"PROCESSING"}][op]
AcceptsCancelPaid(op)    == [Guards EXCEPT !.cancel = @ \cup {"PAID"}][op]
AcceptsRunApproved(op)   == [Guards EXCEPT !.run = @ \cup {"APPROVED"}][op]

Accepts(op) == Guards[op]

(***************************************************************************)
(* _load_cycle and the guard of the handler.  A refused request changes    *)
(* nothing and is not modelled.                                            *)
(***************************************************************************)
Load(w, op, target) ==
  /\ req[w].at = "idle"
  /\ ~deleted
  /\ op \in Served /\ status \in Accepts(op)
  /\ req' = [req EXCEPT ![w] = [IdleRequest EXCEPT !.op = op, !.at = "loaded",
                                   !.status = status, !.totals = totals,
                                   !.target = target]]
  /\ UNCHANGED <<cycleVars, slipVars, inputVars, history>>

LoadCycle(w) == \E op \in CycleOps : Load(w, op, NoTarget)

\* add_cycle_adjustment also requires that the employee is not deleted.
LoadAddAdjustment(w) ==
  \E t \in Targets : t[1] \notin gone /\ Load(w, "addAdjustment", t)

\* delete_adjustment first finds the live adjustment.
LoadDeleteAdjustment(w) ==
  \E t \in Targets : t \in adjustments /\ Load(w, "deleteAdjustment", t)

\* Mutant of Compute: the deductions subtracted twice.
ComputeDeductsTwice(e) ==
  LET gross == pay[e] + (IF <<e, "earning">> \in adjustments THEN 1 ELSE 0)
      cut   == IF <<e, "deduction">> \in adjustments THEN 1 ELSE 0
  IN  [gross |-> gross, deductions |-> cut, net |-> gross - 2 * cut]

(***************************************************************************)
(* compute_payslip, as far as this module distinguishes amounts.           *)
(***************************************************************************)
Compute(e) ==
  LET gross == pay[e] + (IF <<e, "earning">> \in adjustments THEN 1 ELSE 0)
      cut   == IF <<e, "deduction">> \in adjustments THEN 1 ELSE 0
  IN  [gross |-> gross, deductions |-> cut, net |-> gross - cut]

\* A run pays the employees that are not deleted and have a payable structure.
Eligible(e) == e \notin gone /\ pay[e] # NoPay

-----------------------------------------------------------------------------
\* Rows a run inserts, and existing rows in which it writes some column.
Inserts(r) == {e \in Employees : r.new[e] # NoPayslip /\ r.old[e] = NoPayslip}
Resets(r)  == {e \in Employees : /\ r.new[e] # NoPayslip
                                 /\ r.old[e] # NoPayslip
                                 /\ r.oldStatus[e] # "PENDING"}
Updates(r) == {e \in Employees : /\ r.new[e] # NoPayslip
                                 /\ r.old[e] # NoPayslip
                                 /\ r.new[e] # r.old[e]} \cup Resets(r)

\* The rows a request writes: those of a run, or all those a payment has found.
Writes(r) == IF r.op = "pay" THEN {e \in Employees : r.old[e] # NoPayslip}
             ELSE Inserts(r) \cup Updates(r)

(***************************************************************************)
(* The row that may be written next.  The unit of work updates in the      *)
(* order of the primary keys and inserts in the order of an unordered      *)
(* SELECT of the employees; the bulk UPDATE of a payment takes the rows as *)
(* it meets them.                                                          *)
(***************************************************************************)
Upcoming(r) ==
  LET left    == Writes(r) \ r.locked
      updates == IF r.op = "run" THEN left \cap Updates(r) ELSE {}
  IN  IF left = {} THEN {NoRow}
      ELSE {e \in left : e \in updates => \A d \in updates : <<d, e>> \notin KeyOrder}

\* The worker holds r, and has settled which row it writes next.
Proceeds(w, r) ==
  \E row \in Upcoming(r) : req' = [req EXCEPT ![w] = [r EXCEPT !.next = row]]

\* run_payroll, the reads: employees, adjustments, structures, existing payslips.
Read(w) ==
  /\ req[w].op = "run" /\ req[w].at = "loaded"
  /\ Proceeds(w, [req[w] EXCEPT !.at = "writing",
                                !.old = amount,
                                !.oldStatus = slipStatus,
                                !.new = [e \in Employees |->
                                           IF Eligible(e) THEN Compute(e) ELSE NoPayslip]])
  /\ UNCHANGED <<cycleVars, slipVars, inputVars, history>>

\* mark_paid, the bulk UPDATE begins: it will write the payslips committed by now.
FindSlips(w) ==
  /\ req[w].op = "pay" /\ req[w].at = "loaded"
  /\ Proceeds(w, [req[w] EXCEPT !.at = "writing", !.old = amount])
  /\ UNCHANGED <<cycleVars, slipVars, inputVars, history>>

\* Another open transaction has written the row, or inserted its unique key.
WaitsFor(w, v) == v # w /\ req[w].next \in req[v].locked

Blocked(w) == \E v \in Workers : WaitsFor(w, v)

\* The unique constraint on (cycle_id, employee_id) refuses the insert.
Duplicate(w) ==
  /\ req[w].op = "run"
  /\ req[w].next \in Inserts(req[w])
  /\ amount[req[w].next] # NoPayslip

\* One INSERT of the flush, one UPDATE of it, or one row of the bulk UPDATE.
WriteRow(w) ==
  /\ req[w].at = "writing" /\ req[w].next # NoRow
  /\ ~Blocked(w)
  /\ ~Duplicate(w)
  /\ Proceeds(w, [req[w] EXCEPT !.locked = @ \cup {req[w].next}])
  /\ UNCHANGED <<cycleVars, slipVars, inputVars, history>>

\* The payslips after the writes of a run: inserted, or updated column by column.
Flushed(r) ==
  [e \in Employees |->
     IF e \in Inserts(r) THEN r.new[e]
     ELSE IF e \in Updates(r)
     THEN LET old == r.old[e]
              new == r.new[e]
          IN  [gross      |-> Written(amount[e].gross, old.gross, new.gross),
               deductions |-> Written(amount[e].deductions, old.deductions, new.deductions),
               net        |-> Written(amount[e].net, old.net, new.net)]
     ELSE amount[e]]

\* Mutant of Flush: the roll-up of this run's own payslips only.
FlushOwnRollup(w) ==
  /\ req[w].op = "run" /\ req[w].at = "writing" /\ req[w].next = NoRow
  /\ req' = [req EXCEPT ![w].at = "flushed", ![w].rollup = Rollup(req[w].new)]
  /\ UNCHANGED <<cycleVars, slipVars, inputVars, history>>

(***************************************************************************)
(* db.flush() has written every payslip inside the transaction; the        *)
(* roll-up is computed over all payslips of the cycle.  One the session    *)
(* still holds in its identity map ("held", which depends on what has been *)
(* garbage collected) is seen as this session has it in memory, the others *)
(* as the database returns them.                                           *)
(***************************************************************************)
Flush(w) ==
  /\ req[w].op = "run" /\ req[w].at = "writing" /\ req[w].next = NoRow
  /\ \E held \in SUBSET {e \in Employees : req[w].new[e] # NoPayslip} :
       LET seen == [e \in Employees |-> IF e \in held THEN req[w].new[e]
                                        ELSE Flushed(req[w])[e]]
       IN  req' = [req EXCEPT ![w].at = "flushed", ![w].rollup = Rollup(seen)]
  /\ UNCHANGED <<cycleVars, slipVars, inputVars, history>>

-----------------------------------------------------------------------------
\* The end of a transaction: the worker forgets everything it has read, and its
\* locks are released.
Finish(w) ==
  /\ req' = [req EXCEPT ![w] = IdleRequest]
  /\ overtaken' = overtaken \ {w}

\* A commit on the cycle overtakes the requests that are in flight beside it.
Conclude(w) ==
  /\ req' = [req EXCEPT ![w] = IdleRequest]
  /\ overtaken' = {v \in Workers \ {w} : req[v].at # "idle"}
  /\ strayed' = (strayed \/ w \in overtaken)

\* A rollback leaves no trace.
Abort(w) ==
  /\ Finish(w)
  /\ UNCHANGED <<cycleVars, slipVars, inputVars, approved, leftOut, strayed>>

\* IntegrityError at the flush: the session is rolled back.
InsertFails(w) ==
  /\ req[w].at = "writing" /\ req[w].next # NoRow
  /\ ~Blocked(w)
  /\ Duplicate(w)
  /\ Abort(w)

\* w is one of a circle of workers that wait for each other.
Deadlocked(w) ==
  \E circle \in SUBSET Workers :
    /\ w \in circle
    /\ \A v \in circle : /\ \E u \in circle : WaitsFor(v, u)
                         /\ \E u \in circle : WaitsFor(u, v)

\* Mutant of DeadlockFound: nobody looks for circles of waiting transactions.
DeadlockUnseen(w) == FALSE

\* PostgreSQL finds the circle when w has waited for a while, and rolls w back.
DeadlockFound(w) == Deadlocked(w) /\ Abort(w)

\* run_payroll, the commit: the flushed payslips, the roll-up and PROCESSING.
CommitRun(w) ==
  /\ req[w].op = "run" /\ req[w].at = "flushed"
  /\ amount' = Flushed(req[w])
  /\ slipStatus' = [e \in Employees |-> IF e \in Inserts(req[w]) \cup Resets(req[w])
                                        THEN "PENDING" ELSE slipStatus[e]]
  /\ totals' = Written(totals, req[w].totals, req[w].rollup)
  /\ status' = Written(status, req[w].status, "PROCESSING")
  /\ Conclude(w)
  /\ leftOut' = {e \in gone : req[w].new[e] = NoPayslip}
  /\ UNCHANGED <<deleted, stamped, inputVars, approved>>

\* approve_cycle: PROCESSING -> APPROVED.
CommitApprove(w) ==
  /\ req[w].op = "approve" /\ req[w].at = "loaded"
  /\ status' = Written(status, req[w].status, "APPROVED")
  /\ approved' = TRUE
  /\ Conclude(w)
  /\ UNCHANGED <<deleted, totals, slipVars, inputVars, leftOut>>

\* Mutants of CommitPay: the payslips are marked PAID without their date; the payment
\* commits with payslips still to stamp.
CommitPayUndated(w) ==
  /\ req[w].op = "pay" /\ req[w].at = "writing" /\ req[w].next = NoRow
  /\ status' = Written(status, req[w].status, "PAID")
  /\ slipStatus' = [e \in Employees |-> IF e \in req[w].locked THEN "PAID" ELSE slipStatus[e]]
  /\ Conclude(w)
  /\ UNCHANGED <<deleted, totals, amount, stamped, inputVars, approved, leftOut>>

CommitPayPartly(w) ==
  /\ req[w].op = "pay" /\ req[w].at = "writing"
  /\ status' = Written(status, req[w].status, "PAID")
  /\ slipStatus' = [e \in Employees |-> IF e \in req[w].locked THEN "PAID" ELSE slipStatus[e]]
  /\ stamped' = [e \in Employees |-> stamped[e] \/ e \in req[w].locked]
  /\ Conclude(w)
  /\ UNCHANGED <<deleted, totals, amount, inputVars, approved, leftOut>>

(***************************************************************************)
(* mark_paid: the bulk UPDATE has stamped the payslips it found, the cycle *)
(* becomes PAID, one commit.                                               *)
(***************************************************************************)
CommitPay(w) ==
  /\ req[w].op = "pay" /\ req[w].at = "writing" /\ req[w].next = NoRow
  /\ status' = Written(status, req[w].status, "PAID")
  /\ slipStatus' = [e \in Employees |-> IF e \in req[w].locked THEN "PAID" ELSE slipStatus[e]]
  /\ stamped' = [e \in Employees |-> stamped[e] \/ e \in req[w].locked]
  /\ Conclude(w)
  /\ UNCHANGED <<deleted, totals, amount, inputVars, approved, leftOut>>

\* cancel_cycle: any non-PAID status -> CANCELLED.
CommitCancel(w) ==
  /\ req[w].op = "cancel" /\ req[w].at = "loaded"
  /\ status' = Written(status, req[w].status, "CANCELLED")
  /\ Conclude(w)
  /\ UNCHANGED <<deleted, totals, slipVars, inputVars, approved, leftOut>>

\* delete_payroll_cycle: soft delete, the status is kept.
CommitDelete(w) ==
  /\ req[w].op = "delete" /\ req[w].at = "loaded"
  /\ deleted' = TRUE
  /\ Conclude(w)
  /\ UNCHANGED <<status, totals, slipVars, inputVars, approved, leftOut>>

\* A commit that leaves the cycle and its payslips alone overtakes nobody.
Aside(w) == Finish(w) /\ strayed' = (strayed \/ w \in overtaken)

CommitAddAdjustment(w) ==
  \E t \in Targets :
    /\ req[w].op = "addAdjustment" /\ req[w].at = "loaded" /\ req[w].target = t
    /\ adjustments' = adjustments \cup {t}
    /\ Aside(w)
    /\ UNCHANGED <<cycleVars, slipVars, pay, gone, approved, leftOut>>

CommitDeleteAdjustment(w) ==
  \E t \in Targets :
    /\ req[w].op = "deleteAdjustment" /\ req[w].at = "loaded" /\ req[w].target = t
    /\ adjustments' = adjustments \ {t}
    /\ Aside(w)
    /\ UNCHANGED <<cycleVars, slipVars, pay, gone, approved, leftOut>>

(***************************************************************************)
(* A request dies before its commit: a database error, a worker killed at  *)
(* the gunicorn timeout.  The transaction rolls back.                      *)
(***************************************************************************)
Rollback(w) ==
  /\ req[w].at # "idle"
  /\ Abort(w)

-----------------------------------------------------------------------------
\* Structures are created, edited and deactivated, and timesheets approved or
\* reopened, by other handlers at any time (a structure can be created for a
\* deleted employee: the handler does not look).
ChangePay(e, edit) ==
  /\ pay[e] = edit[1]
  /\ pay' = [pay EXCEPT ![e] = edit[2]]
  /\ UNCHANGED <<cycleVars, slipVars, adjustments, gone, req, history>>

\* delete_employee: the soft delete and the deactivation of the employee's
\* structures are one transaction.
DeleteEmployee(e) ==
  /\ e \notin gone
  /\ gone' = gone \cup {e}
  /\ pay' = [pay EXCEPT ![e] = NoPay]
  /\ UNCHANGED <<cycleVars, slipVars, adjustments, req, history>>

\* What handlers of other components do beside the requests on the cycle.
Elsewhere ==
  \/ \E e \in Employees, edit \in PayEdits : ChangePay(e, edit)
  \/ \E e \in Leavers : DeleteEmployee(e)

\* The steps a worker owes once it has accepted a request.
Proceed(w) ==
  \/ Read(w) \/ FindSlips(w) \/ WriteRow(w) \/ InsertFails(w) \/ DeadlockFound(w) \/ Flush(w)
  \/ CommitRun(w) \/ CommitApprove(w) \/ CommitPay(w) \/ CommitCancel(w)
  \/ CommitDelete(w) \/ CommitAddAdjustment(w) \/ CommitDeleteAdjustment(w)

Accept(w) == LoadCycle(w) \/ LoadAddAdjustment(w) \/ LoadDeleteAdjustment(w)

Next ==
  \/ \E w \in Workers : Accept(w) \/ Proceed(w) \/ Rollback(w)
  \/ Elsewhere

Spec == Init /\ [][Next]_vars

(***************************************************************************)
(* The event loop keeps running an accepted handler, and PostgreSQL queues *)
(* the waiters of a row lock, so that a request which finds its row free   *)
(* again and again writes it (strong fairness; every other step stays      *)
(* enabled until it is taken, or until the circle the request waits in is  *)
(* broken elsewhere).  Nothing obliges a client to send a request.         *)
(***************************************************************************)
FairSpec ==
  /\ Spec
  /\ \A w \in Workers : SF_req(Proceed(w))

-----------------------------------------------------------------------------
(***************************************************************************)
(* Properties.                                                             *)
(***************************************************************************)

\* README "Payroll Lifecycle": a PAID cycle is terminal.  No later step changes
\* its row, its payslips (amounts, status, paid_at) or its adjustments: every
\* handler that could refuses a PAID cycle.
PaidIsTerminal ==
  [][status = "PAID" => UNCHANGED <<cycleVars, slipVars, adjustments>>]_vars

\* approve_cycle "locks payslips from re-run": what was approved is what is
\* stored, and what will be paid, until the cycle is cancelled or deleted.
ApprovalLocksPayslips ==
  [][status = "APPROVED" => UNCHANGED <<amount, totals, adjustments>>]_vars

\* The handlers implement the README's lifecycle: each commit is one of its steps,
\* everything else a stutter.
Lifecycle == INSTANCE CycleLifecycle
             WITH phase    <- IF deleted THEN "DELETED" ELSE status,
                  slips    <- amount,
                  released <- {e \in Employees : stamped[e]}

\* Served one at a time, the handlers take only the steps of that lifecycle.
ImplementsLifecycle == Lifecycle!LifecycleSpec

\* The roll-up stored in the cycle is the roll-up of the payslips stored for it,
\* after every run, partial re-run and payment: dashboards and reports read the
\* former, employees are paid the latter.
TotalsMatchPayslips ==
  \/ totals = Rollup(amount)
  \/ totals = NoTotals /\ amount = NoSlips

\* Payslips are stamped PAID exactly with their cycle: none is left PENDING in a
\* PAID cycle, and none is PAID in a cycle that was not disbursed.
StampedWithCycle ==
  \A e \in Employees :
    LET released == amount[e] # NoPayslip /\ status = "PAID"
    IN  /\ slipStatus[e] = "PAID" <=> released
        /\ stamped[e] <=> released

\* delete_employee: the structures are deactivated so that the employee is
\* "excluded from future runs".  A deleted employee whom the last run of the cycle
\* left out is not paid by the cycle.
LeftOutNotPaid ==
  [][\A e \in leftOut : stamped'[e] => stamped[e]]_vars

\* No money leaves without an approval: whatever the interleaving of requests, a
\* cycle is PAID and a payslip stamped only after an approve_cycle committed.
NoPaymentWithoutApproval ==
  (status = "PAID" \/ \E e \in Employees : stamped[e]) => approved

\* A payslip marked PAID carries its payment date, whatever the interleaving of
\* runs that reset its status and payments that set it.
PaidSlipsAreStamped ==
  \A e \in Employees : slipStatus[e] = "PAID" => stamped[e] /\ amount[e] # NoPayslip

\* compute_payslip, step 6: net = gross - deductions, in every stored payslip.
PayslipsAddUp ==
  \A e \in Employees :
    amount[e] # NoPayslip => amount[e].net = amount[e].gross - amount[e].deductions

\* Requests that overlap do no harm by themselves: the roll-up, the stamps and the
\* columns of the payslips agree until a request commits although another one on the
\* cycle committed since it was accepted.  A status checked and overwritten later, the
\* roll-up of payslips read earlier, the columns two runs write go wrong in no other
\* way: refusing such a commit would rule them all out.
OrderlyUnlessOvertaken ==
  strayed \/ (TotalsMatchPayslips /\ StampedWithCycle /\ PayslipsAddUp)

\* Nor is an approved or paid cycle changed by an overlap in any other way: a step that
\* writes what was approved, or a PAID cycle, is the commit of an overtaken request.
SettledUnlessOvertaken ==
  [][~strayed' =>
       /\ status = "PAID" => UNCHANGED <<cycleVars, slipVars, adjustments>>
       /\ status = "APPROVED" => UNCHANGED <<amount, totals, adjustments>>]_vars

\* Every accepted request ends (committed or rolled back), although runs and payments
\* hold the rows they have written while they wait for the next, and two of them may
\* wait for each other.
RequestsTerminate ==
  \A w \in Workers : req[w].at # "idle" ~> req[w].at = "idle"
=============================================================================
