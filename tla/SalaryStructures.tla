--------------------------- MODULE SalaryStructures ---------------------------
(***************************************************************************)
(* The salary structures of a company's employees and the template they    *)
(* are generated from: the /structures and /templates handlers of          *)
(* app/router/payroll.py, payroll_service.apply_template and the soft      *)
(* delete of an employee.                                                  *)
(*                                                                         *)
(* A handler reads, then commits; the reads that precede a write are one   *)
(* step.  apply_template serves its assignments one by one inside one      *)
(* transaction: the rows it has flushed are in the table, marked with      *)
(* their writer, and seen by nobody else before the commit.                *)
(***************************************************************************)
EXTENDS Naturals, Sequences, FiniteSets, Session

CONSTANTS
  Employees,    \* employees of the company
  Rows,         \* salary_structures rows that may be inserted, each once
  Workers,      \* requests that may be in flight at the same time
  Batches,      \* lists of employees a template is applied to
  NoEmployee,   \* the row has not been inserted; the request concerns nobody
  NoWorker,     \* the row is committed
  NoRow         \* the request concerns no row

ASSUME StructureAssumption ==
  /\ NoEmployee \notin Employees
  /\ NoWorker \notin Workers
  /\ NoRow \notin Rows
  /\ Batches \subseteq Seq(Employees)

Ops    == {"create", "update", "delete", "fire", "apply"}
Stages == {"idle", "loaded", "inserting"}

VARIABLES
  owner, active, live,         \* the rows: employee, is_active, deleted_at unset
  writer,                      \* the request whose transaction inserted the row
  gone,                        \* soft-deleted employees
  applicable,                  \* the template is not deleted
  req                          \* what each worker is doing

rows == <<owner, active, live, writer>>
vars == <<rows, gone, applicable, req>>

(***************************************************************************)
(* What a worker holds: the row and the is_active it loaded, the is_active *)
(* asked for, the assignments still to serve, the rows its transaction has *)
(* deactivated, and whether another request has committed since its first  *)
(* read.                                                                   *)
(***************************************************************************)
Request == [op: Ops, at: Stages, employee: Employees \cup {NoEmployee}, row: Rows \cup {NoRow},
            was: BOOLEAN, asked: BOOLEAN, replace: BOOLEAN, todo: Seq(Employees),
            off: SUBSET Rows, met: BOOLEAN]

Idle == [op |-> "delete", at |-> "idle", employee |-> NoEmployee, row |-> NoRow,
         was |-> FALSE, asked |-> FALSE, replace |-> FALSE, todo |-> <<>>,
         off |-> {}, met |-> FALSE]

TypeOK ==
  /\ owner \in [Rows -> Employees \cup {NoEmployee}]
  /\ active \in [Rows -> BOOLEAN] /\ live \in [Rows -> BOOLEAN]
  /\ writer \in [Rows -> Workers \cup {NoWorker}]
  /\ gone \in SUBSET Employees
  /\ applicable \in BOOLEAN
  /\ req \in [Workers -> Request]

Init ==
  /\ owner = [r \in Rows |-> NoEmployee]
  /\ active = [r \in Rows |-> FALSE] /\ live = [r \in Rows |-> FALSE]
  /\ writer = [r \in Rows |-> NoWorker]
  /\ gone = {}
  /\ applicable = TRUE
  /\ req = [w \in Workers |-> Idle]

-----------------------------------------------------------------------------
\* The rows a transaction of w sees: the committed ones and its own.
Visible(w) == {r \in Rows : owner[r] # NoEmployee /\ writer[r] \in {NoWorker, w}}

\* The rows the one-active checks select, as the transaction of w sees them.
ActiveFor(w, e) == {r \in Visible(w) \ req[w].off : owner[r] = e /\ active[r] /\ live[r]}

\* What everybody else sees of an employee: the active structures that are committed.
Paying(e) == {r \in Rows : owner[r] = e /\ active[r] /\ live[r] /\ writer[r] = NoWorker}

\* A write of row r, or an insert for e, waits for a transaction that has changed it.
RowLocked(w, r) == \E v \in Workers \ {w} : r \in req[v].off
KeyLocked(w, e) ==
  \E v \in Workers \ {w} : \E r \in Rows : owner[r] = e /\ (r \in req[v].off \/ writer[r] = v)

\* Mutant of Refused: is_active is set by an update without looking for another row.
RefusedOnCreateOnly(w) ==
  /\ req[w].op = "create" /\ req[w].asked
  /\ ActiveFor(w, req[w].employee) # {}

\* idx_active_salary_structure: one row per employee with is_active and no deleted_at.
\* The write the request is about to make would be a second one.
Refused(w) ==
  CASE req[w].op = "create" -> req[w].asked /\ ActiveFor(w, req[w].employee) # {}
    [] req[w].op = "update" ->
         /\ req[w].asked /\ ~req[w].was /\ live[req[w].row]
         /\ ActiveFor(w, owner[req[w].row]) \ {req[w].row} # {}
    [] req[w].op = "apply"  -> req[w].at = "inserting" /\ ActiveFor(w, req[w].employee) # {}
    [] OTHER -> FALSE

\* A read, or a flush: only the worker's own request changes.
Hold(w, held) == req' = [req EXCEPT ![w] = held]

\* A commit: the request is over, and the others in flight have met one.
Finish(w) ==
  req' = [v \in Workers |-> IF v = w THEN Idle
                            ELSE [req[v] EXCEPT !.met = req[v].at # "idle"]]

-----------------------------------------------------------------------------
\* create_salary_structure: an active one is refused when the employee has one.
LoadCreate(w) ==
  \E e \in Employees, asked \in BOOLEAN :
    /\ req[w].at = "idle"
    /\ asked => ActiveFor(w, e) = {}
    /\ Hold(w, [Idle EXCEPT !.op = "create", !.at = "loaded", !.employee = e, !.asked = asked])
    /\ UNCHANGED <<rows, gone, applicable>>

\* Mutant of LoadUpdate: a structure is reactivated without looking for another one.
LoadUpdateUnchecked(w) ==
  \E r \in Visible(w), asked \in BOOLEAN :
    /\ req[w].at = "idle" /\ live[r]
    /\ Hold(w, [Idle EXCEPT !.op = "update", !.at = "loaded", !.row = r,
                            !.was = active[r], !.asked = asked])
    /\ UNCHANGED <<rows, gone, applicable>>

\* update_salary_structure: likewise when it turns an inactive structure on.  (A
\* request that leaves is_active out asks for what it loaded.)
LoadUpdate(w) ==
  \E r \in Visible(w), asked \in BOOLEAN :
    /\ req[w].at = "idle" /\ live[r]
    /\ asked /\ ~active[r] => ActiveFor(w, owner[r]) \ {r} = {}
    /\ Hold(w, [Idle EXCEPT !.op = "update", !.at = "loaded", !.row = r,
                            !.was = active[r], !.asked = asked])
    /\ UNCHANGED <<rows, gone, applicable>>

LoadDelete(w) ==
  \E r \in Visible(w) :
    /\ req[w].at = "idle" /\ live[r]
    /\ Hold(w, [Idle EXCEPT !.op = "delete", !.at = "loaded", !.row = r, !.was = active[r]])
    /\ UNCHANGED <<rows, gone, applicable>>

LoadFire(w) ==
  \E e \in Employees \ gone :
    /\ req[w].at = "idle"
    /\ Hold(w, [Idle EXCEPT !.op = "fire", !.at = "loaded", !.employee = e])
    /\ UNCHANGED <<rows, gone, applicable>>

\* apply_template loads the template once, for every employee of the batch.
LoadApply(w) ==
  \E batch \in Batches, replace \in BOOLEAN :
    /\ req[w].at = "idle" /\ applicable
    /\ Hold(w, [Idle EXCEPT !.op = "apply", !.at = "loaded", !.todo = batch,
                            !.replace = replace])
    /\ UNCHANGED <<rows, gone, applicable>>

-----------------------------------------------------------------------------
\* Commits that must not violate the index; the ones that would fail (Rollback).
Committing(w, op) == req[w].op = op /\ req[w].at = "loaded" /\ ~Refused(w)

\* A new row for e, is_active = on; uncommitted until the transaction "by" commits.
Inserted(r, e, on, by) ==
  /\ owner[r] = NoEmployee
  /\ owner'  = [owner EXCEPT ![r] = e]
  /\ active' = [active EXCEPT ![r] = on]
  /\ live'   = [live EXCEPT ![r] = TRUE]
  /\ writer' = [writer EXCEPT ![r] = by]

CommitCreate(w) ==
  /\ Committing(w, "create")
  /\ req[w].asked => ~KeyLocked(w, req[w].employee)
  /\ \E r \in Rows : Inserted(r, req[w].employee, req[w].asked, NoWorker)
  /\ Finish(w)
  /\ UNCHANGED <<gone, applicable>>

CommitUpdate(w) ==
  LET r == req[w].row
  IN  /\ Committing(w, "update")
      /\ ~RowLocked(w, r)
      /\ req[w].asked /\ ~req[w].was => ~KeyLocked(w, owner[r])
      /\ active' = [active EXCEPT ![r] = Written(active[r], req[w].was, req[w].asked)]
      /\ Finish(w)
      /\ UNCHANGED <<owner, live, writer, gone, applicable>>

CommitDelete(w) ==
  LET r == req[w].row
  IN  /\ Committing(w, "delete")
      /\ ~RowLocked(w, r)
      /\ active' = [active EXCEPT ![r] = Written(active[r], req[w].was, FALSE)]
      /\ live' = [live EXCEPT ![r] = FALSE]
      /\ Finish(w)
      /\ UNCHANGED <<owner, writer, gone, applicable>>

\* delete_employee: the structures it sees go with the employee, in one transaction.
CommitFire(w) ==
  LET mine == {r \in Visible(w) : owner[r] = req[w].employee /\ live[r]}
  IN  /\ Committing(w, "fire")
      /\ \A r \in mine : ~RowLocked(w, r)
      /\ gone' = gone \cup {req[w].employee}
      /\ active' = [r \in Rows |-> active[r] /\ r \notin mine]
      /\ live' = [r \in Rows |-> live[r] /\ r \notin mine]
      /\ Finish(w)
      /\ UNCHANGED <<owner, writer, applicable>>

(***************************************************************************)
(* apply_template, the reads for the next employee: skipped when deleted,  *)
(* or when there is an active structure and replace_existing is off;       *)
(* otherwise the active structure is turned off and flushed.               *)
(***************************************************************************)
Serving(w) == req[w].op = "apply" /\ req[w].at = "loaded" /\ req[w].todo # <<>>

Skip(w) ==
  /\ Serving(w)
  /\ LET e == Head(req[w].todo)
     IN  e \in gone \/ (~req[w].replace /\ ActiveFor(w, e) # {})
  /\ Hold(w, [req[w] EXCEPT !.todo = Tail(@)])
  /\ UNCHANGED <<rows, gone, applicable>>

\* Mutant of Retire: the replaced structure is turned off by a commit of its own.
RetireForGood(w) ==
  LET e   == Head(req[w].todo)
      old == ActiveFor(w, e)
  IN  /\ Serving(w)
      /\ e \notin gone /\ (req[w].replace \/ old = {})
      /\ \A r \in old : ~RowLocked(w, r)
      /\ active' = [r \in Rows |-> active[r] /\ r \notin old]
      /\ Hold(w, [req[w] EXCEPT !.at = "inserting", !.employee = e, !.todo = Tail(@)])
      /\ UNCHANGED <<owner, live, writer, gone, applicable>>

Retire(w) ==
  LET e   == Head(req[w].todo)
      old == ActiveFor(w, e)
  IN  /\ Serving(w)
      /\ e \notin gone /\ (req[w].replace \/ old = {})
      /\ \A r \in old : ~RowLocked(w, r)
      /\ active' = [r \in Rows |-> active[r] /\ ~(r \in old /\ writer[r] = w)]
      /\ Hold(w, [req[w] EXCEPT !.at = "inserting", !.employee = e, !.todo = Tail(@),
                                !.off = @ \cup {r \in old : writer[r] = NoWorker}])
      /\ UNCHANGED <<owner, live, writer, gone, applicable>>

\* The new structure is flushed.
Insert(w) ==
  /\ req[w].op = "apply" /\ req[w].at = "inserting" /\ ~Refused(w)
  /\ ~KeyLocked(w, req[w].employee)
  /\ \E r \in Rows : Inserted(r, req[w].employee, TRUE, w)
  /\ Hold(w, [req[w] EXCEPT !.at = "loaded", !.employee = NoEmployee])
  /\ UNCHANGED <<gone, applicable>>

CommitApply(w) ==
  /\ Committing(w, "apply") /\ req[w].todo = <<>>
  /\ active' = [r \in Rows |-> active[r] /\ r \notin req[w].off]
  /\ writer' = [r \in Rows |-> IF writer[r] = w THEN NoWorker ELSE writer[r]]
  /\ Finish(w)
  /\ UNCHANGED <<owner, live, gone, applicable>>

(***************************************************************************)
(* The index refuses the write, the request dies, or PostgreSQL picks it   *)
(* as the victim of a deadlock: its transaction leaves nothing behind.     *)
(***************************************************************************)
Rollback(w) ==
  /\ req[w].at # "idle"
  /\ owner'  = [r \in Rows |-> IF writer[r] = w THEN NoEmployee ELSE owner[r]]
  /\ active' = [r \in Rows |-> active[r] /\ writer[r] # w]
  /\ live'   = [r \in Rows |-> live[r] /\ writer[r] # w]
  /\ writer' = [r \in Rows |-> IF writer[r] = w THEN NoWorker ELSE writer[r]]
  /\ Hold(w, Idle)
  /\ UNCHANGED <<gone, applicable>>

\* delete_template is one statement and its commit.  What a template contains, and
\* its updates, are left out.
DeleteTemplate ==
  /\ applicable /\ applicable' = FALSE
  /\ UNCHANGED <<rows, gone, req>>

Next ==
  \/ \E w \in Workers :
       \/ LoadCreate(w) \/ LoadUpdate(w) \/ LoadDelete(w) \/ LoadFire(w) \/ LoadApply(w)
       \/ CommitCreate(w) \/ CommitUpdate(w) \/ CommitDelete(w) \/ CommitFire(w)
       \/ Skip(w) \/ Retire(w) \/ Insert(w) \/ CommitApply(w)
       \/ Rollback(w)
  \/ DeleteTemplate

Spec == Init /\ [][Next]_vars

-----------------------------------------------------------------------------
(***************************************************************************)
(* Properties.                                                             *)
(***************************************************************************)

\* A run resolves an employee to the active structure, and the list shows it: there is
\* never a second one, whatever creations, edits and batches overlap.
OneActive == \A e \in Employees : \A r, s \in Paying(e) : r = s

\* The checks of the handlers cover the index: a request that no other one overlapped
\* is refused with a message or served, but never fails on the index (a 500).
LoneNeverFails == \A w \in Workers : req[w].at # "idle" /\ ~req[w].met => ~Refused(w)

\* apply_template replaces a structure in one transaction: an employee who has a
\* structure loses it only to an update, a deletion or the end of the employment,
\* never to a batch, served or failed.
ReplacementKeepsPay ==
  [][\A e \in Employees : Paying(e) # {} /\ Paying(e)' = {} =>
       \E w \in Workers : /\ req[w].at # "idle" /\ req'[w].at = "idle"
                          /\ req[w].op \in {"update", "delete", "fire"}]_vars
=============================================================================
