--------------------------- MODULE CycleLifecycle ---------------------------
(***************************************************************************)
(* What a payroll cycle promises, without handlers, sessions or rows: the  *)
(* state machine of README.md "Payroll Lifecycle".  Each operation is one  *)
(* atomic step, allowed only from the phases the README draws.             *)
(***************************************************************************)
CONSTANTS
  Employees,   \* employees of the company
  Slips,       \* what the payslips of a cycle can be: functions on Employees
  NoPayslip    \* no payslip for the employee

VARIABLES
  phase,     \* status of the cycle, or "DELETED"
  slips,     \* the payslips of the cycle
  released   \* employees whose payslip has been paid

lifecycleVars == <<phase, slips, released>>

Phases == {"DRAFT", "PROCESSING", "APPROVED", "PAID", "CANCELLED", "DELETED"}

Blank == [e \in Employees |-> NoPayslip]

LifecycleInit ==
  /\ phase = "DRAFT"
  /\ slips = Blank
  /\ released = {}

\* Payslips are created and refreshed, never withdrawn.
Run ==
  /\ phase \in {"DRAFT", "PROCESSING"}
  /\ phase' = "PROCESSING"
  /\ slips' \in Slips
  /\ \A e \in Employees : slips[e] # NoPayslip => slips'[e] # NoPayslip
  /\ UNCHANGED released

Approve ==
  /\ phase = "PROCESSING"
  /\ phase' = "APPROVED"
  /\ UNCHANGED <<slips, released>>

Pay ==
  /\ phase = "APPROVED"
  /\ phase' = "PAID"
  /\ released' = {e \in Employees : slips[e] # NoPayslip}
  /\ UNCHANGED slips

Cancel ==
  /\ phase \notin {"PAID", "DELETED"}
  /\ phase' = "CANCELLED"
  /\ UNCHANGED <<slips, released>>

Delete ==
  /\ phase \notin {"PAID", "DELETED"}
  /\ phase' = "DELETED"
  /\ UNCHANGED <<slips, released>>

LifecycleNext == Run \/ Approve \/ Pay \/ Cancel \/ Delete

LifecycleSpec == LifecycleInit /\ [][LifecycleNext]_lifecycleVars
=============================================================================
