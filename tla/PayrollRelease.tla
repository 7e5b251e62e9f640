---------------------------- MODULE PayrollRelease ----------------------------
(***************************************************************************)
(* Payslips leave the system: the handlers of app/router/payroll.py that   *)
(* show, download or e-mail one payslip or mail all those of a cycle, and  *)
(* the employee's own view (app/router/me.py), beside the handlers of      *)
(* PayrollCycle.                                                           *)
(*                                                                         *)
(* One release is in flight at a time.  A release reads the cycle in one   *)
(* statement and the payslips in another, then renders and sends without   *)
(* any lock; an e-mail that was sent is recorded nowhere.  What an         *)
(* artifact looks like is left out: it is what payslip it shows.           *)
(***************************************************************************)
EXTENDS PayrollCycle

VARIABLES
  release,    \* the release in flight
  \* History: the amounts each employee was sent or shown in a document, and the
  \* employees for whom one of these was read before the cycle was approved
  delivered, early

releaseVars == <<release, delivered, early>>

\* The payslips read and those still to send.  "loaded": the cycle was read;
\* "read": a single payslip was, its cycle was not.
Release == [at: {"idle", "loaded", "read", "sending"}, shows: Slips,
            todo: SUBSET Employees, early: BOOLEAN]

NoRelease == [at |-> "idle", shows |-> NoSlips, todo |-> {}, early |-> FALSE]

ReleaseInit ==
  /\ release = NoRelease
  /\ delivered = [e \in Employees |-> {}]
  /\ early = {}

\* What my_payslips shows an employee of the cycle.
Released(e) == IF status = "PAID" /\ ~deleted THEN amount[e] ELSE NoPayslip

-----------------------------------------------------------------------------
\* Mutant of LoadBulk: payslips are mailed as soon as they are listed.
LoadBulkListed ==
  /\ release.at = "idle"
  /\ ~deleted /\ status \notin {"DRAFT", "CANCELLED"}
  /\ release' = [NoRelease EXCEPT !.at = "loaded"]
  /\ UNCHANGED <<vars, delivered, early>>

\* email_cycle_payslips: the gate.
LoadBulk ==
  /\ release.at = "idle"
  /\ ~deleted /\ status = "PAID"
  /\ release' = [NoRelease EXCEPT !.at = "loaded"]
  /\ UNCHANGED <<vars, delivered, early>>

ReadBulk ==
  /\ release.at = "loaded"
  /\ release' = [NoRelease EXCEPT !.at = "sending", !.shows = amount,
                                  !.todo = {e \in Employees : amount[e] # NoPayslip}]
  /\ UNCHANGED <<vars, delivered, early>>

\* get_payslip, _gather_payslip: the payslip is read first ...
ReadOne(e) ==
  /\ release.at = "idle"
  /\ amount[e] # NoPayslip
  /\ release' = [at |-> "read", shows |-> [NoSlips EXCEPT ![e] = amount[e]], todo |-> {e},
                 early |-> status \notin {"APPROVED", "PAID"}]
  /\ UNCHANGED <<vars, delivered, early>>

\* ... then the cycle: 404 when it is deleted, 403 when it is not PAID.
GateOne ==
  /\ release.at = "read"
  /\ release' = IF ~deleted /\ status = "PAID" THEN [release EXCEPT !.at = "sending"]
                ELSE NoRelease
  /\ UNCHANGED <<vars, delivered, early>>

\* The PDF of the payslip as it was read is rendered and sent, or handed out.
Send(e) ==
  /\ release.at = "sending" /\ e \in release.todo
  /\ delivered' = [delivered EXCEPT ![e] = @ \cup {release.shows[e]}]
  /\ early' = IF release.early THEN early \cup {e} ELSE early
  /\ release' = [release EXCEPT !.todo = @ \ {e}]
  /\ UNCHANGED vars

\* No address on file, or a failure to send: collected, and the batch goes on.
SendFails(e) ==
  /\ release.at = "sending" /\ e \in release.todo
  /\ release' = [release EXCEPT !.todo = @ \ {e}]
  /\ UNCHANGED <<vars, delivered, early>>

\* The response, or the end of a request that dies half way; a retry starts all over.
EndRelease ==
  /\ release.at # "idle"
  /\ release' = NoRelease
  /\ UNCHANGED <<vars, delivered, early>>

ReleaseNext ==
  \/ Next /\ UNCHANGED releaseVars
  \/ LoadBulk \/ ReadBulk \/ GateOne \/ EndRelease
  \/ \E e \in Employees : ReadOne(e) \/ Send(e) \/ SendFails(e)

ReleaseSpec == Init /\ ReleaseInit /\ [][ReleaseNext]_<<vars, releaseVars>>

-----------------------------------------------------------------------------
\* "Payslips are only released once the cycle has been disbursed": whatever an employee
\* was sent, by however many batches and retries, is the one payslip the own view shows
\* from then on.  A single payslip is read before its cycle, and a document whose
\* reading began before the approval may show what a later run has replaced.
MailedIsPaid ==
  \A e \in Employees \ early : delivered[e] \subseteq {Released(e)}
=============================================================================
