------------------------------- MODULE Accounts -------------------------------
(***************************************************************************)
(* Who exists: the logins of app/router/auth.py, the employees of          *)
(* app/router/employee.py they may be linked to, and the tax profiles of   *)
(* app/router/taxes.py, one per employee.                                  *)
(*                                                                         *)
(* Every handler looks for a row that would be in its way and then         *)
(* inserts; another worker's commit may fall in between.  The unique       *)
(* constraints of the tables are all that is left then, and not every rule *)
(* has one.  Logins are neither edited nor deleted by any handler.         *)
(***************************************************************************)
EXTENDS FiniteSets, Session

CONSTANTS
  Companies, Emails,
  Users,        \* users rows that may be inserted, each once
  Employees,    \* employees rows that may be inserted, each once
  Workers,      \* requests that may be in flight at the same time
  Nobody        \* no row; no company, no address or no employee

\* A users row: address, company, linked employee (role EMPLOYEE); an employees row.
Account == [email: Emails, company: Companies, link: Employees \cup {Nobody}]
Staff   == [company: Companies, email: Emails]

ASSUME AccountAssumption ==
  Nobody \notin Companies \cup Emails \cup Employees \cup Account \cup Staff

Ops == {"signup", "invite", "hire", "edit", "fire", "declare"}

VARIABLES
  founded,      \* the companies rows
  account,      \* the users rows
  staff, gone,  \* the employees rows; the soft-deleted ones
  profiled,     \* employees with an employee_tax_profiles row
  req,          \* what each worker is doing
  \* History: logins whose creation overlapped another request that committed
  raced

tables == <<founded, account, staff, gone, profiled>>
vars   == <<tables, req, raced>>

\* What a worker holds: what it was asked for, the address or whether there was a
\* profile when it looked, and whether another request has committed since.
Request == [op: Ops \cup {"none"}, company: Companies \cup {Nobody},
            email: Emails \cup {Nobody}, employee: Employees \cup {Nobody},
            was: Emails \cup {Nobody}, found: BOOLEAN, met: BOOLEAN]

Idle == [op |-> "none", company |-> Nobody, email |-> Nobody, employee |-> Nobody,
         was |-> Nobody, found |-> FALSE, met |-> FALSE]

TypeOK ==
  /\ founded \in SUBSET Companies
  /\ account \in [Users -> Account \cup {Nobody}]
  /\ staff \in [Employees -> Staff \cup {Nobody}]
  /\ gone \in SUBSET Employees /\ profiled \in SUBSET Employees
  /\ raced \in SUBSET Users
  /\ req \in [Workers -> Request]

\* Some companies exist, with administrators whose addresses are not in Emails.
Init ==
  /\ founded \in SUBSET Companies
  /\ account = [u \in Users |-> Nobody]
  /\ staff = [e \in Employees |-> Nobody]
  /\ gone = {} /\ profiled = {}
  /\ raced = {}
  /\ req = [w \in Workers |-> Idle]

-----------------------------------------------------------------------------
Logins == {u \in Users : account[u] # Nobody}
Hired  == {e \in Employees : staff[e] # Nobody}

\* Employees of company c who have not been deleted.
Present(c) == {e \in Hired \ gone : staff[e].company = c}

\* Mutant of EmailTaken: the address is looked up in one company only.
EmailTakenInCompany(email, c) ==
  \E u \in Logins : account[u].email = email /\ account[u].company = c

\* _email_taken: in whatever company (c, the company that asks, does not matter).
EmailTaken(email, c) == \E u \in Logins : account[u].email = email

HasLogin(e) == \E u \in Logins : account[u].link = e

Begin(w, held) ==
  /\ req[w].op = "none"
  /\ req' = [req EXCEPT ![w] = held]
  /\ UNCHANGED <<tables, raced>>

LoadSignup(w) ==
  \E m \in Emails :
    ~EmailTaken(m, Nobody) /\ Begin(w, [Idle EXCEPT !.op = "signup", !.email = m])

\* Mutant of LoadInvite: the linked employee may have a login already.
LoadInviteLinked(w) ==
  \E c \in founded, m \in Emails : \E link \in Present(c) \cup {Nobody} :
    /\ ~EmailTaken(m, c)
    /\ Begin(w, [Idle EXCEPT !.op = "invite", !.company = c, !.email = m, !.employee = link])

\* create_user: an employee's login is for one of this company who has none.
LoadInvite(w) ==
  \E c \in founded, m \in Emails : \E link \in Present(c) \cup {Nobody} :
    /\ ~EmailTaken(m, c)
    /\ link # Nobody => ~HasLogin(link)
    /\ Begin(w, [Idle EXCEPT !.op = "invite", !.company = c, !.email = m, !.employee = link])

LoadHire(w) ==
  \E c \in founded, m \in Emails :
    /\ \A e \in Present(c) : staff[e].email # m
    /\ Begin(w, [Idle EXCEPT !.op = "hire", !.company = c, !.email = m])

\* Mutant of LoadEdit: the new address is not looked up.
LoadEditUnchecked(w) ==
  \E e \in Hired \ gone, m \in Emails :
    /\ m # staff[e].email
    /\ Begin(w, [Idle EXCEPT !.op = "edit", !.company = staff[e].company, !.email = m,
                             !.employee = e, !.was = staff[e].email])

\* update_employee, when the address changes.
LoadEdit(w) ==
  \E e \in Hired \ gone, m \in Emails :
    /\ m # staff[e].email
    /\ \A other \in Present(staff[e].company) : staff[other].email # m
    /\ Begin(w, [Idle EXCEPT !.op = "edit", !.company = staff[e].company, !.email = m,
                             !.employee = e, !.was = staff[e].email])

LoadFire(w) ==
  \E e \in Hired \ gone : Begin(w, [Idle EXCEPT !.op = "fire", !.employee = e])

LoadDeclare(w) ==
  \E e \in Hired \ gone :
    Begin(w, [Idle EXCEPT !.op = "declare", !.employee = e, !.found = e \in profiled])

-----------------------------------------------------------------------------
(***************************************************************************)
(* The unique constraints: (company, email) of users; (company, email) of  *)
(* employees, deleted ones included; one tax profile per employee.         *)
(***************************************************************************)
Refused(w) ==
  CASE req[w].op = "invite" ->
         \E u \in Logins : account[u].company = req[w].company /\ account[u].email = req[w].email
    [] req[w].op \in {"hire", "edit"} ->
         \E e \in Hired \ {req[w].employee} :
           staff[e].company = req[w].company /\ staff[e].email = req[w].email
    [] req[w].op = "declare" -> ~req[w].found /\ req[w].employee \in profiled
    [] OTHER -> FALSE

\* A commit: the request is over, and the others in flight have met one.
Finish(w) ==
  req' = [v \in Workers |-> IF v = w THEN Idle
                            ELSE [req[v] EXCEPT !.met = req[v].op # "none"]]

Committing(w, op) == req[w].op = op /\ ~Refused(w) /\ Finish(w)

\* The new login of company c.
Insert(w, c) ==
  \E u \in Users \ Logins :
    /\ account' = [account EXCEPT ![u] = [email |-> req[w].email, company |-> c,
                                          link |-> req[w].employee]]
    /\ raced' = IF req[w].met THEN raced \cup {u} ELSE raced

\* signup: a new company and its administrator.
CommitSignup(w) ==
  /\ Committing(w, "signup")
  /\ \E c \in Companies \ founded : Insert(w, c) /\ founded' = founded \cup {c}
  /\ UNCHANGED <<staff, gone, profiled>>

CommitInvite(w) ==
  /\ Committing(w, "invite")
  /\ Insert(w, req[w].company)
  /\ UNCHANGED <<founded, staff, gone, profiled>>

CommitHire(w) ==
  /\ Committing(w, "hire")
  /\ \E e \in Employees \ Hired :
       staff' = [staff EXCEPT ![e] = [company |-> req[w].company, email |-> req[w].email]]
  /\ UNCHANGED <<founded, account, gone, profiled, raced>>

CommitEdit(w) ==
  /\ Committing(w, "edit")
  /\ staff' = [staff EXCEPT ![req[w].employee].email = Written(@, req[w].was, req[w].email)]
  /\ UNCHANGED <<founded, account, gone, profiled, raced>>

\* delete_employee keeps the row, its address, and the login.
CommitFire(w) ==
  /\ Committing(w, "fire")
  /\ gone' = gone \cup {req[w].employee}
  /\ UNCHANGED <<founded, account, staff, profiled, raced>>

\* upsert_tax_profile: the profile is created, or its fields replaced.
CommitDeclare(w) ==
  /\ Committing(w, "declare")
  /\ profiled' = profiled \cup {req[w].employee}
  /\ UNCHANGED <<founded, account, staff, gone, raced>>

\* A constraint refuses the row (409, or 500), or the request dies.
Rollback(w) ==
  /\ req[w].op # "none"
  /\ req' = [req EXCEPT ![w] = Idle]
  /\ UNCHANGED <<tables, raced>>

Next ==
  \E w \in Workers :
    \/ LoadSignup(w) \/ LoadInvite(w) \/ LoadHire(w) \/ LoadEdit(w)
    \/ LoadFire(w) \/ LoadDeclare(w)
    \/ CommitSignup(w) \/ CommitInvite(w) \/ CommitHire(w) \/ CommitEdit(w)
    \/ CommitFire(w) \/ CommitDeclare(w)
    \/ Rollback(w)

Spec == Init /\ [][Next]_vars

-----------------------------------------------------------------------------
(***************************************************************************)
(* Properties.                                                             *)
(***************************************************************************)

\* _email_taken: "emails must be globally unique", since login looks a user up by the
\* address alone and fails when it finds two.  Within a company they are; between
\* companies only as long as sign-ups and invitations do not overlap.
EmailsUniqueUnlessRaced ==
  \A u, v \in Logins :
    u # v /\ account[u].email = account[v].email =>
      account[u].company # account[v].company /\ (u \in raced \/ v \in raced)

\* "This employee already has a linked login": an employee signs in with one account,
\* of the own company, unless two invitations overlapped (no constraint backs the check).
OneLoginUnlessRaced ==
  /\ \A u, v \in Logins :
       u # v /\ account[u].link # Nobody /\ account[u].link = account[v].link =>
         u \in raced \/ v \in raced
  /\ \A u \in Logins : account[u].link # Nobody =>
       account[u].link \in Hired /\ staff[account[u].link].company = account[u].company

\* create_employee: the constraint is the backstop for "an email still held by a
\* soft-deleted employee, or a concurrent insert".  A request that no other one
\* overlapped meets a constraint for the first reason only.
LoneFailsOnFormerStaff ==
  \A w \in Workers : req[w].op # "none" /\ ~req[w].met /\ Refused(w) =>
    \E e \in gone : staff[e].company = req[w].company /\ staff[e].email = req[w].email
=============================================================================
