---------------------------- MODULE Accounts_proofs ----------------------------
(***************************************************************************)
(* Addresses and logins, for any companies, addresses, rows and number of  *)
(* overlapping requests.                                                   *)
(*                                                                         *)
(* The invariant remembers what a request in flight has looked up: as long *)
(* as nobody else has committed, the look-up still holds, so that the      *)
(* insert meets nothing but what the look-up leaves out.  Once somebody    *)
(* has, only the constraints of the tables are left.                       *)
(***************************************************************************)
EXTENDS Accounts, TLAPS

\* Logins belong to companies that exist, and to employees of the same company.
Linked ==
  \A u \in Logins :
    /\ account[u].company \in founded
    /\ account[u].link # Nobody =>
         account[u].link \in Hired /\ staff[account[u].link].company = account[u].company

\* What each request is about.
Asked(w) ==
  /\ req[w].op \in {"signup", "invite", "hire", "edit"} => req[w].email \in Emails
  /\ req[w].op = "signup" => req[w].employee = Nobody
  /\ req[w].op = "invite" =>
       /\ req[w].company \in founded
       /\ req[w].employee # Nobody =>
            req[w].employee \in Hired /\ staff[req[w].employee].company = req[w].company
  /\ req[w].op = "hire" => req[w].company \in Companies
  /\ req[w].op \in {"edit", "fire", "declare"} => req[w].employee \in Hired
  /\ req[w].op = "edit" => staff[req[w].employee].company = req[w].company

\* What it has looked up, while nobody else has committed.
Current(w) ==
  ~req[w].met =>
    /\ req[w].op \in {"signup", "invite"} => \A u \in Logins : account[u].email # req[w].email
    /\ req[w].op = "invite" /\ req[w].employee # Nobody => ~HasLogin(req[w].employee)
    /\ req[w].op \in {"hire", "edit"} =>
         \A e \in Present(req[w].company) : staff[e].email # req[w].email
    /\ req[w].op = "declare" => (req[w].found <=> req[w].employee \in profiled)

IInv ==
  /\ TypeOK /\ Linked
  /\ \A w \in Workers : Asked(w) /\ Current(w)
  /\ EmailsUniqueUnlessRaced /\ OneLoginUnlessRaced

-----------------------------------------------------------------------------
LEMMA IdleType == Idle \in Request /\ Idle.op = "none"
  BY AccountAssumption DEF Idle, Request

\* What the invariant says of the tables follows from the tables and from raced.
LEMMA TablesOnly ==
  ASSUME IInv, UNCHANGED <<tables, raced>>
  PROVE  /\ Linked' /\ EmailsUniqueUnlessRaced' /\ OneLoginUnlessRaced'
         /\ \A w \in Workers : req'[w] = req[w] => Asked(w)' /\ Current(w)'
<1>1. UNCHANGED <<founded, account, staff, gone, profiled, raced>>
  BY DEF tables
<1>2. UNCHANGED <<Logins, Hired>>
  BY <1>1 DEF Logins, Hired
<1>3. Linked' /\ EmailsUniqueUnlessRaced' /\ OneLoginUnlessRaced'
  BY <1>1, <1>2 DEF IInv, Linked, EmailsUniqueUnlessRaced, OneLoginUnlessRaced
<1>4. ASSUME NEW w \in Workers, req'[w] = req[w] PROVE Asked(w)' /\ Current(w)'
  BY <1>1, <1>2, <1>4 DEF IInv, Asked, Current, HasLogin, Present
<1> QED BY <1>3, <1>4

\* A request that has looked up what it will need changes nothing else.
LEMMA BeginKeeps ==
  ASSUME IInv, NEW w \in Workers, NEW held \in Request,
         req' = [req EXCEPT ![w] = held], UNCHANGED <<tables, raced>>,
         Asked(w)', Current(w)'
  PROVE  IInv'
<1>1. \A v \in Workers \ {w} : req'[v] = req[v]
  BY DEF IInv, TypeOK
<1>2. TypeOK'
  BY DEF IInv, TypeOK, tables
<1> QED BY <1>1, <1>2, TablesOnly DEF IInv

LEMMA LoadsKeep ==
  ASSUME IInv, NEW w \in Workers,
         \/ LoadSignup(w) \/ LoadInvite(w) \/ LoadHire(w) \/ LoadEdit(w)
         \/ LoadFire(w) \/ LoadDeclare(w)
  PROVE  IInv'
<1>0. TypeOK
  BY DEF IInv
<1>1. ASSUME NEW held \in Request, Begin(w, held)
      PROVE  /\ req' = [req EXCEPT ![w] = held] /\ req'[w] = held
             /\ UNCHANGED <<tables, raced>>
             /\ UNCHANGED <<founded, account, staff, gone, profiled, Logins, Hired>>
  BY <1>0, <1>1 DEF Begin, TypeOK, tables, Logins, Hired
<1>2. CASE LoadSignup(w)
  <2>1. PICK m \in Emails : ~EmailTaken(m, Nobody) /\ Begin(w, [Idle EXCEPT !.op = "signup", !.email = m])
    BY <1>2 DEF LoadSignup
  <2> DEFINE held == [Idle EXCEPT !.op = "signup", !.email = m]
  <2>2. held \in Request
    BY IdleType DEF Request, Ops
  <2>3. held.op = "signup" /\ held.email = m /\ held.employee = Nobody
    BY DEF Idle
  <2> HIDE DEF held
  <2>4. Asked(w)' /\ Current(w)'
    BY <1>1, <2>1, <2>2, <2>3 DEF held, Asked, Current, EmailTaken
  <2> QED BY <1>1, <2>1, <2>2, <2>4, BeginKeeps DEF held
<1>3. CASE LoadInvite(w)
  <2>1. PICK c \in founded, m \in Emails :
          \E link \in Present(c) \cup {Nobody} :
            /\ ~EmailTaken(m, c) /\ (link # Nobody => ~HasLogin(link))
            /\ Begin(w, [Idle EXCEPT !.op = "invite", !.company = c, !.email = m, !.employee = link])
    BY <1>3 DEF LoadInvite
  <2>2. PICK link \in Present(c) \cup {Nobody} :
            /\ ~EmailTaken(m, c) /\ (link # Nobody => ~HasLogin(link))
            /\ Begin(w, [Idle EXCEPT !.op = "invite", !.company = c, !.email = m, !.employee = link])
    BY <2>1
  <2> DEFINE held == [Idle EXCEPT !.op = "invite", !.company = c, !.email = m, !.employee = link]
  <2>3. c \in Companies /\ link \in Employees \cup {Nobody}
    BY <1>0 DEF TypeOK, Present, Hired
  <2>4. held \in Request
    BY <2>3, IdleType DEF Request, Ops
  <2>5. held.op = "invite" /\ held.company = c /\ held.email = m /\ held.employee = link
    BY DEF Idle
  <2> HIDE DEF held
  <2>6. req'[w] = held /\ UNCHANGED <<founded, account, staff, gone, profiled, Logins, Hired>>
    BY <1>1, <2>2, <2>4 DEF held
  <2>7. Asked(w)'
    BY <2>1, <2>5, <2>6 DEF Asked, Present
  <2>8. Current(w)'
    BY <2>2, <2>5, <2>6 DEF Current, EmailTaken, HasLogin
  <2> QED BY <1>1, <2>2, <2>4, <2>7, <2>8, BeginKeeps DEF held
<1>4. CASE LoadHire(w)
  <2>1. PICK c \in founded, m \in Emails :
          /\ \A e \in Present(c) : staff[e].email # m
          /\ Begin(w, [Idle EXCEPT !.op = "hire", !.company = c, !.email = m])
    BY <1>4 DEF LoadHire
  <2> DEFINE held == [Idle EXCEPT !.op = "hire", !.company = c, !.email = m]
  <2>2. c \in Companies
    BY <1>0 DEF TypeOK
  <2>3. held \in Request
    BY <2>2, IdleType DEF Request, Ops
  <2>4. held.op = "hire" /\ held.company = c /\ held.email = m
    BY DEF Idle
  <2> HIDE DEF held
  <2>5. Asked(w)' /\ Current(w)'
    BY <1>1, <2>1, <2>2, <2>3, <2>4 DEF held, Asked, Current, Present
  <2> QED BY <1>1, <2>1, <2>3, <2>5, BeginKeeps DEF held
<1>5. CASE LoadEdit(w)
  <2>1. PICK e \in Hired \ gone, m \in Emails :
          /\ m # staff[e].email
          /\ \A other \in Present(staff[e].company) : staff[other].email # m
          /\ Begin(w, [Idle EXCEPT !.op = "edit", !.company = staff[e].company, !.email = m,
                                   !.employee = e, !.was = staff[e].email])
    BY <1>5 DEF LoadEdit
  <2> DEFINE held == [Idle EXCEPT !.op = "edit", !.company = staff[e].company, !.email = m,
                                  !.employee = e, !.was = staff[e].email]
  <2>2. staff[e] \in Staff /\ e \in Employees
    BY <1>0 DEF TypeOK, Hired
  <2>3. held \in Request
    BY <2>2, IdleType DEF Request, Ops, Staff
  <2>4. /\ held.op = "edit" /\ held.company = staff[e].company /\ held.email = m
        /\ held.employee = e
    BY DEF Idle
  <2> HIDE DEF held
  <2>5. req'[w] = held /\ UNCHANGED <<founded, account, staff, gone, profiled, Logins, Hired>>
    BY <1>1, <2>1, <2>3 DEF held
  <2>6. Asked(w)'
    BY <2>1, <2>4, <2>5 DEF Asked
  <2>7. Current(w)'
    BY <2>1, <2>4, <2>5 DEF Current, Present
  <2> QED BY <1>1, <2>1, <2>3, <2>6, <2>7, BeginKeeps DEF held
<1>6. CASE LoadFire(w)
  <2>1. PICK e \in Hired : Begin(w, [Idle EXCEPT !.op = "fire", !.employee = e])
    BY <1>6 DEF LoadFire
  <2> DEFINE held == [Idle EXCEPT !.op = "fire", !.employee = e]
  <2>2. held \in Request
    BY IdleType DEF Request, Ops, Hired
  <2>3. held.op = "fire" /\ held.employee = e
    BY DEF Idle
  <2> HIDE DEF held
  <2>4. req'[w] = held /\ UNCHANGED <<founded, account, staff, gone, profiled, Logins, Hired>>
    BY <1>1, <2>1, <2>2 DEF held
  <2>5. Asked(w)' /\ Current(w)'
    BY <2>3, <2>4 DEF Asked, Current
  <2> QED BY <1>1, <2>1, <2>2, <2>5, BeginKeeps DEF held
<1>7. CASE LoadDeclare(w)
  <2>1. PICK e \in Hired :
          Begin(w, [Idle EXCEPT !.op = "declare", !.employee = e, !.found = e \in profiled])
    BY <1>7 DEF LoadDeclare
  <2>2. PICK found \in BOOLEAN : found = (e \in profiled)
    <3>1. (e \in profiled) \in BOOLEAN
      OBVIOUS
    <3> QED BY <3>1, Zenon
  <2> DEFINE held == [Idle EXCEPT !.op = "declare", !.employee = e, !.found = found]
  <2>3. Begin(w, held)
    BY <2>1, <2>2
  <2>4. held \in Request
    BY IdleType DEF Request, Ops, Hired
  <2>5. held.op = "declare" /\ held.employee = e /\ held.found = found
    BY DEF Idle
  <2> HIDE DEF held
  <2>6. req'[w] = held /\ UNCHANGED <<founded, account, staff, gone, profiled, Logins, Hired>>
    BY <1>1, <2>3, <2>4
  <2>7. Asked(w)' /\ Current(w)'
    BY <2>2, <2>5, <2>6 DEF Asked, Current
  <2> QED BY <1>1, <2>3, <2>4, <2>7, BeginKeeps
<1> QED BY <1>2, <1>3, <1>4, <1>5, <1>6, <1>7

-----------------------------------------------------------------------------
\* After a commit nobody's look-up counts any more, and whom a request is about is
\* still there.
LEMMA FinishKeeps ==
  ASSUME IInv, NEW w \in Workers, Finish(w),
         founded \subseteq founded', Hired \subseteq Hired',
         \A e \in Hired : staff'[e].company = staff[e].company
  PROVE  /\ req' \in [Workers -> Request]
         /\ \A v \in Workers : Asked(v)' /\ Current(v)'
<1>1. \A v \in Workers : req[v] \in Request
  BY DEF IInv, TypeOK
<1>2. \A v \in Workers : [req[v] EXCEPT !.met = req[v].op # "none"] \in Request
  BY <1>1 DEF Request
<1>3. req' \in [Workers -> Request]
  BY <1>2, IdleType DEF Finish
<1>4. ASSUME NEW v \in Workers PROVE Asked(v)' /\ Current(v)'
  <2>1. CASE v = w
    <3>1. req'[v].op = "none"
      BY <2>1, IdleType DEF Finish
    <3> QED BY <3>1 DEF Asked, Current
  <2>2. CASE v # w
    <3>1. req'[v] = [req[v] EXCEPT !.met = req[v].op # "none"]
      BY <2>2 DEF Finish
    <3>2. /\ req'[v].op = req[v].op /\ req'[v].company = req[v].company
          /\ req'[v].email = req[v].email /\ req'[v].employee = req[v].employee
          /\ req'[v].met = (req[v].op # "none")
      BY <3>1, <1>1 DEF Request
    <3>3. Asked(v)
      BY DEF IInv
    <3>4. Asked(v)'
      BY <3>2, <3>3 DEF Asked
    <3>5. Current(v)'
      BY <3>2 DEF Current
    <3> QED BY <3>4, <3>5
  <2> QED BY <2>1, <2>2
<1> QED BY <1>3, <1>4

\* A new login: other companies' are not looked at by the constraint, but then
\* somebody has committed in between.
LEMMA InsertKeeps ==
  ASSUME IInv, NEW w \in Workers, NEW c, Insert(w, c), Finish(w),
         req[w].op \in {"signup", "invite"},
         c \in Companies, founded \subseteq founded', c \in founded',
         founded' \in SUBSET Companies,
         \A u \in Logins : account[u].company = c => account[u].email # req[w].email,
         req[w].op = "invite" => req[w].company = c,
         UNCHANGED <<staff, gone, profiled>>
  PROVE  IInv'
<1>1. PICK new \in Users \ Logins :
        /\ account' = [account EXCEPT ![new] = [email |-> req[w].email, company |-> c,
                                                link |-> req[w].employee]]
        /\ raced' = IF req[w].met THEN raced \cup {new} ELSE raced
  BY DEF Insert
<1>2. req[w] \in Request /\ Asked(w) /\ Current(w) /\ TypeOK /\ Linked
  BY DEF IInv, TypeOK
<1>3. req[w].email \in Emails /\ req[w].employee \in Employees \cup {Nobody}
  BY <1>2 DEF Asked, Request
<1>4. /\ account'[new].email = req[w].email /\ account'[new].company = c
      /\ account'[new].link = req[w].employee /\ account'[new] \in Account
      /\ \A u \in Users \ {new} : account'[u] = account[u]
      /\ account' \in [Users -> Account \cup {Nobody}]
  BY <1>1, <1>2, <1>3 DEF TypeOK, Account
<1>5. Logins' = Logins \cup {new}
  BY <1>1, <1>4, AccountAssumption DEF Logins
<1>6. UNCHANGED Hired
  BY DEF Hired
<1>7. TypeOK' /\ \A v \in Workers : Asked(v)' /\ Current(v)'
  BY <1>1, <1>2, <1>4, <1>6, FinishKeeps DEF TypeOK
<1>8. req[w].employee # Nobody =>
        req[w].employee \in Hired /\ staff[req[w].employee].company = c
  BY <1>2 DEF Asked
<1>9. Linked'
  <2> SUFFICES ASSUME NEW u \in Logins'
               PROVE  /\ account'[u].company \in founded'
                      /\ account'[u].link # Nobody =>
                           /\ account'[u].link \in Hired
                           /\ staff[account'[u].link].company = account'[u].company
    BY <1>6 DEF Linked
  <2>1. CASE u = new
    BY <2>1, <1>4, <1>8
  <2>2. CASE u # new
    <3>1. u \in Logins /\ account'[u] = account[u]
      BY <2>2, <1>4, <1>5 DEF Logins
    <3> QED BY <3>1, <1>2 DEF Linked
  <2> QED BY <2>1, <2>2
<1>10. raced \subseteq raced' /\ (req[w].met => new \in raced')
  BY <1>1
<1>11. \A u \in Logins : u # new /\ account'[u] = account[u]
  BY <1>1, <1>4 DEF Logins
<1>12. ASSUME NEW u \in Logins, account[u].email = req[w].email
       PROVE  account[u].company # c /\ new \in raced'
  BY <1>12, <1>2, <1>10 DEF Current
<1>13. EmailsUniqueUnlessRaced'
  <2> SUFFICES ASSUME NEW u \in Logins', NEW v \in Logins', u # v,
                      account'[u].email = account'[v].email
               PROVE  /\ account'[u].company # account'[v].company
                      /\ u \in raced' \/ v \in raced'
    BY DEF EmailsUniqueUnlessRaced
  <2>1. CASE u = new
    BY <2>1, <1>4, <1>5, <1>11, <1>12
  <2>2. CASE v = new
    BY <2>2, <1>4, <1>5, <1>11, <1>12
  <2>3. CASE u \in Logins /\ v \in Logins
    BY <2>3, <1>10, <1>11 DEF IInv, EmailsUniqueUnlessRaced
  <2> QED BY <2>1, <2>2, <2>3, <1>5
<1>14. ASSUME NEW u \in Logins, account[u].link # Nobody, account[u].link = req[w].employee
       PROVE  new \in raced'
  BY <1>14, <1>2, <1>10 DEF Asked, Current, HasLogin
<1>15. OneLoginUnlessRaced'
  <2>1. ASSUME NEW u \in Logins', NEW v \in Logins', u # v,
               account'[u].link # Nobody, account'[u].link = account'[v].link
        PROVE  u \in raced' \/ v \in raced'
    <3>1. CASE u = new
      BY <2>1, <3>1, <1>4, <1>5, <1>11, <1>14
    <3>2. CASE v = new
      BY <2>1, <3>2, <1>4, <1>5, <1>11, <1>14
    <3>3. CASE u \in Logins /\ v \in Logins
      BY <2>1, <3>3, <1>10, <1>11 DEF IInv, OneLoginUnlessRaced
    <3> QED BY <3>1, <3>2, <3>3, <1>5
  <2> QED BY <2>1, <1>9 DEF Linked, OneLoginUnlessRaced
<1> QED BY <1>7, <1>9, <1>13, <1>15 DEF IInv

LEMMA LoginsKeep ==
  ASSUME IInv, NEW w \in Workers, CommitSignup(w) \/ CommitInvite(w)
  PROVE  IInv'
<1>0. TypeOK /\ Linked /\ Asked(w) /\ Current(w) /\ req[w] \in Request
  BY DEF IInv, TypeOK
<1>1. CASE CommitSignup(w)
  <2>1. PICK c \in Companies \ founded : Insert(w, c) /\ founded' = founded \cup {c}
    BY <1>1 DEF CommitSignup
  <2>2. req[w].op = "signup" /\ Finish(w) /\ UNCHANGED <<staff, gone, profiled>>
    BY <1>1 DEF CommitSignup, Committing
  <2>3. \A u \in Logins : account[u].company = c => account[u].email # req[w].email
    BY <2>1, <1>0 DEF Linked
  <2>4. founded' \in SUBSET Companies
    BY <2>1, <1>0 DEF TypeOK
  <2> QED BY <2>1, <2>2, <2>3, <2>4, InsertKeeps
<1>2. CASE CommitInvite(w)
  <2>1. /\ req[w].op = "invite" /\ Finish(w) /\ ~Refused(w) /\ Insert(w, req[w].company)
        /\ UNCHANGED <<founded, staff, gone, profiled>>
    BY <1>2 DEF CommitInvite, Committing
  <2>2. req[w].company \in founded /\ founded \in SUBSET Companies
    BY <2>1, <1>0 DEF Asked, TypeOK
  <2>3. \A u \in Logins : account[u].company = req[w].company => account[u].email # req[w].email
    BY <2>1 DEF Refused
  <2> QED BY <2>1, <2>2, <2>3, InsertKeeps
<1> QED BY <1>1, <1>2

\* Employees come and change: the logins are not concerned.
LEMMA StaffKeeps ==
  ASSUME IInv, NEW w \in Workers, Finish(w), UNCHANGED <<founded, account, raced>>,
         staff' \in [Employees -> Staff \cup {Nobody}],
         gone' \in SUBSET Employees, profiled' \in SUBSET Employees,
         Hired \subseteq Hired',
         \A e \in Hired : staff'[e].company = staff[e].company
  PROVE  IInv'
<1>1. req' \in [Workers -> Request] /\ \A v \in Workers : Asked(v)' /\ Current(v)'
  BY FinishKeeps
<1>2. TypeOK'
  BY <1>1 DEF IInv, TypeOK
<1>3. UNCHANGED Logins
  BY DEF Logins
<1>4. Linked' /\ EmailsUniqueUnlessRaced' /\ OneLoginUnlessRaced'
  BY <1>3 DEF IInv, Linked, EmailsUniqueUnlessRaced, OneLoginUnlessRaced
<1> QED BY <1>1, <1>2, <1>4 DEF IInv

LEMMA EmployeesKeep ==
  ASSUME IInv, NEW w \in Workers,
         CommitHire(w) \/ CommitEdit(w) \/ CommitFire(w) \/ CommitDeclare(w)
  PROVE  IInv'
<1>0. TypeOK /\ Asked(w) /\ req[w] \in Request
  BY DEF IInv, TypeOK
<1>1. CASE CommitHire(w)
  <2>1. PICK new \in Employees \ Hired :
          staff' = [staff EXCEPT ![new] = [company |-> req[w].company, email |-> req[w].email]]
    BY <1>1 DEF CommitHire
  <2>2. /\ req[w].op = "hire" /\ Finish(w)
        /\ UNCHANGED <<founded, account, gone, profiled, raced>>
    BY <1>1 DEF CommitHire, Committing
  <2>3. [company |-> req[w].company, email |-> req[w].email] \in Staff
    BY <2>2, <1>0 DEF Asked, Staff
  <2>4. staff' \in [Employees -> Staff \cup {Nobody}]
    BY <2>1, <2>3, <1>0 DEF TypeOK
  <2>5. \A e \in Hired : staff'[e] = staff[e]
    BY <2>1, <1>0 DEF Hired, TypeOK
  <2>6. Hired \subseteq Hired'
    BY <2>5 DEF Hired
  <2> QED BY <2>2, <2>4, <2>5, <2>6, <1>0, StaffKeeps DEF TypeOK
<1>2. CASE CommitEdit(w)
  <2>0. PICK one : one = req[w].employee
    OBVIOUS
  <2>1. /\ req[w].op = "edit" /\ Finish(w)
        /\ staff' = [staff EXCEPT ![one].email =
                       Written(staff[one].email, req[w].was, req[w].email)]
        /\ UNCHANGED <<founded, account, gone, profiled, raced>>
    BY <2>0, <1>2 DEF CommitEdit, Committing
  <2>2. one \in Employees /\ staff[one] \in Staff
    BY <2>0, <2>1, <1>0 DEF Asked, Hired, TypeOK
  <2>3. Written(staff[one].email, req[w].was, req[w].email) \in Emails
    BY <2>1, <2>2, <1>0 DEF Written, Asked, Staff
  <2>4. staff'[one] \in Staff /\ staff'[one].company = staff[one].company
    <3>1. staff'[one] = [staff[one] EXCEPT !.email =
                           Written(staff[one].email, req[w].was, req[w].email)]
      BY <2>1, <2>2, <1>0 DEF TypeOK
    <3> QED BY <3>1, <2>2, <2>3 DEF Staff
  <2>5. \A e \in Employees \ {one} : staff'[e] = staff[e]
    BY <2>1, <1>0 DEF TypeOK
  <2>6. staff' \in [Employees -> Staff \cup {Nobody}]
    <3>1. DOMAIN staff' = Employees /\ staff' = [e \in Employees |-> staff'[e]]
      BY <2>1, <1>0 DEF TypeOK
    <3>2. \A e \in Employees : staff'[e] \in Staff \cup {Nobody}
      BY <2>4, <2>5, <1>0 DEF TypeOK
    <3> QED BY <3>1, <3>2
  <2>7. Hired \subseteq Hired'
    BY <2>4, <2>5, AccountAssumption DEF Hired
  <2>8. \A e \in Hired : staff'[e].company = staff[e].company
    BY <2>4, <2>5 DEF Hired
  <2> QED BY <2>1, <2>6, <2>7, <2>8, <1>0, StaffKeeps DEF TypeOK
<1>3. CASE CommitFire(w) \/ CommitDeclare(w)
  <2>1. /\ req[w].op \in {"fire", "declare"} /\ Finish(w)
        /\ UNCHANGED <<founded, account, staff, raced>>
        /\ gone' \in {gone, gone \cup {req[w].employee}}
        /\ profiled' \in {profiled, profiled \cup {req[w].employee}}
    BY <1>3 DEF CommitFire, CommitDeclare, Committing
  <2>2. req[w].employee \in Employees
    BY <2>1, <1>0 DEF Asked, Hired
  <2>3. UNCHANGED Hired
    BY <2>1 DEF Hired
  <2> QED BY <2>1, <2>2, <2>3, <1>0, StaffKeeps DEF TypeOK
<1> QED BY <1>1, <1>2, <1>3

-----------------------------------------------------------------------------
LEMMA InitIInv == Init => IInv
<1> SUFFICES ASSUME Init PROVE IInv
  OBVIOUS
<1>1. Logins = {} /\ Hired = {}
  BY DEF Init, Logins, Hired
<1>2. TypeOK
  BY IdleType DEF Init, TypeOK
<1>3. \A w \in Workers : req[w].op = "none"
  BY IdleType DEF Init
<1>4. \A w \in Workers : Asked(w) /\ Current(w)
  BY <1>3 DEF Asked, Current
<1>5. Linked /\ EmailsUniqueUnlessRaced /\ OneLoginUnlessRaced
  BY <1>1 DEF Linked, EmailsUniqueUnlessRaced, OneLoginUnlessRaced
<1> QED BY <1>2, <1>4, <1>5 DEF IInv

LEMMA NextIInv == IInv /\ [Next]_vars => IInv'
<1> SUFFICES ASSUME IInv, [Next]_vars PROVE IInv'
  OBVIOUS
<1>1. ASSUME NEW w \in Workers,
             \/ LoadSignup(w) \/ LoadInvite(w) \/ LoadHire(w) \/ LoadEdit(w)
             \/ LoadFire(w) \/ LoadDeclare(w)
      PROVE  IInv'
  BY <1>1, LoadsKeep
<1>2. ASSUME NEW w \in Workers, CommitSignup(w) \/ CommitInvite(w) PROVE IInv'
  BY <1>2, LoginsKeep
<1>3. ASSUME NEW w \in Workers,
             CommitHire(w) \/ CommitEdit(w) \/ CommitFire(w) \/ CommitDeclare(w)
      PROVE  IInv'
  BY <1>3, EmployeesKeep
<1>4. ASSUME NEW w \in Workers, Rollback(w) PROVE IInv'
  <2>1. /\ req' = [req EXCEPT ![w] = Idle] /\ UNCHANGED <<tables, raced>>
        /\ req'[w] = Idle
    BY <1>4 DEF Rollback, IInv, TypeOK
  <2>2. Asked(w)' /\ Current(w)'
    BY <2>1, IdleType DEF Asked, Current
  <2> QED BY <2>1, <2>2, IdleType, BeginKeeps
<1>5. CASE UNCHANGED vars
  <2>1. UNCHANGED <<tables, raced>> /\ UNCHANGED req
    BY <1>5 DEF vars
  <2>2. TypeOK'
    BY <2>1 DEF IInv, TypeOK, tables
  <2> QED BY <2>1, <2>2, TablesOnly DEF IInv
<1> QED BY <1>1, <1>2, <1>3, <1>4, <1>5 DEF Next

\* A constraint that refuses a request nobody overlapped refuses it for what its
\* look-up leaves out.
LEMMA IInvLoneFails == IInv => LoneFailsOnFormerStaff
<1> SUFFICES ASSUME IInv, NEW w \in Workers, req[w].op # "none", ~req[w].met, Refused(w)
             PROVE  \E e \in gone : staff[e].company = req[w].company /\ staff[e].email = req[w].email
  BY DEF LoneFailsOnFormerStaff
<1>1. Current(w)
  BY DEF IInv
<1>2. CASE req[w].op = "invite"
  BY <1>1, <1>2 DEF Refused, Current
<1>3. CASE req[w].op \in {"hire", "edit"}
  <2>1. PICK e \in Hired : staff[e].company = req[w].company /\ staff[e].email = req[w].email
    BY <1>3 DEF Refused
  <2> QED BY <2>1, <1>1, <1>3 DEF Current, Present
<1>4. CASE req[w].op = "declare"
  BY <1>1, <1>4 DEF Refused, Current
<1> QED BY <1>2, <1>3, <1>4 DEF Refused

\* Every table and request keeps its type; what requests are about exists.
THEOREM AccountsWellFormed == Spec => []TypeOK
<1>1. IInv => TypeOK
  BY DEF IInv
<1> QED BY <1>1, InitIInv, NextIInv, PTL DEF Spec

\* Whatever sign-ups and invitations overlap, an address is unique within a company, and
\* two companies share one only if a login was created beside another commit.
THEOREM AddressesUnique == Spec => []EmailsUniqueUnlessRaced
<1>1. IInv => EmailsUniqueUnlessRaced
  BY DEF IInv
<1> QED BY <1>1, InitIInv, NextIInv, PTL DEF Spec

\* A login is linked to an employee of its own company, and to one who has no other,
\* unless it was created beside another commit.
THEOREM OneLoginEach == Spec => []OneLoginUnlessRaced
<1>1. IInv => OneLoginUnlessRaced
  BY DEF IInv
<1> QED BY <1>1, InitIInv, NextIInv, PTL DEF Spec

\* A request that nobody overlapped fails on a constraint for one reason only: the
\* address of an employee who was deleted.
THEOREM LoneRequestsServed == Spec => []LoneFailsOnFormerStaff
  BY InitIInv, NextIInv, IInvLoneFails, PTL DEF Spec
=============================================================================
