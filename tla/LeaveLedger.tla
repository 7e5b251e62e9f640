----------------------------- MODULE LeaveLedger -----------------------------
(***************************************************************************)
(* The leave requests of one employee for one leave type and the balance   *)
(* they consume: app/services/leave_service.py.                            *)
(*                                                                         *)
(* A handler reads the request, then the leave type and the balance, then  *)
(* commits; another worker's commit may fall in between.  Session!Written  *)
(* says what a commit stores.  Days are counted in halves.                 *)
(***************************************************************************)
EXTENDS Integers, FiniteSets, FiniteSetsExt, Session

CONSTANTS
  Requests,     \* requests that may be filed, each once
  Span,         \* the dates a request covers
  Days,         \* half days it costs: one for a half-day request
  Credits,      \* what the accrual rule may credit for the year so far
  Users,        \* people who file and decide
  Workers,      \* HTTP requests that may be in flight at the same time
  EnforceMakerChecker,   \* the company's segregation-of-duties setting
  NoUser,       \* nobody has decided yet
  NoRequest     \* the HTTP request concerns no leave request

ASSUME LedgerAssumption ==
  /\ IsFiniteSet(Requests)
  /\ Days \in [Requests -> Nat \ {0}]
  /\ Credits \subseteq Nat
  /\ EnforceMakerChecker \in BOOLEAN
  /\ NoUser \notin Users
  /\ NoRequest \notin Requests

Active   == {"PENDING", "APPROVED"}
Statuses == {"NONE", "REJECTED", "CANCELLED"} \cup Active
Ops      == {"file", "approve", "reject", "cancel", "list"}
Stages   == {"idle", "loaded", "read"}

VARIABLES
  status, filer, decider,      \* the leave_requests rows; "NONE" before the insert
  seeded, accrued, used,       \* the leave_balances row, once there is one
  paid, credit,                \* the leave type: is_paid, _accrued_for at this date
  req,                         \* what each worker is doing
  \* History: approved requests whose approval charged the balance; is_paid was changed
  charged, toggled

rows    == <<status, filer, decider>>
balance == <<seeded, accrued, used>>
type    == <<paid, credit>>
vars    == <<rows, balance, type, req, charged, toggled>>

(***************************************************************************)
(* What a worker holds: the request row as loaded; whether its operation   *)
(* touches the balance, the balance as read and as it will be written.     *)
(***************************************************************************)
Balance == [seeded: BOOLEAN, accrued: Nat, used: Nat]
Request == [op: Ops, at: Stages, r: Requests \cup {NoRequest}, actor: Users \cup {NoUser},
            status: Statuses, decider: Users \cup {NoUser},
            touches: BOOLEAN, old: Balance, new: Balance]

NoBalance == [seeded |-> FALSE, accrued |-> 0, used |-> 0]
Idle == [op |-> "list", at |-> "idle", r |-> NoRequest, actor |-> NoUser,
         status |-> "NONE", decider |-> NoUser,
         touches |-> FALSE, old |-> NoBalance, new |-> NoBalance]

TypeOK ==
  /\ status \in [Requests -> Statuses]
  /\ filer \in [Requests -> Users \cup {NoUser}]
  /\ decider \in [Requests -> Users \cup {NoUser}]
  /\ seeded \in BOOLEAN /\ accrued \in Nat /\ used \in Nat
  /\ paid \in BOOLEAN /\ credit \in Credits
  /\ req \in [Workers -> Request]
  /\ charged \in SUBSET Requests
  /\ toggled \in BOOLEAN

Init ==
  /\ status = [r \in Requests |-> "NONE"]
  /\ filer = [r \in Requests |-> NoUser]
  /\ decider = [r \in Requests |-> NoUser]
  /\ seeded = FALSE /\ accrued = 0 /\ used = 0
  /\ paid \in BOOLEAN /\ credit \in Credits
  /\ req = [w \in Workers |-> Idle]
  /\ charged = {}
  /\ toggled = FALSE

-----------------------------------------------------------------------------
\* Mutant of Accepts: a decided request can be cancelled.
AcceptsCancelDecided(op) ==
  CASE op = "file" -> {"NONE"}
    [] op \in {"approve", "reject"} -> {"PENDING"}
    [] op = "cancel" -> Active \cup {"REJECTED"}

\* The statuses of a request in which each handler accepts it.
Accepts(op) ==
  CASE op = "file" -> {"NONE"}
    [] op \in {"approve", "reject"} -> {"PENDING"}
    [] op = "cancel" -> Active

Hold(w, held) == req' = [req EXCEPT ![w] = held]

\* The first read of a handler, and its guard.
Load(w, op, r, actor) ==
  /\ req[w].at = "idle"
  /\ status[r] \in Accepts(op)
  /\ Hold(w, [Idle EXCEPT !.op = op, !.at = "loaded", !.r = r, !.actor = actor,
                          !.status = status[r], !.decider = decider[r]])
  /\ UNCHANGED <<rows, balance, type, charged, toggled>>

\* Mutant of Clash: only approved leave is in the way.
ClashApproved(r) == \E s \in Requests \ {r} : status[s] = "APPROVED" /\ Span[s] \cap Span[r] # {}

\* create_request refuses dates that overlap an active request.
Clash(r) == \E s \in Requests \ {r} : status[s] \in Active /\ Span[s] \cap Span[r] # {}

LoadFile(w) == \E r \in Requests, u \in Users : ~Clash(r) /\ Load(w, "file", r, u)

\* Mutant of LoadApprove: no segregation of duties.
LoadApproveByAnyone(w) == \E r \in Requests, u \in Users : Load(w, "approve", r, u)

\* approve_request: with segregation of duties on, not by the person who filed.
LoadApprove(w) ==
  \E r \in Requests, u \in Users :
    ~(EnforceMakerChecker /\ filer[r] = u) /\ Load(w, "approve", r, u)

LoadDecision(w) ==
  \E op \in {"reject", "cancel"}, r \in Requests, u \in Users : Load(w, op, r, u)

\* list_balances is a GET that writes: it seeds and refreshes the balance.
LoadList(w) ==
  /\ req[w].at = "idle"
  /\ Hold(w, [Idle EXCEPT !.at = "loaded"])
  /\ UNCHANGED <<rows, balance, type, charged, toggled>>

-----------------------------------------------------------------------------
\* Mutant of TouchesBalance: cancelling a PENDING request credits days back as well.
TouchesOnAnyCancel(w) == paid /\ req[w].op \in {"approve", "cancel", "list"}

\* Only an approval, the cancellation of an APPROVED request and a listing look at the
\* balance, and only when the type is paid (now).
TouchesBalance(w) ==
  /\ paid
  /\ \/ req[w].op \in {"approve", "list"}
     \/ req[w].op = "cancel" /\ req[w].status = "APPROVED"

\* Mutant of Ensured: the accrued days follow the accrual point down as well as up.
EnsuredAtCredit == [seeded |-> TRUE, accrued |-> credit, used |-> IF seeded THEN used ELSE 0]

\* ensure_balance: a balance is created at the accrual point, or raised to it.
Ensured == [seeded  |-> TRUE,
            accrued |-> IF seeded /\ accrued > credit THEN accrued ELSE credit,
            used    |-> IF seeded THEN used ELSE 0]

\* Mutant of Charge: a cancellation is not clamped at zero.
ChargeUnclamped(w, usedNow) ==
  CASE req[w].op = "approve" -> usedNow + Days[req[w].r]
    [] req[w].op = "cancel"  -> usedNow - Days[req[w].r]
    [] OTHER -> usedNow

\* The handler's effect on the days used.
Charge(w, usedNow) ==
  CASE req[w].op = "approve" -> usedNow + Days[req[w].r]
    [] req[w].op = "cancel"  -> IF usedNow > Days[req[w].r] THEN usedNow - Days[req[w].r] ELSE 0
    [] OTHER -> usedNow

(***************************************************************************)
(* The leave type and the balance are read, and the new balance computed.  *)
(* An approval the balance does not cover is refused (rolled back).        *)
(***************************************************************************)
ReadBalance(w) ==
  /\ req[w].at = "loaded"
  /\ TouchesBalance(w) /\ req[w].op = "approve" =>
       Ensured.accrued - Ensured.used >= Days[req[w].r]
  /\ Hold(w, [req[w] EXCEPT !.at = "read",
                !.touches = TouchesBalance(w),
                !.old = [seeded |-> seeded, accrued |-> accrued, used |-> used],
                !.new = [Ensured EXCEPT !.used = Charge(w, Ensured.used)]])
  /\ UNCHANGED <<rows, balance, type, charged, toggled>>

\* The balance row at a commit: inserted, or updated column by column.
WriteBalance(w) ==
  LET old == req[w].old
      new == req[w].new
  IN  IF ~req[w].touches THEN UNCHANGED balance
      ELSE /\ seeded' = TRUE
           /\ accrued' = IF old.seeded THEN Written(accrued, old.accrued, new.accrued) ELSE new.accrued
           /\ used' = IF old.seeded THEN Written(used, old.used, new.used) ELSE new.used

\* The unique constraint refuses a second balance row: the transaction fails.
Duplicate(w) == req[w].touches /\ ~req[w].old.seeded /\ seeded

\* The request row at a commit: the decision and who took it.
Decide(w, to) ==
  LET r == req[w].r
  IN  /\ status' = [status EXCEPT ![r] = Written(status[r], req[w].status, to)]
      /\ decider' = [decider EXCEPT ![r] = Written(decider[r], req[w].decider, req[w].actor)]
      /\ UNCHANGED filer

Committing(w, op) == req[w].op = op /\ req[w].at = "read" /\ ~Duplicate(w)

Finish(w) == Hold(w, Idle)

CommitFile(w) ==
  /\ Committing(w, "file")
  /\ status[req[w].r] = "NONE"
  /\ status' = [status EXCEPT ![req[w].r] = "PENDING"]
  /\ filer' = [filer EXCEPT ![req[w].r] = req[w].actor]
  /\ Finish(w)
  /\ UNCHANGED <<decider, balance, type, charged, toggled>>

CommitApprove(w) ==
  /\ Committing(w, "approve")
  /\ Decide(w, "APPROVED")
  /\ WriteBalance(w)
  /\ charged' = IF req[w].touches THEN charged \cup {req[w].r} ELSE charged
  /\ Finish(w)
  /\ UNCHANGED <<type, toggled>>

CommitReject(w) ==
  /\ Committing(w, "reject")
  /\ Decide(w, "REJECTED")
  /\ Finish(w)
  /\ UNCHANGED <<balance, type, charged, toggled>>

CommitCancel(w) ==
  /\ Committing(w, "cancel")
  /\ Decide(w, "CANCELLED")
  /\ WriteBalance(w)
  /\ charged' = charged \ {req[w].r}
  /\ Finish(w)
  /\ UNCHANGED <<type, toggled>>

CommitList(w) ==
  /\ Committing(w, "list")
  /\ WriteBalance(w)
  /\ Finish(w)
  /\ UNCHANGED <<rows, type, charged, toggled>>

\* Refused, timed out, a database error: nothing is written.
Rollback(w) ==
  /\ req[w].at # "idle"
  /\ Finish(w)
  /\ UNCHANGED <<rows, balance, type, charged, toggled>>

\* update_type edits quota, accrual method and is_paid; accrual follows the calendar.
UpdateType ==
  /\ paid' \in BOOLEAN /\ credit' \in Credits
  /\ toggled' = (toggled \/ paid' # paid)
  /\ UNCHANGED <<rows, balance, req, charged>>

Next ==
  \/ \E w \in Workers :
       \/ LoadFile(w) \/ LoadApprove(w) \/ LoadDecision(w) \/ LoadList(w)
       \/ ReadBalance(w)
       \/ CommitFile(w) \/ CommitApprove(w) \/ CommitReject(w) \/ CommitCancel(w)
       \/ CommitList(w) \/ Rollback(w)
  \/ UpdateType

Spec == Init /\ [][Next]_vars

\* get_approved_leave_days: what a timesheet is told of each day on approved leave, by
\* what is_paid says now.  Half a day off leaves the day worked, with or without a loss.
LeaveDays ==
  LET approved == {r \in Requests : status[r] = "APPROVED"}
      covering(d) == CHOOSE r \in approved : d \in Span[r]
  IN  [d \in UNION {Span[r] : r \in approved} |->
         IF Days[covering(d)] = 1 THEN IF paid THEN "HALF_DAY_PAID" ELSE "HALF_DAY"
         ELSE IF paid THEN "PAID_LEAVE" ELSE "UNPAID_LEAVE"]

-----------------------------------------------------------------------------
(***************************************************************************)
(* Properties.                                                             *)
(***************************************************************************)

\* Segregation of duties: an APPROVED request was decided by somebody other than the
\* person who filed it, whatever the interleaving of decisions.
ApprovedByOther ==
  EnforceMakerChecker =>
    \A r \in Requests : status[r] = "APPROVED" => decider[r] \in Users /\ decider[r] # filer[r]

\* create_request: "Block a range that overlaps an existing active request".
NoDoubleLeave ==
  \A r, s \in Requests :
    r # s /\ status[r] \in Active /\ status[s] \in Active => Span[r] \cap Span[s] = {}

\* A balance is never overdrawn: accrual only rises, even when the quota is cut or the
\* type turned unpaid and back, and an approval fits what was accrued.
NeverOverdrawn == used <= accrued

Cost(S) == MapThenSumSet(LAMBDA r : Days[r], S)

\* Approved leave is taken either out of the balance or out of the pay, never both or
\* neither, as long as is_paid is not edited: the days used are those of the requests
\* whose approval charged them, credited back exactly once when they are cancelled, and
\* the timesheet is told that the days of just these requests are paid.
LedgerMatches ==
  ~toggled =>
    /\ used = Cost(charged)
    /\ \A r \in Requests : status[r] = "APPROVED" =>
         \A d \in Span[r] : r \in charged <=> LeaveDays[d] \in {"PAID_LEAVE", "HALF_DAY_PAID"}

\* A rejected or cancelled request is never revived, so that its dates can be filed for
\* again and its days are not charged behind the applicant's back.
DecidedIsFinal ==
  [][\A r \in Requests : status[r] \in {"REJECTED", "CANCELLED"} =>
       status'[r] = status[r] /\ decider'[r] = decider[r]]_vars
=============================================================================
