-------------------------- MODULE LeaveLedger_proofs --------------------------
(***************************************************************************)
(* Proofs about LeaveLedger: first what holds for any requests, users and  *)
(* number of handlers, whatever their interleaving, then what holds when   *)
(* HTTP requests are served one at a time.                                 *)
(***************************************************************************)
EXTENDS LeaveLedger, SumTheorems, TLAPS

(***************************************************************************)
(* What a worker holds: a request it was asked to decide or file, in the   *)
(* status its guard saw.                                                   *)
(***************************************************************************)
HeldInv ==
  \A w \in Workers : req[w].op # "list" =>
    /\ req[w].r \in Requests
    /\ req[w].actor \in Users
    /\ req[w].status \in Accepts(req[w].op)

TypeInv == TypeOK /\ HeldInv

\* The request a worker holds when it serves none is well-formed.
LEMMA IdleType == Idle \in Request /\ Idle.op = "list"
BY DEF Idle, Request, Ops, Stages, Statuses, Balance, NoBalance

\* A step that only changes what one worker holds keeps the types.
LEMMA HoldTypeInv ==
  ASSUME TypeInv, NEW w \in Workers, NEW held \in Request, Hold(w, held),
         held.op # "list" => /\ held.r \in Requests
                             /\ held.actor \in Users
                             /\ held.status \in Accepts(held.op)
  PROVE  req' \in [Workers -> Request] /\ HeldInv'
<1>1. req \in [Workers -> Request]
  BY DEF TypeInv, TypeOK
<1>2. req' = [req EXCEPT ![w] = held]
  BY DEF Hold
<1>3. req' \in [Workers -> Request]
  BY <1>1, <1>2
<1>4. ASSUME NEW v \in Workers, req'[v].op # "list"
      PROVE  /\ req'[v].r \in Requests
             /\ req'[v].actor \in Users
             /\ req'[v].status \in Accepts(req'[v].op)
  <2>1. CASE v = w
    <3>1. req'[v] = held
      BY <1>1, <1>2, <2>1
    <3> QED BY <3>1, <1>4
  <2>2. CASE v # w
    <3>1. req'[v] = req[v]
      BY <1>1, <1>2, <2>2
    <3> QED BY <3>1, <1>4 DEF TypeInv, HeldInv
  <2> QED BY <2>1, <2>2
<1> QED BY <1>3, <1>4 DEF HeldInv, Accepts

\* The end of an HTTP request.
LEMMA FinishTypeInv ==
  ASSUME TypeInv, NEW w \in Workers, Finish(w)
  PROVE  req' \in [Workers -> Request] /\ HeldInv'
BY IdleType, HoldTypeInv DEF Finish

\* Loading a request.
LEMMA LoadTypeInv ==
  ASSUME TypeInv, NEW w \in Workers, NEW op \in {"file", "approve", "reject", "cancel"},
         NEW r \in Requests, NEW u \in Users, Load(w, op, r, u)
  PROVE  TypeInv'
<1> DEFINE held == [Idle EXCEPT !.op = op, !.at = "loaded", !.r = r, !.actor = u,
                                !.status = status[r], !.decider = decider[r]]
<1>1. status[r] \in Statuses /\ decider[r] \in Users \cup {NoUser}
  BY DEF TypeInv, TypeOK
<1>2. held.op = op /\ held.r = r /\ held.actor = u /\ held.status = status[r]
  BY IdleType DEF Request
<1>3. held \in Request
  BY <1>1, IdleType DEF Request, Ops, Stages
<1>4. Hold(w, held) /\ status[r] \in Accepts(op)
  BY DEF Load
<1> HIDE DEF held
<1>5. req' \in [Workers -> Request] /\ HeldInv'
  BY <1>2, <1>3, <1>4, HoldTypeInv
<1> QED BY <1>5 DEF Load, TypeInv, TypeOK, rows, balance, type

\* Reading the balance: what was used stays a natural number, and grows or shrinks by
\* whole requests.
LEMMA ReadTypeInv ==
  ASSUME TypeInv, NEW w \in Workers, ReadBalance(w)
  PROVE  TypeInv'
<1>1. /\ seeded \in BOOLEAN /\ accrued \in Nat /\ used \in Nat /\ credit \in Nat
      /\ req[w] \in Request /\ paid \in BOOLEAN
  BY LedgerAssumption DEF TypeInv, TypeOK
<1>2. Ensured \in Balance /\ Ensured.used \in Nat
  BY <1>1 DEF Ensured, Balance
<1>3. req[w].op \in {"approve", "cancel"} => Days[req[w].r] \in Nat
  <2>1. req[w].op \in {"approve", "cancel"} => req[w].r \in Requests
    BY DEF TypeInv, HeldInv
  <2> QED BY <2>1, LedgerAssumption
<1>4. Charge(w, Ensured.used) \in Nat
  BY <1>2, <1>3 DEF Charge
<1>5. TouchesBalance(w) \in BOOLEAN
  BY DEF TouchesBalance
<1> DEFINE new == [Ensured EXCEPT !.used = Charge(w, Ensured.used)]
           old == [seeded |-> seeded, accrued |-> accrued, used |-> used]
           held == [req[w] EXCEPT !.at = "read", !.touches = TouchesBalance(w),
                                  !.old = old, !.new = new]
<1>6. new \in Balance
  BY <1>2, <1>4 DEF Balance
<1>7. old \in Balance
  BY <1>1 DEF Balance
<1>8. Hold(w, held)
  BY DEF ReadBalance
<1> HIDE DEF new, old
<1>9. /\ held.op = req[w].op /\ held.r = req[w].r
      /\ held.actor = req[w].actor /\ held.status = req[w].status
  BY <1>1 DEF Request
<1>10. held \in Request
  BY <1>1, <1>5, <1>6, <1>7 DEF Request, Stages
<1> HIDE DEF held
<1>11. req' \in [Workers -> Request] /\ HeldInv'
  BY <1>8, <1>9, <1>10, HoldTypeInv DEF TypeInv, HeldInv
<1> QED BY <1>11 DEF ReadBalance, TypeInv, TypeOK, rows, balance, type

\* A written column holds the current or the computed value.
LEMMA WrittenType ==
  ASSUME NEW S, NEW current \in S, NEW loaded, NEW computed \in S
  PROVE  Written(current, loaded, computed) \in S
BY DEF Written

\* The balance row stays well-formed at a commit.
LEMMA WriteBalanceType ==
  ASSUME TypeInv, NEW w \in Workers, WriteBalance(w)
  PROVE  seeded' \in BOOLEAN /\ accrued' \in Nat /\ used' \in Nat
<1>1. /\ seeded \in BOOLEAN /\ accrued \in Nat /\ used \in Nat
      /\ req[w].old \in Balance /\ req[w].new \in Balance
  BY DEF TypeInv, TypeOK, Request
<1>2. CASE ~req[w].touches
  BY <1>1, <1>2 DEF WriteBalance, balance
<1>3. CASE req[w].touches
  <2>1. /\ seeded' = TRUE
        /\ accrued' = IF req[w].old.seeded
                      THEN Written(accrued, req[w].old.accrued, req[w].new.accrued)
                      ELSE req[w].new.accrued
        /\ used' = IF req[w].old.seeded
                   THEN Written(used, req[w].old.used, req[w].new.used) ELSE req[w].new.used
    BY <1>3 DEF WriteBalance
  <2>2. req[w].new.accrued \in Nat /\ req[w].new.used \in Nat
    BY <1>1 DEF Balance
  <2> QED BY <1>1, <2>1, <2>2, WrittenType
<1> QED BY <1>2, <1>3

\* So do the rows of the requests at a decision.
LEMMA DecideType ==
  ASSUME TypeInv, NEW w \in Workers, NEW to \in Statuses, req[w].op # "list", Decide(w, to)
  PROVE  /\ status' \in [Requests -> Statuses]
         /\ filer' \in [Requests -> Users \cup {NoUser}]
         /\ decider' \in [Requests -> Users \cup {NoUser}]
<1> DEFINE r == req[w].r
<1>1. r \in Requests /\ req[w].actor \in Users
  BY DEF TypeInv, HeldInv
<1>2. /\ status \in [Requests -> Statuses]
      /\ filer \in [Requests -> Users \cup {NoUser}]
      /\ decider \in [Requests -> Users \cup {NoUser}]
  BY DEF TypeInv, TypeOK
<1>3. Written(status[r], req[w].status, to) \in Statuses
  BY <1>1, <1>2, WrittenType
<1>4. Written(decider[r], req[w].decider, req[w].actor) \in Users \cup {NoUser}
  BY <1>1, <1>2, WrittenType
<1>5. /\ status' = [status EXCEPT ![r] = Written(status[r], req[w].status, to)]
      /\ decider' = [decider EXCEPT ![r] = Written(decider[r], req[w].decider, req[w].actor)]
      /\ filer' = filer
  BY DEF Decide
<1> QED BY <1>1, <1>2, <1>3, <1>4, <1>5

\* The initial states have the right types.
LEMMA InitTypeInv == Init => TypeInv
<1> SUFFICES ASSUME Init PROVE TypeInv
  OBVIOUS
<1>1. req \in [Workers -> Request] /\ HeldInv
  BY IdleType DEF Init, HeldInv
<1>2. used \in Nat /\ accrued \in Nat
  BY DEF Init
<1> QED BY <1>1, <1>2 DEF Init, TypeInv, TypeOK, Statuses

\* Every step keeps them.
LEMMA NextTypeInv == TypeInv /\ [Next]_vars => TypeInv'
<1> SUFFICES ASSUME TypeInv, [Next]_vars PROVE TypeInv'
  OBVIOUS
<1>1. ASSUME NEW w \in Workers, LoadFile(w) \/ LoadApprove(w) \/ LoadDecision(w) PROVE TypeInv'
  BY <1>1, LoadTypeInv DEF LoadFile, LoadApprove, LoadDecision
<1>2. ASSUME NEW w \in Workers, LoadList(w) PROVE TypeInv'
  <2> DEFINE held == [Idle EXCEPT !.at = "loaded"]
  <2>1. held \in Request /\ held.op = "list"
    BY DEF Idle, Request, Ops, Stages, Statuses, Balance, NoBalance
  <2>2. Hold(w, held)
    BY <1>2 DEF LoadList
  <2> HIDE DEF held
  <2>3. req' \in [Workers -> Request] /\ HeldInv'
    BY <2>1, <2>2, HoldTypeInv
  <2> QED BY <1>2, <2>3 DEF LoadList, TypeInv, TypeOK, rows, balance, type
<1>3. ASSUME NEW w \in Workers, ReadBalance(w) PROVE TypeInv'
  BY <1>3, ReadTypeInv
<1>4. ASSUME NEW w \in Workers, CommitFile(w) PROVE TypeInv'
  <2>1. Finish(w) /\ req[w].op = "file"
    BY <1>4 DEF CommitFile, Committing
  <2>2. req[w].r \in Requests /\ req[w].actor \in Users
    BY <2>1 DEF TypeInv, HeldInv
  <2>3. /\ status' = [status EXCEPT ![req[w].r] = "PENDING"]
        /\ filer' = [filer EXCEPT ![req[w].r] = req[w].actor]
        /\ UNCHANGED <<decider, seeded, accrued, used, paid, credit, charged, toggled>>
    BY <1>4 DEF CommitFile, balance, type
  <2>4. /\ status' \in [Requests -> Statuses]
        /\ filer' \in [Requests -> Users \cup {NoUser}]
    BY <2>2, <2>3 DEF TypeInv, TypeOK, Statuses, Active
  <2> QED BY <2>1, <2>3, <2>4, FinishTypeInv DEF TypeInv, TypeOK
<1>5. ASSUME NEW w \in Workers, CommitApprove(w) PROVE TypeInv'
  <2>1. /\ Finish(w) /\ req[w].op = "approve" /\ Decide(w, "APPROVED") /\ WriteBalance(w)
        /\ UNCHANGED <<paid, credit, toggled>>
    BY <1>5 DEF CommitApprove, Committing, type
  <2>2. charged' \in SUBSET Requests
    BY <1>5, <2>1 DEF CommitApprove, TypeInv, TypeOK, HeldInv
  <2>3. "APPROVED" \in Statuses
    BY DEF Statuses, Active
  <2> QED BY <2>1, <2>2, <2>3, FinishTypeInv, DecideType, WriteBalanceType DEF TypeInv, TypeOK
<1>6. ASSUME NEW w \in Workers, CommitReject(w) PROVE TypeInv'
  <2>1. /\ Finish(w) /\ req[w].op = "reject" /\ Decide(w, "REJECTED")
        /\ UNCHANGED <<seeded, accrued, used, paid, credit, charged, toggled>>
    BY <1>6 DEF CommitReject, Committing, balance, type
  <2>2. "REJECTED" \in Statuses
    BY DEF Statuses
  <2> QED BY <2>1, <2>2, FinishTypeInv, DecideType DEF TypeInv, TypeOK
<1>7. ASSUME NEW w \in Workers, CommitCancel(w) PROVE TypeInv'
  <2>1. /\ Finish(w) /\ req[w].op = "cancel" /\ Decide(w, "CANCELLED") /\ WriteBalance(w)
        /\ charged' = charged \ {req[w].r}
        /\ UNCHANGED <<paid, credit, toggled>>
    BY <1>7 DEF CommitCancel, Committing, type
  <2>2. "CANCELLED" \in Statuses
    BY DEF Statuses
  <2> QED BY <2>1, <2>2, FinishTypeInv, DecideType, WriteBalanceType DEF TypeInv, TypeOK
<1>8. ASSUME NEW w \in Workers, CommitList(w) PROVE TypeInv'
  <2>1. /\ Finish(w) /\ WriteBalance(w)
        /\ UNCHANGED <<status, filer, decider, paid, credit, charged, toggled>>
    BY <1>8 DEF CommitList, rows, type
  <2> QED BY <2>1, FinishTypeInv, WriteBalanceType DEF TypeInv, TypeOK
<1>9. ASSUME NEW w \in Workers, Rollback(w) PROVE TypeInv'
  <2>1. Finish(w)
    BY <1>9 DEF Rollback
  <2> QED BY <1>9, <2>1, FinishTypeInv DEF Rollback, TypeInv, TypeOK, rows, balance, type
<1>10. CASE UpdateType
  BY <1>10 DEF UpdateType, TypeInv, TypeOK, HeldInv, Accepts, rows, balance
<1>11. CASE UNCHANGED vars
  BY <1>11 DEF vars, TypeInv, TypeOK, HeldInv, Accepts, rows, balance, type
<1> QED BY <1>1, <1>2, <1>3, <1>4, <1>5, <1>6, <1>7, <1>8, <1>9, <1>10, <1>11 DEF Next

LEMMA TypeInvariance == Spec => []TypeInv
BY InitTypeInv, NextTypeInv, PTL DEF Spec

\* The rows, the balance and what the handlers hold keep their types: in particular, the
\* days used never become negative, whatever is approved and cancelled at the same time.
THEOREM LedgerTypeCorrect == Spec => []TypeOK
<1>1. TypeInv => TypeOK
  BY DEF TypeInv
<1> QED BY <1>1, TypeInvariance, PTL

-----------------------------------------------------------------------------
(***************************************************************************)
(* Segregation of duties.  An approval in flight was checked against the   *)
(* filer when it loaded the request, and the filer of a filed request      *)
(* never changes.  The commit stores the approver over whatever was        *)
(* written meanwhile, because the approval loaded a PENDING request, which *)
(* nobody had decided.                                                     *)
(***************************************************************************)
UndecidedHasNoDecider ==
  \A r \in Requests : status[r] \in {"NONE", "PENDING"} => decider[r] = NoUser

ApproverIsOther ==
  \A w \in Workers : req[w].op = "approve" =>
    /\ EnforceMakerChecker => filer[req[w].r] # req[w].actor
    /\ status[req[w].r] # "NONE"
    /\ req[w].decider = NoUser

SegregationInv == TypeInv /\ UndecidedHasNoDecider /\ ApproverIsOther /\ ApprovedByOther

LEMMA InitSegregation == Init => SegregationInv
<1> SUFFICES ASSUME Init PROVE SegregationInv
  OBVIOUS
<1>1. \A w \in Workers : req[w].op = "list"
  BY IdleType DEF Init
<1> QED BY <1>1, InitTypeInv
    DEF Init, SegregationInv, UndecidedHasNoDecider, ApproverIsOther, ApprovedByOther

\* A step that leaves the rows alone and starts no approval keeps it.
LEMMA KeepSegregation ==
  ASSUME SegregationInv, TypeInv', UNCHANGED rows, NEW w \in Workers, NEW held,
         Hold(w, held),
         held.op = "approve" => /\ EnforceMakerChecker => filer[held.r] # held.actor
                                /\ status[held.r] # "NONE"
                                /\ held.decider = NoUser
  PROVE  SegregationInv'
<1>1. status' = status /\ filer' = filer /\ decider' = decider
  BY DEF rows
<1>2. ASSUME NEW v \in Workers, req'[v].op = "approve"
      PROVE  /\ EnforceMakerChecker => filer'[req'[v].r] # req'[v].actor
             /\ status'[req'[v].r] # "NONE"
             /\ req'[v].decider = NoUser
  <2>1. req'[v] = IF v = w THEN held ELSE req[v]
    BY DEF Hold, SegregationInv, TypeInv, TypeOK
  <2> QED BY <1>1, <1>2, <2>1 DEF SegregationInv, ApproverIsOther
<1> QED BY <1>1, <1>2 DEF SegregationInv, UndecidedHasNoDecider, ApproverIsOther, ApprovedByOther

\* Loading: an approval checks the filer.
LEMMA LoadSegregation ==
  ASSUME SegregationInv, TypeInv', NEW w \in Workers,
         NEW op \in {"file", "approve", "reject", "cancel"}, NEW r \in Requests, NEW u \in Users,
         Load(w, op, r, u), op = "approve" => ~(EnforceMakerChecker /\ filer[r] = u)
  PROVE  SegregationInv'
<1> DEFINE held == [Idle EXCEPT !.op = op, !.at = "loaded", !.r = r, !.actor = u,
                                !.status = status[r], !.decider = decider[r]]
<1>1. held.op = op /\ held.r = r /\ held.actor = u /\ held.decider = decider[r]
  BY IdleType DEF Request
<1>2. Hold(w, held) /\ status[r] \in Accepts(op) /\ UNCHANGED rows
  BY DEF Load
<1> HIDE DEF held
<1>3. op = "approve" => status[r] = "PENDING"
  BY <1>2 DEF Accepts
<1>4. op = "approve" => decider[r] = NoUser
  BY <1>3 DEF SegregationInv, UndecidedHasNoDecider
<1> QED BY <1>1, <1>2, <1>3, <1>4, KeepSegregation

\* The end of an HTTP request that leaves the rows alone.
LEMMA FinishSegregation ==
  ASSUME SegregationInv, TypeInv', UNCHANGED rows, NEW w \in Workers, Finish(w)
  PROVE  SegregationInv'
BY IdleType, KeepSegregation DEF Finish

\* A decision.  It always changes the status it loaded, so the commit stores it.
LEMMA DecideSegregation ==
  ASSUME SegregationInv, TypeInv', NEW w \in Workers, NEW op, NEW to,
         <<op, to>> \in {<<"approve", "APPROVED">>, <<"reject", "REJECTED">>,
                        <<"cancel", "CANCELLED">>},
         req[w].op = op, Decide(w, to), Finish(w)
  PROVE  SegregationInv'
<1> DEFINE r == req[w].r
<1>1. r \in Requests /\ req[w].actor \in Users /\ req[w].status \in Accepts(op)
  BY DEF SegregationInv, TypeInv, HeldInv
<1>2. req[w].status # to
  BY <1>1 DEF Accepts, Active
<1>3. /\ status' = [status EXCEPT ![r] = to]
      /\ decider' = [decider EXCEPT ![r] = Written(decider[r], req[w].decider, req[w].actor)]
      /\ filer' = filer
  BY <1>2 DEF Decide, Written
<1>4. /\ status \in [Requests -> Statuses]
      /\ decider \in [Requests -> Users \cup {NoUser}]
      /\ req \in [Workers -> Request]
  BY DEF SegregationInv, TypeInv, TypeOK
<1>5. UndecidedHasNoDecider'
  <2>1. to \notin {"NONE", "PENDING"}
    OBVIOUS
  <2> QED BY <1>1, <1>3, <1>4, <2>1 DEF SegregationInv, UndecidedHasNoDecider
<1>6. ApproverIsOther'
  <2> SUFFICES ASSUME NEW v \in Workers, req'[v].op = "approve"
               PROVE  /\ EnforceMakerChecker => filer'[req'[v].r] # req'[v].actor
                      /\ status'[req'[v].r] # "NONE"
                      /\ req'[v].decider = NoUser
    BY DEF ApproverIsOther
  <2>1. v # w /\ req'[v] = req[v]
    BY <1>4, IdleType DEF Finish, Hold
  <2>2. req[v].r \in Requests
    BY <2>1 DEF SegregationInv, TypeInv, HeldInv
  <2>3. to # "NONE"
    OBVIOUS
  <2> QED BY <1>1, <1>3, <1>4, <2>1, <2>2, <2>3 DEF SegregationInv, ApproverIsOther
<1>7. ApprovedByOther'
  <2> SUFFICES ASSUME EnforceMakerChecker, NEW s \in Requests, status'[s] = "APPROVED"
               PROVE  decider'[s] \in Users /\ decider'[s] # filer'[s]
    BY DEF ApprovedByOther
  <2>1. CASE s = r
    <3>1. op = "approve"
      BY <1>1, <1>3, <1>4, <2>1
    <3>2. filer[r] # req[w].actor /\ req[w].decider = NoUser
      BY <3>1 DEF SegregationInv, ApproverIsOther
    <3>3. req[w].actor # req[w].decider
      BY <1>1, <3>2, LedgerAssumption
    <3> QED BY <1>1, <1>3, <1>4, <2>1, <3>2, <3>3 DEF Written
  <2>2. CASE s # r
    BY <1>1, <1>3, <1>4, <2>2 DEF SegregationInv, ApprovedByOther
  <2> QED BY <2>1, <2>2
<1> QED BY <1>5, <1>6, <1>7 DEF SegregationInv

\* Every step keeps it.
LEMMA NextSegregation == SegregationInv /\ [Next]_vars => SegregationInv'
<1> SUFFICES ASSUME SegregationInv, [Next]_vars PROVE SegregationInv'
  OBVIOUS
<1>0. TypeInv /\ TypeInv'
  BY NextTypeInv DEF SegregationInv
<1>1. ASSUME NEW w \in Workers, LoadFile(w) \/ LoadApprove(w) \/ LoadDecision(w)
      PROVE  SegregationInv'
  BY <1>0, <1>1, LoadSegregation DEF LoadFile, LoadApprove, LoadDecision
<1>2. ASSUME NEW w \in Workers, LoadList(w) PROVE SegregationInv'
  <2> DEFINE held == [Idle EXCEPT !.at = "loaded"]
  <2>1. held.op = "list"
    BY IdleType DEF Request
  <2>2. Hold(w, held) /\ UNCHANGED rows
    BY <1>2 DEF LoadList
  <2> HIDE DEF held
  <2> QED BY <1>0, <2>1, <2>2, KeepSegregation
<1>3. ASSUME NEW w \in Workers, ReadBalance(w) PROVE SegregationInv'
  <2> DEFINE held == [req[w] EXCEPT !.at = "read", !.touches = TouchesBalance(w),
                        !.old = [seeded |-> seeded, accrued |-> accrued, used |-> used],
                        !.new = [Ensured EXCEPT !.used = Charge(w, Ensured.used)]]
  <2>1. req[w] \in Request
    BY <1>0 DEF TypeInv, TypeOK
  <2>2. /\ held.op = req[w].op /\ held.r = req[w].r
        /\ held.actor = req[w].actor /\ held.decider = req[w].decider
    BY <2>1 DEF Request
  <2>3. Hold(w, held) /\ UNCHANGED rows
    BY <1>3 DEF ReadBalance
  <2> HIDE DEF held
  <2> QED BY <1>0, <2>2, <2>3, KeepSegregation DEF SegregationInv, ApproverIsOther
<1>4. ASSUME NEW w \in Workers, CommitFile(w) PROVE SegregationInv'
  <2> DEFINE r == req[w].r
  <2>1. /\ Finish(w) /\ req[w].op = "file" /\ status[r] = "NONE"
        /\ status' = [status EXCEPT ![r] = "PENDING"]
        /\ filer' = [filer EXCEPT ![r] = req[w].actor]
        /\ decider' = decider
    BY <1>4 DEF CommitFile, Committing
  <2>2. /\ r \in Requests
        /\ status \in [Requests -> Statuses]
        /\ filer \in [Requests -> Users \cup {NoUser}]
        /\ req \in [Workers -> Request]
    BY <1>0, <2>1 DEF TypeInv, TypeOK, HeldInv
  <2>3. UndecidedHasNoDecider' /\ ApprovedByOther'
    BY <2>1, <2>2 DEF SegregationInv, UndecidedHasNoDecider, ApprovedByOther
  <2>4. ApproverIsOther'
    <3> SUFFICES ASSUME NEW v \in Workers, req'[v].op = "approve"
                 PROVE  /\ EnforceMakerChecker => filer'[req'[v].r] # req'[v].actor
                        /\ status'[req'[v].r] # "NONE"
                        /\ req'[v].decider = NoUser
      BY DEF ApproverIsOther
    <3>1. req'[v] = req[v]
      BY <2>1, <2>2, IdleType DEF Finish, Hold
    <3>2. req[v].r \in Requests /\ status[req[v].r] # "NONE" /\ req[v].r # r
      BY <1>0, <2>1, <3>1 DEF SegregationInv, ApproverIsOther, TypeInv, HeldInv
    <3> QED BY <2>1, <2>2, <3>1, <3>2 DEF SegregationInv, ApproverIsOther
  <2> QED BY <1>0, <2>3, <2>4 DEF SegregationInv
<1>5. ASSUME NEW w \in Workers, CommitApprove(w) PROVE SegregationInv'
  BY <1>0, <1>5, DecideSegregation DEF CommitApprove, Committing
<1>6. ASSUME NEW w \in Workers, CommitReject(w) PROVE SegregationInv'
  BY <1>0, <1>6, DecideSegregation DEF CommitReject, Committing
<1>7. ASSUME NEW w \in Workers, CommitCancel(w) PROVE SegregationInv'
  BY <1>0, <1>7, DecideSegregation DEF CommitCancel, Committing
<1>8. ASSUME NEW w \in Workers, CommitList(w) \/ Rollback(w) PROVE SegregationInv'
  BY <1>0, <1>8, FinishSegregation DEF CommitList, Rollback
<1>9. CASE UpdateType \/ UNCHANGED vars
  <2>1. UNCHANGED <<status, filer, decider, req>>
    BY <1>9 DEF UpdateType, vars, rows
  <2> QED BY <1>0, <2>1
      DEF SegregationInv, UndecidedHasNoDecider, ApproverIsOther, ApprovedByOther
<1> QED BY <1>1, <1>2, <1>3, <1>4, <1>5, <1>6, <1>7, <1>8, <1>9 DEF Next

\* Segregation of duties holds for any number of concurrent handlers: an APPROVED request
\* was decided by somebody other than the person who filed it (approve_request).
THEOREM LeaveApprovedByOther == Spec => []ApprovedByOther
<1>1. SegregationInv => ApprovedByOther
  BY DEF SegregationInv
<1> QED BY <1>1, InitSegregation, NextSegregation, PTL DEF Spec

-----------------------------------------------------------------------------
(***************************************************************************)
(* One request at a time: a single worker.  Two at once may read the same  *)
(* balance, and file for the same dates.                                   *)
(***************************************************************************)
\* At most one HTTP request is in flight.
Serial == \A v, w \in Workers : v = w

\* The request row a handler holds is the one in the table; for a new one, no active
\* leave is in the way.
RowCurrent(w) ==
  req[w].at # "idle" /\ req[w].op # "list" =>
    /\ req[w].status = status[req[w].r]
    /\ req[w].decider = decider[req[w].r]
    /\ req[w].op = "file" => ~Clash(req[w].r)

\* So is the balance it read, and the one it computed is not overdrawn.
BalanceCurrent(w) ==
  req[w].at = "read" /\ req[w].touches =>
    /\ req[w].old = [seeded |-> seeded, accrued |-> accrued, used |-> used]
    /\ req[w].new.used <= req[w].new.accrued

\* The inductive invariant.
SerialInv ==
  /\ TypeInv
  /\ NoDoubleLeave
  /\ NeverOverdrawn
  /\ \A w \in Workers : RowCurrent(w) /\ BalanceCurrent(w)

-----------------------------------------------------------------------------
\* After its HTTP request a worker holds nothing that could be out of date.
LEMMA FinishCurrent ==
  ASSUME Serial, TypeInv, NEW w \in Workers, Finish(w)
  PROVE  \A v \in Workers : RowCurrent(v)' /\ BalanceCurrent(v)'
<1>1. \A v \in Workers : req'[v] = Idle
  BY DEF Finish, Hold, Serial, TypeInv, TypeOK
<1>2. Idle.at = "idle"
  BY DEF Idle
<1> QED BY <1>1, <1>2 DEF RowCurrent, BalanceCurrent

\* A first read holds what the table holds.
LEMMA LoadCurrent ==
  ASSUME Serial, SerialInv, TypeInv', NEW w \in Workers,
         NEW op \in {"file", "approve", "reject", "cancel"}, NEW r \in Requests,
         NEW u \in Users, Load(w, op, r, u), op = "file" => ~Clash(r)
  PROVE  SerialInv'
<1> DEFINE held == [Idle EXCEPT !.op = op, !.at = "loaded", !.r = r, !.actor = u,
                                !.status = status[r], !.decider = decider[r]]
<1>1. /\ held.op = op /\ held.at = "loaded" /\ held.r = r
      /\ held.status = status[r] /\ held.decider = decider[r]
  BY IdleType DEF Request
<1>2. Hold(w, held) /\ UNCHANGED <<rows, balance>>
  BY DEF Load
<1> HIDE DEF held
<1>3. \A v \in Workers : req'[v] = held
  BY <1>2 DEF Hold, Serial, SerialInv, TypeInv, TypeOK
<1>4. Clash(r)' = Clash(r)
  BY <1>2 DEF Clash, rows
<1>5. \A v \in Workers : RowCurrent(v)' /\ BalanceCurrent(v)'
  BY <1>1, <1>2, <1>3, <1>4 DEF RowCurrent, BalanceCurrent, rows
<1> QED BY <1>2, <1>5 DEF SerialInv, NoDoubleLeave, NeverOverdrawn, rows, balance

\* Reading the balance: an approval checks that it fits, a cancellation only gives back,
\* and accrual only rises.
LEMMA ReadCurrent ==
  ASSUME Serial, SerialInv, TypeInv', NEW w \in Workers, ReadBalance(w)
  PROVE  SerialInv'
<1> DEFINE old == [seeded |-> seeded, accrued |-> accrued, used |-> used]
           new == [Ensured EXCEPT !.used = Charge(w, Ensured.used)]
           held == [req[w] EXCEPT !.at = "read", !.touches = TouchesBalance(w),
                                  !.old = old, !.new = new]
<1>1. /\ seeded \in BOOLEAN /\ accrued \in Nat /\ used \in Nat /\ credit \in Nat
      /\ req[w] \in Request /\ used <= accrued
  BY LedgerAssumption DEF SerialInv, TypeInv, TypeOK, NeverOverdrawn
<1>2. Ensured.used \in Nat /\ Ensured.accrued \in Nat /\ Ensured.used <= Ensured.accrued
  BY <1>1 DEF Ensured
<1>3. req[w].op \in {"approve", "cancel"} => Days[req[w].r] \in Nat
  BY LedgerAssumption DEF SerialInv, TypeInv, HeldInv
<1>4. TouchesBalance(w) => Charge(w, Ensured.used) <= Ensured.accrued
  <2>1. TouchesBalance(w) /\ req[w].op = "approve" =>
          Ensured.accrued - Ensured.used >= Days[req[w].r]
    BY DEF ReadBalance
  <2> QED BY <1>2, <1>3, <2>1 DEF Charge, TouchesBalance
<1>5. new.used = Charge(w, Ensured.used) /\ new.accrued = Ensured.accrued
  BY DEF Ensured
<1>6. Hold(w, held) /\ UNCHANGED <<rows, balance>> /\ req[w].at = "loaded"
  BY DEF ReadBalance
<1> HIDE DEF old, new
<1>7. /\ held.op = req[w].op /\ held.r = req[w].r
      /\ held.status = req[w].status /\ held.decider = req[w].decider
      /\ held.at = "read" /\ held.touches = TouchesBalance(w)
      /\ held.old = old /\ held.new = new
  BY <1>1 DEF Request
<1> HIDE DEF held
<1>8. \A v \in Workers : v = w /\ req'[v] = held
  BY <1>6 DEF Hold, Serial, SerialInv, TypeInv, TypeOK
<1>9. RowCurrent(w)'
  <2>1. Clash(req[w].r)' = Clash(held.r)
    BY <1>6, <1>7, <1>8 DEF Clash, rows
  <2>2. RowCurrent(w)
    BY DEF SerialInv
  <2> QED BY <1>6, <1>7, <1>8, <2>2 DEF RowCurrent, Clash, rows
<1>10. BalanceCurrent(w)'
  <2>1. UNCHANGED <<seeded, accrued, used>>
    BY <1>6 DEF balance
  <2> QED BY <1>4, <1>5, <1>7, <1>8, <2>1 DEF BalanceCurrent, old
<1> QED BY <1>6, <1>8, <1>9, <1>10 DEF SerialInv, NoDoubleLeave, NeverOverdrawn, rows, balance

\* The balance a commit leaves is the computed one.
LEMMA WriteBalanceCurrent ==
  ASSUME SerialInv, NEW w \in Workers, req[w].at = "read", WriteBalance(w)
  PROVE  NeverOverdrawn'
<1>1. CASE ~req[w].touches
  BY <1>1 DEF WriteBalance, SerialInv, NeverOverdrawn, balance
<1>2. CASE req[w].touches
  <2>1. /\ req[w].old = [seeded |-> seeded, accrued |-> accrued, used |-> used]
        /\ req[w].new.used <= req[w].new.accrued
    BY <1>2 DEF SerialInv, BalanceCurrent
  <2>2. req[w].old.accrued = accrued /\ req[w].old.used = used
    BY <2>1
  <2>3. accrued' = req[w].new.accrued /\ used' = req[w].new.used
    BY <1>2, <2>2 DEF WriteBalance, Written
  <2> QED BY <2>1, <2>3 DEF NeverOverdrawn
<1> QED BY <1>1, <1>2

\* A decision stores itself over the row it loaded, and never makes a request active.
LEMMA DecideCurrent ==
  ASSUME SerialInv, NEW w \in Workers, req[w].at = "read", NEW op, NEW to,
         <<op, to>> \in {<<"approve", "APPROVED">>, <<"reject", "REJECTED">>,
                        <<"cancel", "CANCELLED">>},
         req[w].op = op, Decide(w, to)
  PROVE  /\ NoDoubleLeave'
         /\ req[w].r \in Requests /\ status[req[w].r] \in Active
         /\ \A s \in Requests \ {req[w].r} : status'[s] = status[s] /\ decider'[s] = decider[s]
<1>1. /\ req[w].r \in Requests /\ status[req[w].r] \in Accepts(op)
      /\ status \in [Requests -> Statuses] /\ decider \in [Requests -> Users \cup {NoUser}]
  BY DEF SerialInv, TypeInv, TypeOK, HeldInv, RowCurrent
<1>2. status[req[w].r] \in Active
  BY <1>1 DEF Accepts, Active
<1>3. \A s \in Requests \ {req[w].r} : status'[s] = status[s] /\ decider'[s] = decider[s]
  BY <1>1 DEF Decide
<1>4. \A s \in Requests : status'[s] \in Active => status[s] \in Active
  BY <1>2, <1>3
<1> QED BY <1>1, <1>2, <1>3, <1>4 DEF SerialInv, NoDoubleLeave

-----------------------------------------------------------------------------
LEMMA InitSerial == Init => SerialInv
<1> SUFFICES ASSUME Init PROVE SerialInv
  OBVIOUS
<1>1. \A w \in Workers : req[w].at = "idle"
  BY DEF Init, Idle
<1>2. NoDoubleLeave /\ NeverOverdrawn
  BY DEF Init, NoDoubleLeave, NeverOverdrawn, Active
<1> QED BY <1>1, <1>2, InitTypeInv DEF SerialInv, RowCurrent, BalanceCurrent

\* Every step keeps the invariant, and leaves decided requests alone.
LEMMA NextSerial ==
  Serial /\ SerialInv /\ [Next]_vars =>
    /\ SerialInv'
    /\ \A r \in Requests : status[r] \in {"REJECTED", "CANCELLED"} =>
         status'[r] = status[r] /\ decider'[r] = decider[r]
<1> DEFINE Final == \A r \in Requests : status[r] \in {"REJECTED", "CANCELLED"} =>
                      status'[r] = status[r] /\ decider'[r] = decider[r]
<1> SUFFICES ASSUME Serial, SerialInv, [Next]_vars PROVE SerialInv' /\ Final
  OBVIOUS
<1>0. TypeInv /\ TypeInv'
  BY NextTypeInv DEF SerialInv
<1>1. ASSUME NEW w \in Workers, LoadFile(w) \/ LoadApprove(w) \/ LoadDecision(w)
      PROVE  SerialInv' /\ Final
  <2>1. PICK op \in {"file", "approve", "reject", "cancel"}, r \in Requests, u \in Users :
          Load(w, op, r, u) /\ (op = "file" => ~Clash(r))
    BY <1>1 DEF LoadFile, LoadApprove, LoadDecision
  <2>2. UNCHANGED rows
    BY <2>1 DEF Load
  <2> QED BY <1>0, <2>1, <2>2, LoadCurrent DEF rows
<1>2. ASSUME NEW w \in Workers, LoadList(w) PROVE SerialInv' /\ Final
  <2> DEFINE held == [Idle EXCEPT !.at = "loaded"]
  <2>1. held.op = "list" /\ held.at = "loaded"
    BY IdleType DEF Request
  <2>2. Hold(w, held) /\ UNCHANGED <<rows, balance>>
    BY <1>2 DEF LoadList
  <2> HIDE DEF held
  <2>3. \A v \in Workers : req'[v] = held
    BY <1>0, <2>2 DEF Hold, Serial, TypeInv, TypeOK
  <2>4. \A v \in Workers : RowCurrent(v)' /\ BalanceCurrent(v)'
    BY <2>1, <2>3 DEF RowCurrent, BalanceCurrent
  <2> QED BY <1>0, <2>2, <2>4 DEF SerialInv, NoDoubleLeave, NeverOverdrawn, rows, balance
<1>3. ASSUME NEW w \in Workers, ReadBalance(w) PROVE SerialInv' /\ Final
  BY <1>0, <1>3, ReadCurrent DEF ReadBalance, rows
<1>4. ASSUME NEW w \in Workers, CommitFile(w) PROVE SerialInv' /\ Final
  <2> DEFINE r == req[w].r
  <2>1. /\ Finish(w) /\ status[r] = "NONE" /\ r \in Requests
        /\ status' = [status EXCEPT ![r] = "PENDING"]
        /\ UNCHANGED <<decider, seeded, accrued, used>>
    BY <1>0, <1>4 DEF CommitFile, Committing, TypeInv, HeldInv, balance
  <2>2. ~Clash(r)
    BY <1>4 DEF CommitFile, Committing, SerialInv, RowCurrent
  <2>3. \A s \in Requests \ {r} : status'[s] = status[s]
    BY <1>0, <2>1 DEF TypeInv, TypeOK
  <2>4. NoDoubleLeave'
    BY <2>2, <2>3 DEF SerialInv, NoDoubleLeave, Clash
  <2> QED BY <1>0, <2>1, <2>3, <2>4, FinishCurrent DEF SerialInv, NeverOverdrawn
<1>5. ASSUME NEW w \in Workers, CommitApprove(w) \/ CommitReject(w) \/ CommitCancel(w)
      PROVE  SerialInv' /\ Final
  <2>1. PICK op, to :
          /\ <<op, to>> \in {<<"approve", "APPROVED">>, <<"reject", "REJECTED">>,
                            <<"cancel", "CANCELLED">>}
          /\ req[w].op = op /\ Decide(w, to)
    BY <1>5 DEF CommitApprove, CommitReject, CommitCancel, Committing
  <2>2. /\ Finish(w) /\ req[w].at = "read"
        /\ WriteBalance(w) \/ UNCHANGED <<seeded, accrued, used>>
    BY <1>5 DEF CommitApprove, CommitReject, CommitCancel, Committing, balance
  <2>3. /\ NoDoubleLeave'
        /\ req[w].r \in Requests /\ status[req[w].r] \in Active
        /\ \A s \in Requests \ {req[w].r} : status'[s] = status[s] /\ decider'[s] = decider[s]
    BY <2>1, <2>2, DecideCurrent
  <2>4. NeverOverdrawn'
    BY <2>2, WriteBalanceCurrent DEF SerialInv, NeverOverdrawn
  <2>5. Final
    BY <2>3 DEF Active
  <2> QED BY <1>0, <2>2, <2>3, <2>4, <2>5, FinishCurrent DEF SerialInv
<1>6. ASSUME NEW w \in Workers, CommitList(w) PROVE SerialInv' /\ Final
  <2>1. /\ Finish(w) /\ req[w].at = "read" /\ WriteBalance(w)
        /\ UNCHANGED <<status, filer, decider>>
    BY <1>6 DEF CommitList, Committing, rows
  <2> QED BY <1>0, <2>1, WriteBalanceCurrent, FinishCurrent DEF SerialInv, NoDoubleLeave
<1>7. ASSUME NEW w \in Workers, Rollback(w) PROVE SerialInv' /\ Final
  BY <1>0, <1>7, FinishCurrent DEF Rollback, SerialInv, NoDoubleLeave, NeverOverdrawn, rows, balance
<1>8. CASE UpdateType \/ UNCHANGED vars
  <2>1. UNCHANGED <<status, filer, decider, seeded, accrued, used, req>>
    BY <1>8 DEF UpdateType, vars, rows, balance
  <2>2. \A v \in Workers : RowCurrent(v)' /\ BalanceCurrent(v)'
    BY <2>1 DEF SerialInv, RowCurrent, BalanceCurrent, Clash
  <2> QED BY <1>0, <2>1, <2>2 DEF SerialInv, NoDoubleLeave, NeverOverdrawn
<1> QED BY <1>1, <1>2, <1>3, <1>4, <1>5, <1>6, <1>7, <1>8 DEF Next

LEMMA SerialInvariance == Serial => (Spec => []SerialInv)
<1> SUFFICES ASSUME Serial PROVE Spec => []SerialInv
  OBVIOUS
<1>1. SerialInv /\ [Next]_vars => SerialInv'
  BY NextSerial
<1> QED BY <1>1, InitSerial, PTL DEF Spec

\* Served one at a time, no two active requests cover a common day (create_request).
THEOREM SerialLeaveOnce == Serial => (Spec => []NoDoubleLeave)
<1>1. SerialInv => NoDoubleLeave
  BY DEF SerialInv
<1> QED BY <1>1, SerialInvariance, PTL

\* Served one at a time, a balance is never overdrawn, whatever becomes of the quota and
\* of is_paid between an approval and its cancellation (approve_request, ensure_balance).
THEOREM SerialNeverOverdrawn == Serial => (Spec => []NeverOverdrawn)
<1>1. SerialInv => NeverOverdrawn
  BY DEF SerialInv
<1> QED BY <1>1, SerialInvariance, PTL

\* Served one at a time, a rejected or cancelled request stays so (cancel_request).
THEOREM SerialDecidedIsFinal == Serial => (Spec => DecidedIsFinal)
<1> SUFFICES ASSUME Serial PROVE Spec => DecidedIsFinal
  OBVIOUS
<1>1. SerialInv /\ [Next]_vars =>
        [\A r \in Requests : status[r] \in {"REJECTED", "CANCELLED"} =>
           status'[r] = status[r] /\ decider'[r] = decider[r]]_vars
  BY NextSerial
<1> QED BY <1>1, SerialInvariance, PTL DEF Spec, DecidedIsFinal

-----------------------------------------------------------------------------
(***************************************************************************)
(* The balance and the requests tell the same story.  The days used are a  *)
(* sum over the charged requests (SumTheorems); a handler that has read    *)
(* the balance charges it if and only if the type is paid.                 *)
(***************************************************************************)
Approved == {r \in Requests : status[r] = "APPROVED"}

Booked(w) ==
  req[w].at = "read" =>
    /\ req[w].touches = TouchesBalance(w)
    /\ req[w].touches => req[w].new.used = Charge(w, used)

Matching ==
  /\ charged = (IF paid THEN Approved ELSE {})
  /\ used = SumOver(Days, charged)
  /\ \A w \in Workers : Booked(w)

\* The inductive invariant.
LedgerInv ==
  /\ SerialInv
  /\ ~seeded => used = 0
  /\ ~toggled => Matching

\* The days of the requests add up to a natural number; one more adds its own.
LEMMA DaysAddUp ==
  ASSUME NEW S \in SUBSET Requests
  PROVE  /\ SumOver(Days, S) \in Nat
         /\ \A r \in Requests \ S : SumOver(Days, S \cup {r}) = Days[r] + SumOver(Days, S)
         /\ \A r \in S : SumOver(Days, S) = Days[r] + SumOver(Days, S \ {r})
<1>1. IsFiniteSet(S) /\ \A r \in Requests : Days[r] \in Nat
  BY LedgerAssumption, FS_Subset
<1>2. SumOver(Days, S) \in Nat
  BY <1>1, SumOverNat
<1>3. ASSUME NEW r \in Requests \ S PROVE SumOver(Days, S \cup {r}) = Days[r] + SumOver(Days, S)
  BY <1>1, SumOverAdd
<1>4. ASSUME NEW r \in S PROVE SumOver(Days, S) = Days[r] + SumOver(Days, S \ {r})
  BY <1>1, SumOverTake
<1> QED BY <1>2, <1>3, <1>4

\* A step after which no worker holds a balance, and which leaves rows and balance alone.
LEMMA QuietMatches ==
  ASSUME LedgerInv, UNCHANGED <<status, seeded, used, charged>>,
         ~toggled' => ~toggled /\ paid' = paid,
         ~toggled' => \A w \in Workers : Booked(w)'
  PROVE  (~seeded => used = 0)' /\ (~toggled => Matching)'
  BY DEF LedgerInv, Matching, Approved

\* What the balance holds after a commit of the computed one.
LEMMA WriteBalanceUsed ==
  ASSUME SerialInv, NEW w \in Workers, req[w].at = "read", WriteBalance(w)
  PROVE  /\ req[w].touches => seeded' = TRUE /\ used' = req[w].new.used
         /\ ~req[w].touches => seeded' = seeded /\ used' = used
<1>1. CASE ~req[w].touches
  BY <1>1 DEF WriteBalance, balance
<1>2. CASE req[w].touches
  <2>1. req[w].old = [seeded |-> seeded, accrued |-> accrued, used |-> used]
    BY <1>2 DEF SerialInv, BalanceCurrent
  <2>2. req[w].old.used = used
    BY <2>1
  <2> QED BY <1>2, <2>2 DEF WriteBalance, Written
<1> QED BY <1>1, <1>2

LEMMA FinishBooked ==
  ASSUME Serial, TypeInv, NEW w \in Workers, Finish(w)
  PROVE  \A v \in Workers : Booked(v)'
<1>1. \A v \in Workers : req'[v] = Idle
  BY DEF Finish, Hold, Serial, TypeInv, TypeOK
<1>2. Idle.at = "idle"
  BY DEF Idle
<1> QED BY <1>1, <1>2 DEF Booked

LEMMA ReadBooked ==
  ASSUME Serial, LedgerInv, ~toggled, NEW w \in Workers, ReadBalance(w)
  PROVE  \A v \in Workers : Booked(v)'
<1> DEFINE old == [seeded |-> seeded, accrued |-> accrued, used |-> used]
           new == [Ensured EXCEPT !.used = Charge(w, Ensured.used)]
           held == [req[w] EXCEPT !.at = "read", !.touches = TouchesBalance(w),
                                  !.old = old, !.new = new]
<1>1. req[w] \in Request /\ seeded \in BOOLEAN
  BY DEF LedgerInv, SerialInv, TypeInv, TypeOK
<1>2. Ensured.used = used
  BY <1>1 DEF Ensured, LedgerInv
<1>3. new.used = Charge(w, used)
  BY <1>2 DEF Ensured
<1>4. Hold(w, held) /\ paid' = paid /\ used' = used
  BY DEF ReadBalance, type, balance
<1> HIDE DEF old, new
<1>5. /\ held.op = req[w].op /\ held.r = req[w].r /\ held.status = req[w].status
      /\ held.touches = TouchesBalance(w) /\ held.new = new
  BY <1>1 DEF Request
<1> HIDE DEF held
<1>6. \A v \in Workers : v = w /\ req'[v] = held
  BY <1>4 DEF Hold, Serial, LedgerInv, SerialInv, TypeInv, TypeOK
<1>7. TouchesBalance(w)' = TouchesBalance(w) /\ Charge(w, used)' = Charge(w, used)
  BY <1>4, <1>5, <1>6 DEF TouchesBalance, Charge
<1> QED BY <1>3, <1>5, <1>6, <1>7 DEF Booked

\* An approval charges the balance or none, a cancellation gives back what was charged.
LEMMA DecisionsMatch ==
  ASSUME Serial, LedgerInv, NEW w \in Workers,
         CommitApprove(w) \/ CommitReject(w) \/ CommitCancel(w)
  PROVE  (~seeded => used = 0)' /\ (~toggled => Matching)'
<1> DEFINE r == req[w].r
<1>0. SerialInv /\ TypeInv
  BY DEF LedgerInv, SerialInv
<1>1. /\ req[w].at = "read" /\ Finish(w) /\ UNCHANGED <<paid, toggled>>
      /\ req[w].op \in {"approve", "reject", "cancel"}
  BY DEF CommitApprove, CommitReject, CommitCancel, Committing, type
<1>2. /\ r \in Requests /\ status \in [Requests -> Statuses] /\ charged \in SUBSET Requests
      /\ req[w].status = status[r] /\ used \in Nat /\ paid \in BOOLEAN
      /\ status[r] \in Accepts(req[w].op)
  BY <1>0, <1>1 DEF SerialInv, TypeInv, TypeOK, HeldInv, RowCurrent
<1>3. \A v \in Workers : Booked(v)'
  BY <1>0, <1>1, FinishBooked
<1>4. CASE CommitReject(w)
  <2>1. /\ status[r] = "PENDING" /\ UNCHANGED <<seeded, used, charged>>
        /\ status' = [status EXCEPT ![r] = "REJECTED"]
    BY <1>2, <1>4 DEF CommitReject, Committing, Decide, Written, Accepts, balance
  <2>2. Approved' = Approved
    BY <1>2, <2>1 DEF Approved
  <2> QED BY <1>1, <1>3, <2>1, <2>2 DEF LedgerInv, Matching
<1>5. CASE CommitApprove(w)
  <2>1. /\ status[r] = "PENDING" /\ status' = [status EXCEPT ![r] = "APPROVED"]
        /\ req[w].op = "approve" /\ WriteBalance(w)
        /\ charged' = IF req[w].touches THEN charged \cup {r} ELSE charged
    BY <1>2, <1>5 DEF CommitApprove, Committing, Decide, Written, Accepts
  <2>2. r \notin Approved /\ Approved' = Approved \cup {r}
    BY <1>2, <2>1 DEF Approved
  <2>3. /\ req[w].touches => seeded' /\ used' = req[w].new.used
        /\ ~req[w].touches => seeded' = seeded /\ used' = used
    BY <1>0, <1>1, <2>1, WriteBalanceUsed
  <2>4. ASSUME ~toggled PROVE Matching'
    <3>1. /\ charged = (IF paid THEN Approved ELSE {}) /\ used = SumOver(Days, charged)
          /\ req[w].touches = paid
          /\ req[w].touches => req[w].new.used = used + Days[r]
      BY <1>1, <1>2, <2>1, <2>4 DEF LedgerInv, Matching, Booked, TouchesBalance, Charge
    <3>2. charged' = (IF paid THEN Approved' ELSE {})
      BY <2>1, <2>2, <3>1
    <3>3. used' = SumOver(Days, charged')
      <4>1. CASE paid
        <5>1. r \in Requests \ charged
          BY <1>2, <2>2, <3>1, <4>1
        <5>2. SumOver(Days, charged \cup {r}) = Days[r] + SumOver(Days, charged)
          BY <1>2, <5>1, DaysAddUp
        <5>3. Days[r] \in Nat
          BY <1>2, LedgerAssumption
        <5> QED BY <1>2, <2>1, <2>3, <3>1, <4>1, <5>2, <5>3
      <4>2. CASE ~paid
        BY <2>1, <2>3, <3>1, <4>2
      <4> QED BY <4>1, <4>2
    <3> QED BY <1>1, <1>3, <3>2, <3>3 DEF Matching
  <2> QED BY <1>1, <2>3, <2>4 DEF LedgerInv
<1>6. CASE CommitCancel(w)
  <2>1. /\ status[r] \in Active /\ status' = [status EXCEPT ![r] = "CANCELLED"]
        /\ req[w].op = "cancel" /\ WriteBalance(w) /\ charged' = charged \ {r}
    BY <1>2, <1>6 DEF CommitCancel, Committing, Decide, Written, Accepts, Active
  <2>2. Approved' = Approved \ {r}
    BY <1>2, <2>1 DEF Approved
  <2>3. /\ req[w].touches => seeded' /\ used' = req[w].new.used
        /\ ~req[w].touches => seeded' = seeded /\ used' = used
    BY <1>0, <1>1, <2>1, WriteBalanceUsed
  <2>4. ASSUME ~toggled PROVE Matching'
    <3>1. /\ charged = (IF paid THEN Approved ELSE {}) /\ used = SumOver(Days, charged)
          /\ req[w].touches = (paid /\ r \in Approved)
          /\ req[w].touches =>
               req[w].new.used = (IF used > Days[r] THEN used - Days[r] ELSE 0)
      BY <1>1, <1>2, <2>1, <2>4
         DEF LedgerInv, Matching, Booked, TouchesBalance, Charge, Approved
    <3>2. charged' = (IF paid THEN Approved' ELSE {})
      BY <2>1, <2>2, <3>1
    <3>3. used' = SumOver(Days, charged')
      <4>1. CASE r \in charged
        <5>1. /\ SumOver(Days, charged) = Days[r] + SumOver(Days, charged \ {r})
              /\ SumOver(Days, charged \ {r}) \in Nat
          BY <1>2, <4>1, DaysAddUp
        <5>2. Days[r] \in Nat
          BY <1>2, LedgerAssumption
        <5>3. req[w].touches
          BY <3>1, <4>1
        <5> QED BY <1>2, <2>1, <2>3, <3>1, <5>1, <5>2, <5>3
      <4>2. CASE r \notin charged
        BY <2>1, <2>3, <3>1, <4>2
      <4> QED BY <4>1, <4>2
    <3> QED BY <1>1, <1>3, <3>2, <3>3 DEF Matching
  <2> QED BY <1>1, <2>3, <2>4 DEF LedgerInv
<1> QED BY <1>4, <1>5, <1>6

LEMMA InitLedger == Init => LedgerInv
<1> SUFFICES ASSUME Init PROVE LedgerInv
  OBVIOUS
<1>1. SerialInv /\ used = 0 /\ charged = {} /\ Approved = {}
  BY InitSerial DEF Init, Approved
<1>2. \A w \in Workers : Booked(w)
  BY DEF Init, Idle, Booked
<1> QED BY <1>1, <1>2, SumOverEmpty DEF LedgerInv, Matching

LEMMA NextLedger == Serial /\ LedgerInv /\ [Next]_vars => LedgerInv'
<1> SUFFICES ASSUME Serial, LedgerInv, [Next]_vars PROVE LedgerInv'
  OBVIOUS
<1> DEFINE Goal == (~seeded => used = 0)' /\ (~toggled => Matching)'
<1>0. TypeInv /\ SerialInv'
  BY NextSerial DEF LedgerInv, SerialInv
<1>1. ASSUME NEW w \in Workers, LoadFile(w) \/ LoadApprove(w) \/ LoadDecision(w) \/ LoadList(w)
      PROVE  Goal
  <2>1. UNCHANGED <<status, seeded, used, charged, toggled, paid>>
    BY <1>1 DEF LoadFile, LoadApprove, LoadDecision, LoadList, Load, rows, balance, type
  <2>2. \A v \in Workers : req'[v].at = "loaded"
    <3>1. CASE LoadFile(w) \/ LoadApprove(w) \/ LoadDecision(w)
      <4>1. PICK op, r, u : Load(w, op, r, u)
        BY <3>1 DEF LoadFile, LoadApprove, LoadDecision
      <4> QED BY <1>0, <4>1 DEF Load, Hold, Idle, Serial, TypeInv, TypeOK
    <3>2. CASE LoadList(w)
      BY <1>0, <3>2 DEF LoadList, Hold, Idle, Serial, TypeInv, TypeOK
    <3> QED BY <1>1, <3>1, <3>2
  <2> QED BY <2>1, <2>2, QuietMatches DEF Booked
<1>2. ASSUME NEW w \in Workers, ReadBalance(w) PROVE Goal
  <2>1. UNCHANGED <<status, seeded, used, charged, toggled, paid>>
    BY <1>2 DEF ReadBalance, rows, balance, type
  <2> QED BY <1>2, <2>1, ReadBooked, QuietMatches
<1>3. ASSUME NEW w \in Workers, CommitFile(w) PROVE Goal
  <2>1. /\ Finish(w) /\ UNCHANGED <<seeded, used, charged, toggled, paid>>
        /\ status[req[w].r] = "NONE" /\ status' = [status EXCEPT ![req[w].r] = "PENDING"]
    BY <1>3 DEF CommitFile, balance, type
  <2>2. Approved' = Approved
    BY <1>0, <2>1 DEF Approved, TypeInv, TypeOK
  <2>3. \A v \in Workers : Booked(v)'
    BY <1>0, <2>1, FinishBooked
  <2> QED BY <2>1, <2>2, <2>3 DEF LedgerInv, Matching
<1>4. ASSUME NEW w \in Workers, CommitApprove(w) \/ CommitReject(w) \/ CommitCancel(w)
      PROVE  Goal
  BY <1>4, DecisionsMatch
<1>5. ASSUME NEW w \in Workers, CommitList(w) PROVE Goal
  <2>1. /\ Finish(w) /\ WriteBalance(w) /\ req[w].at = "read" /\ req[w].op = "list"
        /\ UNCHANGED <<status, charged, toggled, paid>>
    BY <1>5 DEF CommitList, Committing, rows, type
  <2>2. /\ req[w].touches => seeded' /\ used' = req[w].new.used
        /\ ~req[w].touches => seeded' = seeded /\ used' = used
    BY <2>1, WriteBalanceUsed DEF LedgerInv
  <2>3. ~toggled /\ req[w].touches => req[w].new.used = used
    BY <2>1 DEF LedgerInv, Matching, Booked, Charge
  <2>4. \A v \in Workers : Booked(v)'
    BY <1>0, <2>1, FinishBooked
  <2>5. Approved' = Approved
    BY <2>1 DEF Approved
  <2> QED BY <2>1, <2>2, <2>3, <2>4, <2>5 DEF LedgerInv, Matching
<1>6. ASSUME NEW w \in Workers, Rollback(w) PROVE Goal
  <2>1. /\ Finish(w) /\ UNCHANGED <<status, seeded, used, charged, toggled, paid>>
    BY <1>6 DEF Rollback, rows, balance, type
  <2>2. \A v \in Workers : Booked(v)'
    BY <1>0, <2>1, FinishBooked
  <2> QED BY <2>1, <2>2, QuietMatches
<1>7. ASSUME UpdateType \/ UNCHANGED vars PROVE Goal
  <2>1. /\ UNCHANGED <<status, seeded, used, charged, req>>
        /\ ~toggled' => ~toggled /\ paid' = paid
    BY <1>0, <1>7 DEF UpdateType, vars, rows, balance, type, TypeInv, TypeOK
  <2>2. ~toggled' => \A v \in Workers : Booked(v)'
    <3>1. ASSUME ~toggled', NEW v \in Workers
          PROVE  TouchesBalance(v)' = TouchesBalance(v) /\ Charge(v, used)' = Charge(v, used)
      BY <2>1, <3>1 DEF TouchesBalance, Charge
    <3> QED BY <2>1, <3>1 DEF LedgerInv, Matching, Booked
  <2> QED BY <2>1, <2>2, QuietMatches
<1> QED BY <1>0, <1>1, <1>2, <1>3, <1>4, <1>5, <1>6, <1>7 DEF Next, LedgerInv

\* A day of approved leave is covered by one request only, so that the timesheet is told
\* what is_paid says of that one.
LEMMA MatchesLedger == LedgerInv => LedgerMatches
<1> SUFFICES ASSUME LedgerInv, ~toggled PROVE LedgerMatches
  BY DEF LedgerMatches
<1>1. used = Cost(charged)
  BY DEF LedgerInv, Matching, Cost, SumOver
<1>2. ASSUME NEW r \in Requests, status[r] = "APPROVED", NEW d \in Span[r]
      PROVE  r \in charged <=> LeaveDays[d] \in {"PAID_LEAVE", "HALF_DAY_PAID"}
  <2>1. r \in charged <=> paid
    BY <1>2 DEF LedgerInv, Matching, Approved
  <2>2. d \in UNION {Span[s] : s \in Approved}
    BY <1>2 DEF Approved
  <2> DEFINE covering == CHOOSE s \in Approved : d \in Span[s]
  <2>3. LeaveDays[d] = IF Days[covering] = 1 THEN IF paid THEN "HALF_DAY_PAID" ELSE "HALF_DAY"
                       ELSE IF paid THEN "PAID_LEAVE" ELSE "UNPAID_LEAVE"
    BY <2>2 DEF LeaveDays, Approved
  <2> HIDE DEF covering
  <2> QED BY <2>1, <2>3
<1> QED BY <1>1, <1>2 DEF LedgerMatches

\* Served one at a time, and as long as is_paid is not edited: the days used are exactly
\* those of the requests whose approval charged them, and the timesheet is told that the
\* days of just these are paid (approve_request, cancel_request, get_approved_leave_days).
THEOREM SerialLedgerMatches == Serial => (Spec => []LedgerMatches)
<1> SUFFICES ASSUME Serial PROVE Spec => []LedgerMatches
  OBVIOUS
<1>1. LedgerInv /\ [Next]_vars => LedgerInv'
  BY NextLedger
<1> QED BY <1>1, InitLedger, MatchesLedger, PTL DEF Spec
=============================================================================
