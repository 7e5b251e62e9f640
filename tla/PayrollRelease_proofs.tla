------------------------- MODULE PayrollRelease_proofs -------------------------
(***************************************************************************)
(* Proofs about the payroll cycle and the release of its payslips, for any *)
(* set of employees, workers and pay scales: first what holds of the cycle *)
(* whatever the interleaving of requests, up to the commit of one that was *)
(* overtaken; then what follows for requests that are served one at a      *)
(* time; and last what employees are sent.                                 *)
(***************************************************************************)
EXTENDS PayrollRelease, TLAPS

(***************************************************************************)
(* Helper facts about the write-back of a session.                         *)
(***************************************************************************)

\* A written column holds the current or the computed value: the write-back of
\* the unit of work invents nothing.
LEMMA WrittenType ==
  ASSUME NEW S, NEW current \in S, NEW loaded, NEW computed \in S
  PROVE  Written(current, loaded, computed) \in S
BY DEF Written

\* compute_payslip yields well-formed amounts for an eligible employee, and they
\* add up.
LEMMA ComputeType ==
  ASSUME TypeOK, NEW e \in Employees, Eligible(e)
  PROVE  /\ Compute(e) \in Amount
         /\ Compute(e).net = Compute(e).gross - Compute(e).deductions
<1>1. pay[e] \in PayScales
  BY DEF TypeOK, Eligible
<1>2. Compute(e).gross \in Grosses
  <2>1. pay[e] \in Grosses /\ pay[e] + 1 \in Grosses
    BY <1>1 DEF Grosses
  <2>2. pay[e] \in Nat
    <3>1. PayScales \subseteq Nat
      BY PayrollAssumption
    <3> QED BY <1>1, <3>1
  <2>3. Compute(e).gross = pay[e] + (IF <<e, "earning">> \in adjustments THEN 1 ELSE 0)
    BY DEF Compute
  <2> QED BY <2>1, <2>2, <2>3
<1>3. Compute(e).deductions \in {0, 1}
  BY DEF Compute
<1>4. Compute(e).net = Compute(e).gross - Compute(e).deductions
  BY DEF Compute
<1>5. Compute(e) = [gross |-> Compute(e).gross, deductions |-> Compute(e).deductions,
                    net |-> Compute(e).net]
  BY DEF Compute
<1> QED
  BY <1>2, <1>3, <1>4, <1>5 DEF Amount

\* A roll-up of payslips is a value of the totals column.
LEMMA RollupType ==
  ASSUME NEW slips \in Slips
  PROVE  Rollup(slips) \in Totals
BY DEF Totals

\* The request a worker holds when it serves none is well-formed.
LEMMA IdleType == IdleRequest \in Request
<1>1. NoSlips \in Slips
  BY DEF NoSlips, Slips
<1>2. NoTotals \in Totals
  BY DEF Totals
<1> QED
  BY <1>1, <1>2 DEF IdleRequest, Request, Ops, CycleOps, AdjustmentOps, Stages, Statuses,
                    AllPending, SlipStatuses

\* The next row to write is one that is left, or there is none left.
LEMMA UpcomingType ==
  ASSUME NEW r \in Request, NEW row \in Upcoming(r)
  PROVE  /\ row \in Employees \cup {NoRow}
         /\ row = NoRow => Writes(r) \subseteq r.locked
         /\ row # NoRow => row \in Writes(r) \ r.locked
<1>1. Writes(r) \subseteq Employees
  BY DEF Writes, Inserts, Updates, Resets
<1>2. CASE Writes(r) \ r.locked = {}
  <2>1. row = NoRow
    BY <1>2 DEF Upcoming
  <2> QED BY <1>2, <2>1
<1>3. CASE Writes(r) \ r.locked # {}
  <2>1. row \in Writes(r) \ r.locked
    BY <1>3 DEF Upcoming
  <2>2. row # NoRow
    BY <1>1, <2>1, PayrollAssumption
  <2> QED BY <1>1, <2>1, <2>2
<1> QED BY <1>2, <1>3
-----------------------------------------------------------------------------
(***************************************************************************)
(* Type correctness.  It is not inductive alone: a run updates a payslip   *)
(* column by column, which makes sense only if the row it loaded is still  *)
(* there.  Payslips are never removed, so it is.                           *)
(***************************************************************************)
LoadedRowsExist ==
  \A w \in Workers, e \in Employees :
    req[w].old[e] # NoPayslip => amount[e] # NoPayslip

\* A request about an adjustment says which one.
TargetKnown ==
  \A w \in Workers : req[w].op \in AdjustmentOps => req[w].target \in Targets

\* A run or a payment locks the rows it writes, one after the other.
Planned(r) ==
  /\ r.at \in {"idle", "loaded"} => r.locked = {}
  /\ r.at = "writing" => /\ r.op \in {"run", "pay"}
                         /\ r.locked \subseteq Writes(r)
                         /\ r.next \in Upcoming(r)
  /\ r.at = "flushed" => r.op = "run"

RowsPlanned == \A w \in Workers : Planned(req[w])

TypeInv == TypeOK /\ LoadedRowsExist /\ TargetKnown /\ RowsPlanned

\* Two stages of a request between which it only locks rows.
Alike(q, r) ==
  /\ q.op = r.op /\ q.at = r.at /\ q.status = r.status /\ q.totals = r.totals
  /\ q.old = r.old /\ q.oldStatus = r.oldStatus /\ q.new = r.new

\* They write the same rows.
LEMMA AlikeWrites ==
  ASSUME NEW q, NEW r, Alike(q, r)
  PROVE  /\ Inserts(q) = Inserts(r) /\ Updates(q) = Updates(r) /\ Resets(q) = Resets(r)
         /\ Writes(q) = Writes(r)
BY DEF Alike, Inserts, Updates, Resets, Writes

\* What a flush leaves in the payslips table is well-formed, and no row vanishes.
LEMMA FlushedType ==
  ASSUME TypeInv, NEW w \in Workers
  PROVE  /\ Flushed(req[w]) \in Slips
         /\ \A e \in Employees : amount[e] # NoPayslip => Flushed(req[w])[e] # NoPayslip
         /\ \A e \in Inserts(req[w]) \cup Updates(req[w]) : Flushed(req[w])[e] # NoPayslip
<1> DEFINE F == Flushed(req[w])
<1>1. ASSUME NEW e \in Employees
      PROVE  /\ F[e] \in Amount \cup {NoPayslip}
             /\ amount[e] # NoPayslip => F[e] # NoPayslip
             /\ e \in Inserts(req[w]) \cup Updates(req[w]) => F[e] # NoPayslip
  <2>0. /\ amount[e] \in Amount \cup {NoPayslip}
        /\ req[w].old[e] \in Amount \cup {NoPayslip}
        /\ req[w].new[e] \in Amount \cup {NoPayslip}
    BY DEF TypeInv, TypeOK, Request, Slips
  <2>1. CASE e \in Inserts(req[w])
    <3>1. F[e] = req[w].new[e] /\ req[w].new[e] # NoPayslip
      BY <2>1 DEF Flushed, Inserts
    <3> QED BY <3>1, <2>0
  <2>2. CASE e \notin Inserts(req[w]) /\ e \in Updates(req[w])
    <3>1. req[w].old[e] # NoPayslip /\ req[w].new[e] # NoPayslip
      BY <2>2 DEF Updates, Resets
    <3>2. amount[e] # NoPayslip
      BY <3>1 DEF TypeInv, LoadedRowsExist
    <3>3. /\ amount[e] \in Amount /\ req[w].old[e] \in Amount /\ req[w].new[e] \in Amount
      BY <3>1, <3>2, <2>0
    <3>4. F[e] = [gross |-> Written(amount[e].gross, req[w].old[e].gross, req[w].new[e].gross),
                  deductions |-> Written(amount[e].deductions, req[w].old[e].deductions,
                                         req[w].new[e].deductions),
                  net |-> Written(amount[e].net, req[w].old[e].net, req[w].new[e].net)]
      BY <2>2 DEF Flushed
    <3>5. F[e] \in Amount
      BY <3>3, <3>4 DEF Amount, Written
    <3> QED BY <3>5, NoPayslipAssumption
  <2>3. CASE e \notin Inserts(req[w]) /\ e \notin Updates(req[w])
    <3>1. F[e] = amount[e]
      BY <2>3 DEF Flushed
    <3> QED BY <3>1, <2>3, <2>0
  <2> QED BY <2>1, <2>2, <2>3
<1>2. F = [e \in Employees |-> F[e]]
  BY DEF Flushed
<1>3. F \in Slips
  BY <1>1, <1>2 DEF Slips
<1>4. Inserts(req[w]) \cup Updates(req[w]) \subseteq Employees
  BY DEF Inserts, Updates, Resets
<1> QED BY <1>1, <1>3, <1>4


\* A worker takes up a well-formed request (or ends the one it had).
LEMMA RequestTypeInv ==
  ASSUME TypeInv, NEW w \in Workers, NEW r \in Request,
         req' = [req EXCEPT ![w] = r],
         \A e \in Employees : amount[e] # NoPayslip => amount'[e] # NoPayslip,
         \A e \in Employees : r.old[e] # NoPayslip => amount[e] # NoPayslip,
         r.op \in AdjustmentOps => r.target \in Targets,
         Planned(r)
  PROVE  req' \in [Workers -> Request] /\ LoadedRowsExist' /\ TargetKnown' /\ RowsPlanned'
<1>1. req' \in [Workers -> Request]
  BY DEF TypeInv, TypeOK
<1>2. \A v \in Workers : req'[v] = IF v = w THEN r ELSE req[v]
  BY DEF TypeInv, TypeOK
<1>3. LoadedRowsExist'
  BY <1>2 DEF TypeInv, LoadedRowsExist
<1>4. TargetKnown'
  BY <1>2 DEF TypeInv, TargetKnown
<1>5. RowsPlanned'
  <2> SUFFICES ASSUME NEW v \in Workers PROVE Planned(req'[v])
    BY DEF RowsPlanned
  <2> QED BY <1>2 DEF TypeInv, RowsPlanned
<1> QED BY <1>1, <1>3, <1>4, <1>5

\* A worker that is done holds nothing.
LEMMA DoneTypeInv ==
  ASSUME TypeInv, NEW w \in Workers, req' = [req EXCEPT ![w] = IdleRequest],
         \A e \in Employees : amount[e] # NoPayslip => amount'[e] # NoPayslip
  PROVE  req' \in [Workers -> Request] /\ LoadedRowsExist' /\ TargetKnown' /\ RowsPlanned'
<1>1. IdleRequest.op \notin AdjustmentOps
  BY DEF IdleRequest, AdjustmentOps
<1>2. \A e \in Employees : IdleRequest.old[e] = NoPayslip
  BY DEF IdleRequest, NoSlips
<1>3. Planned(IdleRequest)
  BY DEF Planned, IdleRequest
<1> QED BY <1>1, <1>2, <1>3, IdleType, RequestTypeInv

\* The initial state satisfies the strengthened type invariant.
LEMMA InitTypeInv == Init => TypeInv
<1> SUFFICES ASSUME Init PROVE TypeInv
  OBVIOUS
<1>1. NoSlips \in Slips /\ NoTotals \in Totals
  BY DEF NoSlips, Slips, Totals
<1>2. TypeOK
  BY <1>1, IdleType DEF Init, TypeOK, Statuses, SlipStatuses, AllPending
<1>3. LoadedRowsExist
  BY DEF Init, LoadedRowsExist, IdleRequest, NoSlips
<1>4. TargetKnown
  BY DEF Init, TargetKnown, IdleRequest, AdjustmentOps
<1>5. RowsPlanned
  BY DEF Init, RowsPlanned, Planned, IdleRequest
<1> QED BY <1>2, <1>3, <1>4, <1>5 DEF TypeInv

\* Accepting a request gives the worker a well-formed request with nothing loaded
\* but the cycle.
LEMMA LoadTypeInv ==
  ASSUME TypeInv, NEW w \in Workers, Accept(w)
  PROVE  TypeInv'
<1>1. PICK op \in Ops, t \in Targets \cup {NoTarget} :
          Load(w, op, t) /\ (op \in AdjustmentOps => t \in Targets)
  <2>1. CASE LoadCycle(w)
    BY <2>1 DEF LoadCycle, Ops, CycleOps, AdjustmentOps
  <2>2. CASE LoadAddAdjustment(w)
    BY <2>2 DEF LoadAddAdjustment, Ops, AdjustmentOps
  <2>3. CASE LoadDeleteAdjustment(w)
    BY <2>3 DEF LoadDeleteAdjustment, Ops, AdjustmentOps, TypeInv, TypeOK
  <2> QED BY <2>1, <2>2, <2>3 DEF Accept
<1> DEFINE r == [IdleRequest EXCEPT !.op = op, !.at = "loaded", !.status = status,
                                    !.totals = totals, !.target = t]
<1>2. req' = [req EXCEPT ![w] = r]
  BY <1>1 DEF Load
<1>3. r \in Request
  BY IdleType DEF Request, TypeInv, TypeOK, Stages
<1>4. /\ \A e \in Employees : r.old[e] = NoPayslip
      /\ r.op = op /\ r.target = t /\ r.at = "loaded" /\ r.locked = {}
  BY DEF IdleRequest, NoSlips
<1>5. UNCHANGED <<cycleVars, slipVars, inputVars, history>>
  BY <1>1 DEF Load
<1> HIDE DEF r
<1>6. amount' = amount
  BY <1>5 DEF slipVars
<1>7. Planned(r)
  BY <1>4 DEF Planned
<1>8. req' \in [Workers -> Request] /\ LoadedRowsExist' /\ TargetKnown' /\ RowsPlanned'
  BY <1>1, <1>2, <1>3, <1>4, <1>6, <1>7, RequestTypeInv
<1>9. TypeOK'
  BY <1>5, <1>8 DEF TypeInv, TypeOK, cycleVars, slipVars, inputVars, history, overlaps
<1> QED BY <1>8, <1>9 DEF TypeInv

\* A request that goes on to its next row stays well-formed.
LEMMA ProceedsTypeInv ==
  ASSUME TypeInv, NEW w \in Workers, NEW r \in Request, Proceeds(w, r),
         UNCHANGED <<cycleVars, slipVars, inputVars, history>>,
         \A e \in Employees : r.old[e] # NoPayslip => amount[e] # NoPayslip,
         r.at = "writing", r.op \in {"run", "pay"}, r.locked \subseteq Writes(r)
  PROVE  TypeInv'
<1>1. PICK row \in Upcoming(r) : req' = [req EXCEPT ![w] = [r EXCEPT !.next = row]]
  BY DEF Proceeds
<1> DEFINE q == [r EXCEPT !.next = row]
<1>2. row \in Employees \cup {NoRow}
  BY UpcomingType
<1>3. q \in Request
  BY <1>2 DEF Request
<1>4. Alike(q, r) /\ q.locked = r.locked /\ q.next = row
  BY DEF Request, Alike
<1>5. req' = [req EXCEPT ![w] = q]
  BY <1>1
<1> HIDE DEF q
<1>6. q.op \in {"run", "pay"} /\ q.at = "writing" /\ q.old = r.old
  BY <1>4 DEF Alike
<1>7. Planned(q)
  <2>1. Writes(q) = Writes(r) /\ Updates(q) = Updates(r)
    BY <1>4, AlikeWrites
  <2>2. Upcoming(q) = Upcoming(r)
    BY <1>4, <2>1 DEF Alike, Upcoming
  <2> QED BY <1>4, <1>6, <2>1, <2>2 DEF Planned
<1>8. \A e \in Employees : amount[e] # NoPayslip => amount'[e] # NoPayslip
  BY DEF slipVars
<1>9. \A e \in Employees : q.old[e] # NoPayslip => amount[e] # NoPayslip
  BY <1>6
<1>10. q.op \in AdjustmentOps => q.target \in Targets
  BY <1>6 DEF AdjustmentOps
<1>11. req' \in [Workers -> Request] /\ LoadedRowsExist' /\ TargetKnown' /\ RowsPlanned'
  BY <1>3, <1>5, <1>7, <1>8, <1>9, <1>10, RequestTypeInv
<1>12. TypeOK'
  BY <1>11 DEF TypeInv, TypeOK, cycleVars, slipVars, inputVars, history, overlaps
<1> QED BY <1>11, <1>12 DEF TypeInv

\* What a run has read is well-formed.
LEMMA ReadTypeInv ==
  ASSUME TypeInv, NEW w \in Workers, Read(w)
  PROVE  TypeInv'
<1> DEFINE computed == [e \in Employees |-> IF Eligible(e) THEN Compute(e) ELSE NoPayslip]
           r == [req[w] EXCEPT !.at = "writing", !.old = amount, !.oldStatus = slipStatus,
                               !.new = computed]
<1>1. /\ req[w].op = "run" /\ req[w].at = "loaded" /\ Proceeds(w, r)
      /\ UNCHANGED <<cycleVars, slipVars, inputVars, history>>
  BY DEF Read
<1>2. computed \in Slips
  BY ComputeType DEF Slips, TypeInv
<1>3. req[w] \in Request /\ amount \in Slips /\ slipStatus \in [Employees -> SlipStatuses]
  BY DEF TypeInv, TypeOK
<1> HIDE DEF computed
<1>4. r \in Request
  BY <1>2, <1>3 DEF Request, Stages
<1>5. r.op \in {"run", "pay"} /\ r.at = "writing" /\ r.old = amount
      /\ r.locked = req[w].locked
  BY <1>1, <1>3 DEF Request
<1>6. r.locked \subseteq Writes(r)
  BY <1>1, <1>5 DEF TypeInv, RowsPlanned, Planned
<1> HIDE DEF r
<1>7. \A e \in Employees : r.old[e] # NoPayslip => amount[e] # NoPayslip
  BY <1>5
<1> QED BY <1>1, <1>4, <1>5, <1>6, <1>7, ProceedsTypeInv

\* So are the payslips a payment has found.
LEMMA FindTypeInv ==
  ASSUME TypeInv, NEW w \in Workers, FindSlips(w)
  PROVE  TypeInv'
<1> DEFINE r == [req[w] EXCEPT !.at = "writing", !.old = amount]
<1>1. /\ req[w].op = "pay" /\ req[w].at = "loaded" /\ Proceeds(w, r)
      /\ UNCHANGED <<cycleVars, slipVars, inputVars, history>>
  BY DEF FindSlips
<1>2. req[w] \in Request /\ amount \in Slips
  BY DEF TypeInv, TypeOK
<1>3. r \in Request
  BY <1>2 DEF Request, Stages
<1>4. r.op \in {"run", "pay"} /\ r.at = "writing" /\ r.old = amount
      /\ r.locked = req[w].locked
  BY <1>1, <1>2 DEF Request
<1>5. r.locked \subseteq Writes(r)
  BY <1>1, <1>4 DEF TypeInv, RowsPlanned, Planned
<1> HIDE DEF r
<1>6. \A e \in Employees : r.old[e] # NoPayslip => amount[e] # NoPayslip
  BY <1>4
<1> QED BY <1>1, <1>3, <1>4, <1>5, <1>6, ProceedsTypeInv

\* A row that has been written is locked, and the rest of the request is kept.
LEMMA LockedType ==
  ASSUME TypeInv, NEW w \in Workers, NEW r,
         r = [req[w] EXCEPT !.locked = @ \cup {req[w].next}],
         req[w].at = "writing", req[w].next # NoRow
  PROVE  r \in Request /\ Alike(r, req[w]) /\ r.locked \subseteq Writes(r)
<1>1. req[w] \in Request
  BY DEF TypeInv, TypeOK
<1>2. /\ req[w].locked \subseteq Writes(req[w])
      /\ req[w].next \in Upcoming(req[w])
  BY DEF TypeInv, RowsPlanned, Planned
<1>3. req[w].next \in Writes(req[w]) \ req[w].locked
  BY <1>1, <1>2, UpcomingType
<1>4. req[w].next \in Employees
  BY <1>3 DEF Writes, Inserts, Updates, Resets
<1>5. r \in Request
  BY <1>1, <1>4 DEF Request
<1>6. Alike(r, req[w]) /\ r.locked = req[w].locked \cup {req[w].next}
  BY <1>1 DEF Request, Alike
<1>7. Writes(r) = Writes(req[w])
  BY <1>6, AlikeWrites
<1> QED BY <1>2, <1>3, <1>5, <1>6, <1>7

LEMMA WriteTypeInv ==
  ASSUME TypeInv, NEW w \in Workers, WriteRow(w)
  PROVE  TypeInv'
<1> DEFINE r == [req[w] EXCEPT !.locked = @ \cup {req[w].next}]
<1>1. /\ req[w].at = "writing" /\ req[w].next # NoRow /\ Proceeds(w, r)
      /\ UNCHANGED <<cycleVars, slipVars, inputVars, history>>
  BY DEF WriteRow
<1>2. r = [req[w] EXCEPT !.locked = @ \cup {req[w].next}]
  OBVIOUS
<1> HIDE DEF r
<1>3. r \in Request /\ Alike(r, req[w]) /\ r.locked \subseteq Writes(r)
  BY <1>1, <1>2, LockedType
<1>4. r.at = "writing" /\ r.op \in {"run", "pay"}
  BY <1>1, <1>3 DEF Alike, TypeInv, RowsPlanned, Planned
<1>5. \A e \in Employees : r.old[e] # NoPayslip => amount[e] # NoPayslip
  BY <1>3 DEF Alike, TypeInv, LoadedRowsExist
<1> QED BY <1>1, <1>3, <1>4, <1>5, ProceedsTypeInv

\* The roll-up a run stores is that of a set of payslips.
LEMMA FlushTypeInv ==
  ASSUME TypeInv, NEW w \in Workers, Flush(w)
  PROVE  TypeInv'
<1>1. req[w].op = "run" /\ UNCHANGED <<cycleVars, slipVars, inputVars, history>>
  BY DEF Flush
<1>2. PICK held \in SUBSET {e \in Employees : req[w].new[e] # NoPayslip} :
        req' = [req EXCEPT ![w].at = "flushed",
                           ![w].rollup = Rollup([e \in Employees |->
                              IF e \in held THEN req[w].new[e] ELSE Flushed(req[w])[e]])]
  BY DEF Flush
<1> DEFINE seen == [e \in Employees |-> IF e \in held THEN req[w].new[e]
                                        ELSE Flushed(req[w])[e]]
           r == [req[w] EXCEPT !.at = "flushed", !.rollup = Rollup(seen)]
<1>3. req[w] \in Request
  BY DEF TypeInv, TypeOK
<1>4. seen \in Slips
  BY <1>3, FlushedType DEF Slips, Request
<1>5. Rollup(seen) \in Totals
  BY <1>4, RollupType
<1>6. req' = [req EXCEPT ![w] = r]
  BY <1>2
<1> HIDE DEF seen
<1>7. r \in Request /\ r.op = "run" /\ r.at = "flushed" /\ r.old = req[w].old
  BY <1>1, <1>3, <1>5 DEF Request, Stages
<1> HIDE DEF r
<1>8. Planned(r)
  BY <1>7 DEF Planned
<1>9. \A e \in Employees : amount[e] # NoPayslip => amount'[e] # NoPayslip
  BY <1>1 DEF slipVars
<1>10. \A e \in Employees : r.old[e] # NoPayslip => amount[e] # NoPayslip
  BY <1>7 DEF TypeInv, LoadedRowsExist
<1>11. r.op \in AdjustmentOps => r.target \in Targets
  BY <1>7 DEF AdjustmentOps
<1>12. req' \in [Workers -> Request] /\ LoadedRowsExist' /\ TargetKnown' /\ RowsPlanned'
  BY <1>6, <1>7, <1>8, <1>9, <1>10, <1>11, RequestTypeInv
<1>13. TypeOK'
  BY <1>1, <1>12 DEF TypeInv, TypeOK, cycleVars, slipVars, inputVars, history, overlaps
<1> QED BY <1>12, <1>13 DEF TypeInv

\* The end of a transaction keeps the history well-formed.
LEMMA OverlapsType ==
  ASSUME TypeOK, NEW w \in Workers, Abort(w) \/ Aside(w) \/ Conclude(w)
  PROVE  /\ overtaken' \in SUBSET Workers /\ strayed' \in BOOLEAN
         /\ req' = [req EXCEPT ![w] = IdleRequest]
BY DEF Abort, Aside, Conclude, Finish, TypeOK

\* Committing a run keeps every row it found.
LEMMA CommitRunTypeInv ==
  ASSUME TypeInv, NEW w \in Workers, CommitRun(w)
  PROVE  TypeInv'
<1>1. amount' = Flushed(req[w]) /\ Conclude(w)
  BY DEF CommitRun
<1>2. amount' \in Slips /\ \A e \in Employees : amount[e] # NoPayslip => amount'[e] # NoPayslip
  BY <1>1, FlushedType
<1>3. /\ overtaken' \in SUBSET Workers /\ strayed' \in BOOLEAN
      /\ req' = [req EXCEPT ![w] = IdleRequest]
  BY <1>1, OverlapsType DEF TypeInv
<1>4. req' \in [Workers -> Request] /\ LoadedRowsExist' /\ TargetKnown' /\ RowsPlanned'
  BY <1>2, <1>3, DoneTypeInv
<1>5. slipStatus' \in [Employees -> SlipStatuses]
  BY DEF CommitRun, TypeInv, TypeOK, SlipStatuses
<1>6. totals' \in Totals
  <2>1. req[w].rollup \in Totals /\ totals \in Totals
    BY DEF TypeInv, TypeOK, Request
  <2> QED BY <2>1, WrittenType DEF CommitRun
<1>7. status' \in Statuses
  <2>1. status \in Statuses /\ "PROCESSING" \in Statuses
    BY DEF TypeInv, TypeOK, Statuses
  <2> QED BY <2>1, WrittenType DEF CommitRun
<1>8. leftOut' \in SUBSET Employees
  BY DEF CommitRun, TypeInv, TypeOK
<1>9. UNCHANGED <<deleted, stamped, inputVars, approved>>
  BY DEF CommitRun
<1>10. TypeOK'
  BY <1>2, <1>3, <1>4, <1>5, <1>6, <1>7, <1>8, <1>9 DEF TypeInv, TypeOK, inputVars
<1> QED BY <1>4, <1>10 DEF TypeInv

\* The other ends of a request touch no payslip's amounts.
LEMMA EndTypeInv ==
  ASSUME TypeInv, NEW w \in Workers,
         \/ InsertFails(w) \/ DeadlockFound(w) \/ Rollback(w)
         \/ CommitApprove(w) \/ CommitPay(w) \/ CommitCancel(w) \/ CommitDelete(w)
         \/ CommitAddAdjustment(w) \/ CommitDeleteAdjustment(w)
  PROVE  TypeInv'
<1>1. amount' = amount
  BY DEF InsertFails, DeadlockFound, Rollback, Abort, CommitApprove, CommitPay, CommitCancel,
         CommitDelete, CommitAddAdjustment, CommitDeleteAdjustment, slipVars
<1>2. Abort(w) \/ Aside(w) \/ Conclude(w)
  BY DEF InsertFails, DeadlockFound, Rollback, CommitApprove, CommitPay, CommitCancel,
         CommitDelete, CommitAddAdjustment, CommitDeleteAdjustment
<1>3. /\ overtaken' \in SUBSET Workers /\ strayed' \in BOOLEAN
      /\ req' = [req EXCEPT ![w] = IdleRequest]
  BY <1>2, OverlapsType DEF TypeInv
<1>4. req' \in [Workers -> Request] /\ LoadedRowsExist' /\ TargetKnown' /\ RowsPlanned'
  BY <1>1, <1>3, DoneTypeInv
<1>5. CASE InsertFails(w) \/ DeadlockFound(w) \/ Rollback(w)
  BY <1>3, <1>4, <1>5 DEF InsertFails, DeadlockFound, Rollback, Abort, TypeInv, TypeOK,
                          cycleVars, slipVars, inputVars
<1>6. CASE CommitApprove(w) \/ CommitCancel(w)
  <2>1. status' \in Statuses
    <3>1. status \in Statuses /\ "APPROVED" \in Statuses /\ "CANCELLED" \in Statuses
      BY DEF TypeInv, TypeOK, Statuses
    <3> QED BY <1>6, <3>1, WrittenType DEF CommitApprove, CommitCancel
  <2>2. approved' \in BOOLEAN
    BY <1>6 DEF CommitApprove, CommitCancel, TypeInv, TypeOK
  <2> QED BY <1>3, <1>4, <1>6, <2>1, <2>2 DEF CommitApprove, CommitCancel, TypeInv, TypeOK,
                                              slipVars, inputVars
<1>7. CASE CommitPay(w)
  <2>1. status' \in Statuses
    BY <1>7, WrittenType DEF CommitPay, TypeInv, TypeOK, Statuses
  <2>2. slipStatus' \in [Employees -> SlipStatuses] /\ stamped' \in [Employees -> BOOLEAN]
    BY <1>7 DEF CommitPay, TypeInv, TypeOK, SlipStatuses
  <2>3. UNCHANGED <<deleted, totals, amount, inputVars, approved, leftOut>>
    BY <1>7 DEF CommitPay
  <2> QED BY <1>3, <1>4, <2>1, <2>2, <2>3 DEF TypeInv, TypeOK, inputVars
<1>8. CASE CommitDelete(w)
  BY <1>3, <1>4, <1>8 DEF CommitDelete, TypeInv, TypeOK, slipVars, inputVars
<1>9. CASE CommitAddAdjustment(w) \/ CommitDeleteAdjustment(w)
  <2>1. adjustments' \in SUBSET Targets
    BY <1>9 DEF CommitAddAdjustment, CommitDeleteAdjustment, TypeInv, TypeOK
  <2> QED BY <1>3, <1>4, <1>9, <2>1 DEF CommitAddAdjustment, CommitDeleteAdjustment, TypeInv,
                                        TypeOK, cycleVars, slipVars
<1> QED BY <1>5, <1>6, <1>7, <1>8, <1>9

\* Neither do the edits of the inputs.
LEMMA InputsTypeInv ==
  ASSUME TypeInv, Elsewhere
  PROVE  TypeInv'
<1>1. pay' \in [Employees -> PayScales \cup {NoPay}] /\ gone' \in SUBSET Employees
  <2>1. ASSUME NEW e \in Employees, NEW edit \in PayEdits, ChangePay(e, edit)
        PROVE  pay' \in [Employees -> PayScales \cup {NoPay}] /\ gone' \in SUBSET Employees
    <3>1. edit[2] \in PayScales \cup {NoPay}
      BY PayrollAssumption
    <3> QED BY <2>1, <3>1 DEF ChangePay, TypeInv, TypeOK
  <2>2. ASSUME NEW e \in Leavers, DeleteEmployee(e)
        PROVE  pay' \in [Employees -> PayScales \cup {NoPay}] /\ gone' \in SUBSET Employees
    <3>1. e \in Employees
      BY PayrollAssumption
    <3> QED BY <2>2, <3>1 DEF DeleteEmployee, TypeInv, TypeOK
  <2> QED BY <2>1, <2>2 DEF Elsewhere
<1>2. UNCHANGED <<cycleVars, slipVars, adjustments, req, history>>
  BY DEF Elsewhere, ChangePay, DeleteEmployee
<1>3. TypeOK' /\ LoadedRowsExist' /\ TargetKnown'
  BY <1>1, <1>2 DEF TypeInv, TypeOK, LoadedRowsExist, TargetKnown, cycleVars, slipVars,
                    history, overlaps
<1>4. RowsPlanned'
  BY <1>2 DEF TypeInv, RowsPlanned
<1> QED BY <1>3, <1>4 DEF TypeInv

\* Every step keeps the strengthened type invariant.
LEMMA NextTypeInv == TypeInv /\ [Next]_vars => TypeInv'
<1> SUFFICES ASSUME TypeInv, [Next]_vars PROVE TypeInv'
  OBVIOUS
<1>1. CASE UNCHANGED vars
  <2>1. RowsPlanned'
    BY <1>1 DEF TypeInv, RowsPlanned, vars
  <2> QED BY <1>1, <2>1 DEF vars, cycleVars, slipVars, inputVars, history, overlaps, TypeInv,
                            TypeOK, LoadedRowsExist, TargetKnown
<1>2. CASE \E w \in Workers : Accept(w)
  BY <1>2, LoadTypeInv
<1>3. CASE \E w \in Workers : Proceed(w) \/ Rollback(w)
  BY <1>3, ReadTypeInv, FindTypeInv, WriteTypeInv, FlushTypeInv, CommitRunTypeInv, EndTypeInv
     DEF Proceed
<1>4. CASE Elsewhere
  BY <1>4, InputsTypeInv
<1> QED BY <1>1, <1>2, <1>3, <1>4 DEF Next

\* Along every behaviour the strengthened type invariant holds.
LEMMA TypeInvariance == Spec => []TypeInv
  BY InitTypeInv, NextTypeInv, PTL DEF Spec

\* The rows, the inputs and what workers hold stay well-formed, for every
\* interleaving of requests: in particular a run that updates a payslip column by
\* column never meets a missing row.
THEOREM TypeCorrect == Spec => []TypeOK
<1>1. TypeInv => TypeOK
  BY DEF TypeInv
<1> QED BY <1>1, TypeInvariance, PTL
-----------------------------------------------------------------------------
(***************************************************************************)
(* Payment needs approval, whatever the interleaving.  The strengthening   *)
(* says it of every place the right to pay can come from: the APPROVED     *)
(* status, and a mark_paid request that has read it.                       *)
(***************************************************************************)
ApprovalInv ==
  /\ (status \in {"APPROVED", "PAID"} \/ \E e \in Employees : stamped[e]) => approved
  /\ \A w \in Workers : req[w].op = "pay" => approved

\* Going on to the next row, a worker holds what it has read.
LEMMA ProceedsWith ==
  ASSUME NEW w \in Workers, NEW r \in Request, Proceeds(w, r)
  PROVE  \E q : req' = [req EXCEPT ![w] = q] /\ Alike(q, r)
<1>1. PICK row \in Upcoming(r) : req' = [req EXCEPT ![w] = [r EXCEPT !.next = row]]
  BY DEF Proceeds
<1>2. Alike([r EXCEPT !.next = row], r)
  BY DEF Request, Alike
<1> QED BY <1>1, <1>2

\* What a worker holds after a step of its own, before its commit.
LEMMA ReadHolds ==
  ASSUME TypeInv, NEW w \in Workers, Read(w)
  PROVE  \E q, computed :
           /\ req' = [req EXCEPT ![w] = q]
           /\ q.op = "run" /\ q.at = "writing" /\ q.status = req[w].status
           /\ q.totals = req[w].totals /\ q.old = amount /\ q.oldStatus = slipStatus
           /\ q.new = computed
           /\ computed = [e \in Employees |-> IF Eligible(e) THEN Compute(e) ELSE NoPayslip]
<1> DEFINE computed == [e \in Employees |-> IF Eligible(e) THEN Compute(e) ELSE NoPayslip]
           r == [req[w] EXCEPT !.at = "writing", !.old = amount, !.oldStatus = slipStatus,
                               !.new = computed]
<1>1. req[w].op = "run" /\ Proceeds(w, r)
  BY DEF Read
<1>2. computed \in Slips
  BY ComputeType DEF Slips, TypeInv
<1>3. req[w] \in Request /\ amount \in Slips /\ slipStatus \in [Employees -> SlipStatuses]
  BY DEF TypeInv, TypeOK
<1> HIDE DEF computed
<1>4. /\ r \in Request /\ r.op = "run" /\ r.at = "writing" /\ r.status = req[w].status
      /\ r.totals = req[w].totals /\ r.old = amount /\ r.oldStatus = slipStatus
      /\ r.new = computed
  BY <1>1, <1>2, <1>3 DEF Request, Stages
<1> HIDE DEF r
<1>5. PICK q : req' = [req EXCEPT ![w] = q] /\ Alike(q, r)
  BY <1>1, <1>4, ProceedsWith
<1>6. computed = [e \in Employees |-> IF Eligible(e) THEN Compute(e) ELSE NoPayslip]
  BY DEF computed
<1> QED BY <1>4, <1>5, <1>6 DEF Alike

LEMMA FindHolds ==
  ASSUME TypeInv, NEW w \in Workers, FindSlips(w)
  PROVE  \E q : /\ req' = [req EXCEPT ![w] = q]
                /\ q.op = "pay" /\ q.at = "writing" /\ q.status = req[w].status
                /\ q.totals = req[w].totals /\ q.old = amount /\ q.new = req[w].new
<1> DEFINE r == [req[w] EXCEPT !.at = "writing", !.old = amount]
<1>1. req[w].op = "pay" /\ Proceeds(w, r)
  BY DEF FindSlips
<1>2. req[w] \in Request /\ amount \in Slips
  BY DEF TypeInv, TypeOK
<1>3. /\ r \in Request /\ r.op = "pay" /\ r.at = "writing" /\ r.status = req[w].status
      /\ r.totals = req[w].totals /\ r.old = amount /\ r.new = req[w].new
  BY <1>1, <1>2 DEF Request, Stages
<1> HIDE DEF r
<1>4. PICK q : req' = [req EXCEPT ![w] = q] /\ Alike(q, r)
  BY <1>1, <1>3, ProceedsWith
<1> QED BY <1>3, <1>4 DEF Alike

LEMMA WriteHolds ==
  ASSUME TypeInv, NEW w \in Workers, WriteRow(w)
  PROVE  \E q : req' = [req EXCEPT ![w] = q] /\ Alike(q, req[w])
<1> DEFINE r == [req[w] EXCEPT !.locked = @ \cup {req[w].next}]
<1>1. req[w].at = "writing" /\ req[w].next # NoRow /\ Proceeds(w, r)
  BY DEF WriteRow
<1>2. r = [req[w] EXCEPT !.locked = @ \cup {req[w].next}]
  OBVIOUS
<1> HIDE DEF r
<1>3. r \in Request /\ Alike(r, req[w])
  BY <1>1, <1>2, LockedType
<1>4. PICK q : req' = [req EXCEPT ![w] = q] /\ Alike(q, r)
  BY <1>1, <1>3, ProceedsWith
<1> QED BY <1>3, <1>4 DEF Alike

LEMMA FlushHolds ==
  ASSUME TypeInv, NEW w \in Workers, Flush(w)
  PROVE  \E q : \E held \in SUBSET {e \in Employees : req[w].new[e] # NoPayslip} :
           /\ req' = [req EXCEPT ![w] = q]
           /\ q.op = "run" /\ q.at = "flushed" /\ q.status = req[w].status
           /\ q.totals = req[w].totals /\ q.old = req[w].old
           /\ q.oldStatus = req[w].oldStatus /\ q.new = req[w].new
           /\ q.rollup = Rollup([e \in Employees |-> IF e \in held THEN req[w].new[e]
                                                     ELSE Flushed(req[w])[e]])
<1>1. req[w].op = "run"
  BY DEF Flush
<1>2. PICK held \in SUBSET {e \in Employees : req[w].new[e] # NoPayslip} :
        req' = [req EXCEPT ![w].at = "flushed",
                           ![w].rollup = Rollup([e \in Employees |->
                              IF e \in held THEN req[w].new[e] ELSE Flushed(req[w])[e]])]
  BY DEF Flush
<1> DEFINE total == Rollup([e \in Employees |-> IF e \in held THEN req[w].new[e]
                                                ELSE Flushed(req[w])[e]])
           q == [req[w] EXCEPT !.at = "flushed", !.rollup = total]
<1>3. req[w] \in Request
  BY DEF TypeInv, TypeOK
<1>4. req' = [req EXCEPT ![w] = q]
  BY <1>2
<1> HIDE DEF total
<1>5. /\ q.op = "run" /\ q.at = "flushed" /\ q.status = req[w].status
      /\ q.totals = req[w].totals /\ q.old = req[w].old
      /\ q.oldStatus = req[w].oldStatus /\ q.new = req[w].new /\ q.rollup = total
  BY <1>1, <1>3 DEF Request
<1> HIDE DEF q
<1> QED BY <1>4, <1>5 DEF total

-----------------------------------------------------------------------------
\* A worker's own steps keep the operation it serves.
LEMMA SameOps ==
  ASSUME TypeInv, NEW w \in Workers, Read(w) \/ FindSlips(w) \/ WriteRow(w) \/ Flush(w)
  PROVE  \A v \in Workers : req'[v].op = req[v].op
<1>1. PICK q : req' = [req EXCEPT ![w] = q] /\ q.op = req[w].op
  <2>1. CASE Read(w)
    <3>1. req[w].op = "run"
      BY <2>1 DEF Read
    <3> QED BY <2>1, <3>1, ReadHolds
  <2>2. CASE FindSlips(w)
    <3>1. req[w].op = "pay"
      BY <2>2 DEF FindSlips
    <3> QED BY <2>2, <3>1, FindHolds
  <2>3. CASE WriteRow(w)
    BY <2>3, WriteHolds DEF Alike
  <2>4. CASE Flush(w)
    <3>1. req[w].op = "run"
      BY <2>4 DEF Flush
    <3>2. PICK q : req' = [req EXCEPT ![w] = q] /\ q.op = "run"
      BY <2>4, FlushHolds
    <3> QED BY <3>1, <3>2
  <2> QED BY <2>1, <2>2, <2>3, <2>4
<1> QED BY <1>1 DEF TypeInv, TypeOK

\* A worker that is done has no right to pay.
LEMMA DoneApproval ==
  ASSUME TypeOK, ApprovalInv, NEW w \in Workers, req' = [req EXCEPT ![w] = IdleRequest],
         approved => approved'
  PROVE  \A v \in Workers : req'[v].op = "pay" => approved'
BY DEF IdleRequest, TypeOK, ApprovalInv

LEMMA NextApproval == TypeInv /\ ApprovalInv /\ [Next]_vars => ApprovalInv'
<1> SUFFICES ASSUME TypeInv, ApprovalInv, [Next]_vars PROVE ApprovalInv'
  OBVIOUS
<1>0. TypeOK
  BY DEF TypeInv
<1>1. CASE UNCHANGED vars
  BY <1>1 DEF vars, cycleVars, slipVars, history, ApprovalInv
<1>2. ASSUME NEW w \in Workers, Accept(w) PROVE ApprovalInv'
  <2>1. PICK op \in Ops, t \in Targets \cup {NoTarget} : Load(w, op, t)
    BY <1>0, <1>2 DEF Accept, LoadCycle, LoadAddAdjustment, LoadDeleteAdjustment, Ops,
                      AdjustmentOps, TypeOK
  <2>2. op = "pay" => approved
    <3>1. Accepts("pay") = {"APPROVED"}
      BY DEF Accepts, Guards
    <3>2. status \in Accepts(op)
      BY <2>1 DEF Load
    <3> QED BY <3>1, <3>2 DEF ApprovalInv
  <2> DEFINE r == [IdleRequest EXCEPT !.op = op, !.at = "loaded", !.status = status,
                                      !.totals = totals, !.target = t]
  <2>3. req' = [req EXCEPT ![w] = r]
    BY <2>1 DEF Load
  <2>4. r.op = op
    BY DEF IdleRequest
  <2> HIDE DEF r
  <2>5. \A v \in Workers : req'[v].op = "pay" => approved
    BY <1>0, <2>2, <2>3, <2>4 DEF TypeOK, ApprovalInv
  <2>6. UNCHANGED <<status, stamped, approved>>
    BY <2>1 DEF Load, cycleVars, slipVars, history
  <2> QED BY <2>5, <2>6 DEF ApprovalInv
<1>3. ASSUME NEW w \in Workers, Read(w) \/ FindSlips(w) \/ WriteRow(w) \/ Flush(w)
      PROVE  ApprovalInv'
  <2>1. UNCHANGED <<status, stamped, approved>>
    BY <1>3 DEF Read, FindSlips, WriteRow, Flush, cycleVars, slipVars, history
  <2>2. \A v \in Workers : req'[v].op = req[v].op
    BY <1>3, SameOps
  <2> QED BY <2>1, <2>2 DEF ApprovalInv
<1>4. ASSUME NEW w \in Workers,
             \/ CommitRun(w) \/ CommitCancel(w) \/ CommitDelete(w) \/ InsertFails(w)
             \/ DeadlockFound(w) \/ CommitAddAdjustment(w) \/ CommitDeleteAdjustment(w)
             \/ Rollback(w)
      PROVE  ApprovalInv'
  <2>1. status' \in {status, "PROCESSING", "CANCELLED"}
    BY <1>4 DEF CommitRun, CommitCancel, CommitDelete, InsertFails, DeadlockFound, Abort,
                CommitAddAdjustment, CommitDeleteAdjustment, Rollback, Written, cycleVars
  <2>2. UNCHANGED <<stamped, approved>>
    BY <1>4 DEF CommitRun, CommitCancel, CommitDelete, InsertFails, DeadlockFound, Abort,
                CommitAddAdjustment, CommitDeleteAdjustment, Rollback, slipVars
  <2>3. req' = [req EXCEPT ![w] = IdleRequest]
    BY <1>4 DEF CommitRun, CommitCancel, CommitDelete, InsertFails, DeadlockFound, Abort,
                CommitAddAdjustment, CommitDeleteAdjustment, Rollback, Conclude, Aside, Finish
  <2>4. \A v \in Workers : req'[v].op = "pay" => approved'
    BY <1>0, <2>2, <2>3, DoneApproval
  <2> QED BY <2>1, <2>2, <2>4 DEF ApprovalInv
<1>5. ASSUME NEW w \in Workers, CommitApprove(w) PROVE ApprovalInv'
  BY <1>5 DEF CommitApprove, ApprovalInv
<1>6. ASSUME NEW w \in Workers, CommitPay(w) PROVE ApprovalInv'
  <2>1. approved /\ approved' = approved
    BY <1>6 DEF CommitPay, ApprovalInv
  <2> QED BY <2>1 DEF ApprovalInv
<1>7. ASSUME Elsewhere PROVE ApprovalInv'
  BY <1>7 DEF Elsewhere, ChangePay, DeleteEmployee, ApprovalInv, cycleVars, slipVars, history
<1> QED BY <1>1, <1>2, <1>3, <1>4, <1>5, <1>6, <1>7 DEF Next, Proceed

\* For any number of concurrent requests, a cycle is PAID and a payslip stamped only
\* after approve_cycle has committed.
THEOREM PaymentNeedsApproval == Spec => []NoPaymentWithoutApproval
<1>1. Init => ApprovalInv
  BY DEF Init, ApprovalInv, IdleRequest
<1>2. ApprovalInv => NoPaymentWithoutApproval
  BY DEF ApprovalInv, NoPaymentWithoutApproval
<1> QED BY <1>1, <1>2, NextApproval, TypeInvariance, PTL DEF Spec

-----------------------------------------------------------------------------
\* The rows a payment has locked are payslips of the cycle.
LEMMA PaysSlips ==
  ASSUME TypeInv, NEW w \in Workers, req[w].op = "pay", req[w].at = "writing",
         NEW e \in req[w].locked
  PROVE  e \in Employees /\ req[w].old[e] # NoPayslip /\ amount[e] # NoPayslip
<1>1. e \in Writes(req[w])
  BY DEF TypeInv, RowsPlanned, Planned
<1>2. e \in Employees /\ req[w].old[e] # NoPayslip
  BY <1>1 DEF Writes
<1> QED BY <1>2 DEF TypeInv, LoadedRowsExist

\* No step separates the PAID status of a payslip from its payment date.
LEMMA NextStamped ==
  TypeInv /\ PaidSlipsAreStamped /\ [Next]_vars => PaidSlipsAreStamped'
<1> SUFFICES ASSUME TypeInv, PaidSlipsAreStamped, [Next]_vars PROVE PaidSlipsAreStamped'
  OBVIOUS
<1>1. CASE UNCHANGED slipVars
  BY <1>1 DEF slipVars, PaidSlipsAreStamped
<1>2. ASSUME NEW w \in Workers, CommitRun(w) PROVE PaidSlipsAreStamped'
  <2>1. \A e \in Employees : amount[e] # NoPayslip => amount'[e] # NoPayslip
    BY <1>2, FlushedType DEF CommitRun
  <2>2. \A e \in Employees : slipStatus'[e] = "PAID" => slipStatus[e] = "PAID"
    BY <1>2 DEF CommitRun
  <2>3. stamped' = stamped
    BY <1>2 DEF CommitRun
  <2> QED BY <2>1, <2>2, <2>3 DEF PaidSlipsAreStamped
<1>3. ASSUME NEW w \in Workers, CommitPay(w) PROVE PaidSlipsAreStamped'
  BY <1>3, PaysSlips DEF CommitPay, PaidSlipsAreStamped
<1>4. CASE \E w \in Workers : \/ Accept(w) \/ Rollback(w) \/ Read(w) \/ FindSlips(w)
                              \/ WriteRow(w) \/ InsertFails(w) \/ DeadlockFound(w) \/ Flush(w)
                              \/ CommitApprove(w) \/ CommitCancel(w) \/ CommitDelete(w)
                              \/ CommitAddAdjustment(w) \/ CommitDeleteAdjustment(w)
  <2>1. UNCHANGED slipVars
    BY <1>4 DEF Accept, LoadCycle, LoadAddAdjustment, LoadDeleteAdjustment, Load, Rollback,
                Read, FindSlips, WriteRow, InsertFails, DeadlockFound, Abort, Flush,
                CommitApprove, CommitCancel, CommitDelete, CommitAddAdjustment,
                CommitDeleteAdjustment
  <2> QED BY <1>1, <2>1
<1>5. CASE Elsewhere
  BY <1>1, <1>5 DEF Elsewhere, ChangePay, DeleteEmployee
<1>6. CASE UNCHANGED vars
  BY <1>1, <1>6 DEF vars
<1> QED BY <1>2, <1>3, <1>4, <1>5, <1>6 DEF Next, Proceed

\* For any number of concurrent requests, a payslip marked PAID has its payment date
\* and exists.
THEOREM PaidSlipsStamped == Spec => []PaidSlipsAreStamped
<1>1. Init => PaidSlipsAreStamped
  BY DEF Init, PaidSlipsAreStamped, AllPending
<1> QED BY <1>1, NextStamped, TypeInvariance, PTL DEF Spec

-----------------------------------------------------------------------------
(***************************************************************************)
(* Requests on a cycle that overlap, any number of them.  Only the commit  *)
(* of a request that another one has overtaken does harm: what every other *)
(* request has read is still what the database holds.                      *)
(***************************************************************************)
\* What a request has read is what the database holds, and the roll-up it is about to
\* store is that of the payslips it is about to leave.
Fresh(r) ==
  /\ r.at # "idle" => /\ ~deleted /\ status \in Accepts(r.op)
                      /\ r.status = status /\ r.totals = totals
  /\ r.at \in {"writing", "flushed"} => /\ r.old = amount
                                        /\ r.op = "run" => r.oldStatus = slipStatus
  /\ r.at = "flushed" => r.rollup = Rollup(Flushed(r))

LoadedIsCurrent == \A w \in Workers \ overtaken : Fresh(req[w])

\* The payslips a run has computed add up, whether it was overtaken or not.
AddsUp(r) ==
  \A e \in Employees :
    r.new[e] # NoPayslip => r.new[e].net = r.new[e].gross - r.new[e].deductions

ComputedAddUp == \A w \in Workers : AddsUp(req[w])

\* The rows of the cycle agree with each other.
RowsAgree == TotalsMatchPayslips /\ StampedWithCycle /\ PayslipsAddUp

\* The inductive invariant: it adds what the requests in flight have read and computed.
OverlapInv ==
  /\ TypeInv
  /\ LoadedIsCurrent
  /\ ComputedAddUp
  /\ strayed \/ RowsAgree

\* What a step has to establish of it.
Held == LoadedIsCurrent' /\ ComputedAddUp' /\ (strayed' \/ RowsAgree')

-----------------------------------------------------------------------------
\* Writing back over the value that was loaded stores the computed value.
LEMMA WrittenCurrent ==
  ASSUME NEW current, NEW computed
  PROVE  Written(current, current, computed) = computed
BY DEF Written

\* A run that commits over the payslips it has read stores exactly what it has
\* computed, and leaves the payslips of the employees it skipped.
LEMMA FlushedFresh ==
  ASSUME TypeInv, NEW w \in Workers, req[w].old = amount
  PROVE  Flushed(req[w]) = [e \in Employees |-> IF req[w].new[e] # NoPayslip
                                                THEN req[w].new[e] ELSE amount[e]]
<1>1. SUFFICES ASSUME NEW e \in Employees
               PROVE  Flushed(req[w])[e] = IF req[w].new[e] # NoPayslip
                                           THEN req[w].new[e] ELSE amount[e]
  BY DEF Flushed
<1>2. req[w].new[e] \in Amount \cup {NoPayslip} /\ amount[e] \in Amount \cup {NoPayslip}
  BY DEF TypeInv, TypeOK, Request, Slips
<1>3. CASE e \in Inserts(req[w])
  BY <1>3 DEF Flushed, Inserts
<1>4. CASE e \notin Inserts(req[w]) /\ e \in Updates(req[w])
  <2>1. req[w].new[e] # NoPayslip /\ amount[e] # NoPayslip
    BY <1>4 DEF Updates, Resets
  <2>2. Flushed(req[w])[e] = [gross |-> req[w].new[e].gross,
                              deductions |-> req[w].new[e].deductions,
                              net |-> req[w].new[e].net]
    BY <1>4, WrittenCurrent DEF Flushed
  <2>3. req[w].new[e] \in Amount
    BY <1>2, <2>1
  <2>4. Flushed(req[w])[e] = req[w].new[e]
    BY <2>2, <2>3 DEF Amount
  <2> QED BY <2>1, <2>4
<1>5. CASE e \notin Inserts(req[w]) /\ e \notin Updates(req[w])
  BY <1>5 DEF Flushed, Inserts, Updates
<1> QED BY <1>3, <1>4, <1>5

\* A payment commits with every payslip it has found.
LEMMA PaysAll ==
  ASSUME TypeInv, NEW w \in Workers, CommitPay(w)
  PROVE  req[w].locked = {e \in Employees : req[w].old[e] # NoPayslip}
<1>1. req[w].op = "pay" /\ req[w].at = "writing" /\ req[w].next = NoRow
  BY DEF CommitPay
<1>2. req[w] \in Request /\ req[w].next \in Upcoming(req[w])
      /\ req[w].locked \subseteq Writes(req[w])
  BY <1>1 DEF TypeInv, TypeOK, RowsPlanned, Planned
<1>3. Writes(req[w]) \subseteq req[w].locked
  BY <1>1, <1>2, UpcomingType
<1> QED BY <1>1, <1>2, <1>3 DEF Writes

-----------------------------------------------------------------------------
\* When the cycle and its payslips are left alone, they still agree.
LEMMA RowsUntouched ==
  ASSUME RowsAgree, UNCHANGED <<status, totals, slipVars>>
  PROVE  RowsAgree'
BY DEF RowsAgree, TotalsMatchPayslips, StampedWithCycle, PayslipsAddUp, slipVars

\* A step of one worker that leaves the cycle and its payslips alone disturbs nobody.
LEMMA RowsStay ==
  ASSUME OverlapInv, NEW w \in Workers, NEW q, req' = [req EXCEPT ![w] = q],
         UNCHANGED <<cycleVars, slipVars>>,
         overtaken \ {w} \subseteq overtaken', strayed => strayed',
         w \notin overtaken' => Fresh(q), AddsUp(q)
  PROVE  Held
<1>1. \A v \in Workers : req'[v] = IF v = w THEN q ELSE req[v]
  BY DEF OverlapInv, TypeInv, TypeOK
<1>2. ASSUME NEW v \in Workers \ overtaken' PROVE Fresh(req'[v])
  BY <1>1 DEF OverlapInv, LoadedIsCurrent
<1>3. LoadedIsCurrent'
  <2> SUFFICES ASSUME NEW v \in Workers, v \notin overtaken'
               PROVE  /\ req'[v].at # "idle" =>
                           /\ ~deleted /\ status \in Accepts(req'[v].op)
                           /\ req'[v].status = status /\ req'[v].totals = totals
                      /\ req'[v].at \in {"writing", "flushed"} =>
                           /\ req'[v].old = amount
                           /\ req'[v].op = "run" => req'[v].oldStatus = slipStatus
                      /\ req'[v].at = "flushed" => req'[v].rollup = Rollup(Flushed(req[v])')
    BY DEF LoadedIsCurrent, Fresh, cycleVars, slipVars
  <2>1. Flushed(req[v])' = Flushed(req'[v])
    BY DEF Flushed, Inserts, Updates, Resets, slipVars
  <2> QED BY <1>2, <2>1 DEF Fresh
<1>4. ComputedAddUp'
  BY <1>1 DEF OverlapInv, ComputedAddUp, AddsUp
<1>5. strayed' \/ RowsAgree'
  BY RowsUntouched DEF OverlapInv, cycleVars
<1> QED BY <1>3, <1>4, <1>5 DEF Held

\* An idle worker holds nothing that could be stale or wrong.
LEMMA IdleHolds == Fresh(IdleRequest) /\ AddsUp(IdleRequest)
BY DEF Fresh, AddsUp, IdleRequest, NoSlips

\* After a commit on the cycle, whoever has read anything has been overtaken.
LEMMA OthersOvertaken ==
  ASSUME OverlapInv, NEW w \in Workers, Conclude(w)
  PROVE  LoadedIsCurrent' /\ ComputedAddUp'
<1>1. \A v \in Workers : req'[v] = IF v = w THEN IdleRequest ELSE req[v]
  BY DEF Conclude, OverlapInv, TypeInv, TypeOK
<1>2. \A v \in Workers \ overtaken' : req'[v].at = "idle"
  BY <1>1 DEF Conclude, IdleRequest
<1>3. LoadedIsCurrent'
  BY <1>2 DEF LoadedIsCurrent, Fresh
<1>4. ComputedAddUp'
  BY <1>1, IdleHolds DEF OverlapInv, ComputedAddUp, AddsUp
<1> QED BY <1>3, <1>4

\* A request that commits without having been overtaken is one the cycle, as it is now,
\* still accepts.
LEMMA CommitsAccepted ==
  ASSUME OverlapInv, NEW w \in Workers, Conclude(w) \/ Aside(w), ~strayed',
         req[w].at # "idle"
  PROVE  /\ w \notin overtaken /\ Fresh(req[w]) /\ RowsAgree /\ ~deleted
         /\ status \in Accepts(req[w].op) /\ req[w].status = status /\ req[w].totals = totals
<1>1. w \notin overtaken /\ ~strayed
  BY DEF Conclude, Aside, OverlapInv, TypeInv, TypeOK
<1>2. Fresh(req[w]) /\ RowsAgree
  BY <1>1 DEF OverlapInv, LoadedIsCurrent
<1> QED BY <1>1, <1>2 DEF Fresh

\* Loading the cycle reads what the database holds and passes the guard.
LEMMA LoadHeld ==
  ASSUME OverlapInv, NEW w \in Workers, NEW op \in Ops,
         NEW t \in Targets \cup {NoTarget}, Load(w, op, t)
  PROVE  Held
<1> DEFINE r == [IdleRequest EXCEPT !.op = op, !.at = "loaded", !.status = status,
                                    !.totals = totals, !.target = t]
<1>1. req' = [req EXCEPT ![w] = r] /\ ~deleted /\ status \in Accepts(op)
  BY DEF Load
<1>2. /\ r.op = op /\ r.at = "loaded" /\ r.status = status /\ r.totals = totals
      /\ r.new = NoSlips
  BY DEF IdleRequest
<1>3. UNCHANGED <<cycleVars, slipVars>> /\ overtaken' = overtaken /\ strayed' = strayed
  BY DEF Load, history, overlaps
<1> HIDE DEF r
<1>4. Fresh(r) /\ AddsUp(r)
  BY <1>1, <1>2 DEF Fresh, AddsUp, NoSlips
<1> QED BY <1>1, <1>3, <1>4, RowsStay

\* A run computes payslips that add up, over the payslips it has read.
LEMMA ReadHeld ==
  ASSUME OverlapInv, NEW w \in Workers, Read(w)
  PROVE  Held
<1>1. UNCHANGED <<cycleVars, slipVars>> /\ overtaken' = overtaken /\ strayed' = strayed
      /\ req[w].op = "run" /\ req[w].at = "loaded"
  BY DEF Read, history, overlaps
<1>2. PICK q, computed :
        /\ req' = [req EXCEPT ![w] = q]
        /\ q.op = "run" /\ q.at = "writing" /\ q.status = req[w].status
        /\ q.totals = req[w].totals /\ q.old = amount /\ q.oldStatus = slipStatus
        /\ q.new = computed
        /\ computed = [e \in Employees |-> IF Eligible(e) THEN Compute(e) ELSE NoPayslip]
  BY ReadHolds DEF OverlapInv
<1>3. AddsUp(q)
  <2> SUFFICES ASSUME NEW e \in Employees, q.new[e] # NoPayslip
               PROVE  q.new[e].net = q.new[e].gross - q.new[e].deductions
    BY DEF AddsUp
  <2>1. Eligible(e) /\ q.new[e] = Compute(e)
    BY <1>2
  <2> QED BY <2>1, ComputeType DEF OverlapInv, TypeInv
<1>4. w \notin overtaken' => Fresh(q)
  <2> SUFFICES ASSUME w \notin overtaken PROVE Fresh(q)
    BY <1>1
  <2>1. Fresh(req[w])
    BY DEF OverlapInv, LoadedIsCurrent
  <2> QED BY <1>1, <1>2, <2>1 DEF Fresh
<1> QED BY <1>1, <1>2, <1>3, <1>4, RowsStay

\* A payment finds the payslips the database holds.
LEMMA FindHeld ==
  ASSUME OverlapInv, NEW w \in Workers, FindSlips(w)
  PROVE  Held
<1>1. UNCHANGED <<cycleVars, slipVars>> /\ overtaken' = overtaken /\ strayed' = strayed
      /\ req[w].op = "pay" /\ req[w].at = "loaded"
  BY DEF FindSlips, history, overlaps
<1>2. PICK q : /\ req' = [req EXCEPT ![w] = q]
               /\ q.op = "pay" /\ q.at = "writing" /\ q.status = req[w].status
               /\ q.totals = req[w].totals /\ q.old = amount /\ q.new = req[w].new
  BY FindHolds DEF OverlapInv
<1>3. AddsUp(q)
  BY <1>2 DEF AddsUp, OverlapInv, ComputedAddUp
<1>4. w \notin overtaken' => Fresh(q)
  <2> SUFFICES ASSUME w \notin overtaken PROVE Fresh(q)
    BY <1>1
  <2>1. Fresh(req[w])
    BY DEF OverlapInv, LoadedIsCurrent
  <2> QED BY <1>1, <1>2, <2>1 DEF Fresh
<1> QED BY <1>1, <1>2, <1>3, <1>4, RowsStay

\* Writing a row within a transaction changes nothing that others see.
LEMMA WriteHeld ==
  ASSUME OverlapInv, NEW w \in Workers, WriteRow(w)
  PROVE  Held
<1>1. UNCHANGED <<cycleVars, slipVars>> /\ overtaken' = overtaken /\ strayed' = strayed
      /\ req[w].at = "writing"
  BY DEF WriteRow, history, overlaps
<1>2. PICK q : req' = [req EXCEPT ![w] = q] /\ Alike(q, req[w])
  BY WriteHolds DEF OverlapInv
<1>3. AddsUp(q)
  BY <1>2 DEF AddsUp, Alike, OverlapInv, ComputedAddUp
<1>4. w \notin overtaken' => Fresh(q)
  <2> SUFFICES ASSUME w \notin overtaken PROVE Fresh(q)
    BY <1>1
  <2>1. Fresh(req[w])
    BY DEF OverlapInv, LoadedIsCurrent
  <2> QED BY <1>1, <1>2, <2>1 DEF Fresh, Alike
<1> QED BY <1>1, <1>2, <1>3, <1>4, RowsStay

\* The roll-up of a run is that of the payslips it leaves behind, whatever the
\* session still holds in its identity map.
LEMMA FlushHeld ==
  ASSUME OverlapInv, NEW w \in Workers, Flush(w)
  PROVE  Held
<1>1. UNCHANGED <<cycleVars, slipVars>> /\ overtaken' = overtaken /\ strayed' = strayed
      /\ req[w].op = "run" /\ req[w].at = "writing"
  BY DEF Flush, history, overlaps
<1>2. PICK q : \E held \in SUBSET {e \in Employees : req[w].new[e] # NoPayslip} :
        /\ req' = [req EXCEPT ![w] = q]
        /\ q.op = "run" /\ q.at = "flushed" /\ q.status = req[w].status
        /\ q.totals = req[w].totals /\ q.old = req[w].old
        /\ q.oldStatus = req[w].oldStatus /\ q.new = req[w].new
        /\ q.rollup = Rollup([e \in Employees |-> IF e \in held THEN req[w].new[e]
                                                  ELSE Flushed(req[w])[e]])
  BY FlushHolds DEF OverlapInv
<1>3. AddsUp(q)
  BY <1>2 DEF AddsUp, OverlapInv, ComputedAddUp
<1>4. w \notin overtaken' => Fresh(q)
  <2> SUFFICES ASSUME w \notin overtaken PROVE Fresh(q)
    BY <1>1
  <2>1. Fresh(req[w])
    BY DEF OverlapInv, LoadedIsCurrent
  <2>2. req[w].old = amount
    BY <1>1, <2>1 DEF Fresh
  <2>3. PICK held \in SUBSET {e \in Employees : req[w].new[e] # NoPayslip} :
          q.rollup = Rollup([e \in Employees |-> IF e \in held THEN req[w].new[e]
                                                 ELSE Flushed(req[w])[e]])
    BY <1>2
  <2>4. [e \in Employees |-> IF e \in held THEN req[w].new[e] ELSE Flushed(req[w])[e]]
          = Flushed(req[w])
    <3>1. Flushed(req[w]) = [e \in Employees |-> IF req[w].new[e] # NoPayslip
                                                 THEN req[w].new[e] ELSE amount[e]]
      BY <2>2, FlushedFresh DEF OverlapInv
    <3> QED BY <3>1
  <2>5. q.rollup = Rollup(Flushed(req[w]))
    BY <2>3, <2>4
  <2>6. Flushed(q) = Flushed(req[w])
    <3>1. q.new = req[w].new /\ q.old = req[w].old /\ q.oldStatus = req[w].oldStatus
      BY <1>2
    <3>2. Inserts(q) = Inserts(req[w]) /\ Updates(q) = Updates(req[w])
      BY <3>1 DEF Inserts, Updates, Resets
    <3> QED BY <3>1, <3>2 DEF Flushed
  <2> QED BY <1>1, <1>2, <2>1, <2>2, <2>5, <2>6 DEF Fresh
<1> QED BY <1>1, <1>2, <1>3, <1>4, RowsStay

\* The commit of a run stores payslips that add up and the roll-up of all of them.
LEMMA CommitRunHeld ==
  ASSUME OverlapInv, NEW w \in Workers, CommitRun(w)
  PROVE  Held
<1>1. /\ req[w].op = "run" /\ req[w].at = "flushed"
      /\ amount' = Flushed(req[w])
      /\ slipStatus' = [e \in Employees |-> IF e \in Inserts(req[w]) \cup Resets(req[w])
                                            THEN "PENDING" ELSE slipStatus[e]]
      /\ totals' = Written(totals, req[w].totals, req[w].rollup)
      /\ status' = Written(status, req[w].status, "PROCESSING")
      /\ stamped' = stamped /\ Conclude(w)
  BY DEF CommitRun
<1>2. ASSUME ~strayed' PROVE RowsAgree'
  <2>1. /\ Fresh(req[w]) /\ RowsAgree /\ status \in Accepts("run")
        /\ req[w].status = status /\ req[w].totals = totals
    BY <1>1, <1>2, CommitsAccepted
  <2>2. req[w].old = amount /\ req[w].rollup = Rollup(Flushed(req[w]))
    BY <1>1, <2>1 DEF Fresh
  <2>3. status \in {"DRAFT", "PROCESSING"}
    BY <2>1 DEF Accepts, Guards
  <2>4. status' = "PROCESSING" /\ totals' = Rollup(amount')
    BY <1>1, <2>1, <2>2, WrittenCurrent
  <2>5. TotalsMatchPayslips'
    BY <2>4 DEF TotalsMatchPayslips
  <2>6. StampedWithCycle'
    BY <1>1, <2>1, <2>3, <2>4 DEF RowsAgree, StampedWithCycle
  <2>7. PayslipsAddUp'
    <3>1. Flushed(req[w]) = [e \in Employees |-> IF req[w].new[e] # NoPayslip
                                                 THEN req[w].new[e] ELSE amount[e]]
      BY <2>2, FlushedFresh DEF OverlapInv
    <3>2. AddsUp(req[w])
      BY DEF OverlapInv, ComputedAddUp
    <3> QED BY <1>1, <2>1, <3>1, <3>2 DEF RowsAgree, AddsUp, PayslipsAddUp
  <2> QED BY <2>5, <2>6, <2>7 DEF RowsAgree
<1> QED BY <1>1, <1>2, OthersOvertaken DEF Held

\* Paying stamps every payslip of the cycle, and nothing else pays or unpays one.
LEMMA CommitPayHeld ==
  ASSUME OverlapInv, NEW w \in Workers, CommitPay(w)
  PROVE  Held
<1>1. /\ req[w].op = "pay" /\ req[w].at = "writing"
      /\ status' = Written(status, req[w].status, "PAID")
      /\ slipStatus' = [e \in Employees |-> IF e \in req[w].locked THEN "PAID"
                                            ELSE slipStatus[e]]
      /\ stamped' = [e \in Employees |-> stamped[e] \/ e \in req[w].locked]
      /\ Conclude(w) /\ amount' = amount /\ totals' = totals
  BY DEF CommitPay
<1>2. ASSUME ~strayed' PROVE RowsAgree'
  <2>1. /\ Fresh(req[w]) /\ RowsAgree /\ status \in Accepts("pay") /\ req[w].status = status
    BY <1>1, <1>2, CommitsAccepted
  <2>2. req[w].old = amount
    BY <1>1, <2>1 DEF Fresh
  <2>3. req[w].locked = {e \in Employees : amount[e] # NoPayslip}
    BY <2>2, PaysAll DEF OverlapInv
  <2>4. status = "APPROVED" /\ status' = "PAID"
    BY <1>1, <2>1, WrittenCurrent DEF Accepts, Guards
  <2>5. StampedWithCycle'
    BY <1>1, <2>1, <2>3, <2>4 DEF RowsAgree, StampedWithCycle
  <2>6. TotalsMatchPayslips' /\ PayslipsAddUp'
    BY <1>1, <2>1 DEF RowsAgree, TotalsMatchPayslips, PayslipsAddUp
  <2> QED BY <2>5, <2>6 DEF RowsAgree
<1> QED BY <1>1, <1>2, OthersOvertaken DEF Held

\* Approving, cancelling and deleting concern a cycle that is not PAID, and leave it so.
LEMMA CommitDecisionHeld ==
  ASSUME OverlapInv, NEW w \in Workers, CommitApprove(w) \/ CommitCancel(w) \/ CommitDelete(w)
  PROVE  Held
<1>1. /\ req[w].op \in {"approve", "cancel", "delete"} /\ req[w].at = "loaded"
      /\ \/ status' = Written(status, req[w].status, "APPROVED")
         \/ status' = Written(status, req[w].status, "CANCELLED")
         \/ status' = status
      /\ Conclude(w) /\ UNCHANGED <<totals, slipVars>>
  BY DEF CommitApprove, CommitCancel, CommitDelete
<1>2. ASSUME ~strayed' PROVE RowsAgree'
  <2>1. RowsAgree /\ status \in Accepts(req[w].op) /\ req[w].status = status
    BY <1>1, <1>2, CommitsAccepted
  <2>2. status # "PAID"
    BY <1>1, <2>1 DEF Accepts, Guards, Statuses
  <2>3. status' # "PAID"
    BY <1>1, <2>1, <2>2, WrittenCurrent
  <2> QED BY <1>1, <2>1, <2>2, <2>3 DEF RowsAgree, TotalsMatchPayslips, StampedWithCycle,
                                        PayslipsAddUp, slipVars
<1> QED BY <1>1, <1>2, OthersOvertaken DEF Held

\* The other ends of a request leave status, totals and payslips alone.
LEMMA OtherEndsHeld ==
  ASSUME OverlapInv, NEW w \in Workers,
         \/ InsertFails(w) \/ DeadlockFound(w) \/ Rollback(w)
         \/ CommitAddAdjustment(w) \/ CommitDeleteAdjustment(w)
  PROVE  Held
<1>1. UNCHANGED <<cycleVars, slipVars>> /\ (Abort(w) \/ Aside(w))
  BY DEF InsertFails, DeadlockFound, Rollback, Abort, CommitAddAdjustment,
         CommitDeleteAdjustment
<1>2. req' = [req EXCEPT ![w] = IdleRequest] /\ overtaken' = overtaken \ {w}
  BY <1>1 DEF Abort, Aside, Finish
<1>3. strayed => strayed'
  BY <1>1 DEF Abort, Aside
<1>4. overtaken \ {w} \subseteq overtaken'
  BY <1>2
<1>5. Fresh(IdleRequest) /\ AddsUp(IdleRequest)
  BY IdleHolds
<1> QED BY <1>1, <1>2, <1>3, <1>4, <1>5, RowsStay

\* The inputs of a run may change under a request in flight: what it has computed
\* is kept by the session.
LEMMA InputsHeld ==
  ASSUME OverlapInv, UNCHANGED <<cycleVars, slipVars, req, overlaps>>
  PROVE  Held
<1>1. LoadedIsCurrent'
  <2> SUFFICES ASSUME NEW v \in Workers, v \notin overtaken
               PROVE  /\ req[v].at # "idle" =>
                           /\ ~deleted /\ status \in Accepts(req[v].op)
                           /\ req[v].status = status /\ req[v].totals = totals
                      /\ req[v].at \in {"writing", "flushed"} =>
                           /\ req[v].old = amount
                           /\ req[v].op = "run" => req[v].oldStatus = slipStatus
                      /\ req[v].at = "flushed" => req[v].rollup = Rollup(Flushed(req[v])')
    BY DEF LoadedIsCurrent, Fresh, cycleVars, slipVars, overlaps
  <2>1. Flushed(req[v])' = Flushed(req[v])
    BY DEF Flushed, Inserts, Updates, Resets, slipVars
  <2> QED BY <2>1 DEF OverlapInv, LoadedIsCurrent, Fresh
<1>2. ComputedAddUp'
  BY DEF OverlapInv, ComputedAddUp, AddsUp
<1>3. strayed' \/ RowsAgree'
  BY RowsUntouched DEF OverlapInv, cycleVars, overlaps
<1> QED BY <1>1, <1>2, <1>3 DEF Held

\* The inductive step.
LEMMA NextOverlap == OverlapInv /\ [Next]_vars => OverlapInv'
<1> SUFFICES ASSUME OverlapInv, [Next]_vars PROVE OverlapInv'
  OBVIOUS
<1>1. TypeInv'
  BY NextTypeInv DEF OverlapInv
<1>2. Held
  <2>1. CASE UNCHANGED vars
    BY <2>1, InputsHeld DEF vars, history
  <2>2. ASSUME NEW w \in Workers, Accept(w) PROVE Held
    <3>1. PICK op \in Ops, t \in Targets \cup {NoTarget} : Load(w, op, t)
      BY <2>2 DEF Accept, LoadCycle, LoadAddAdjustment, LoadDeleteAdjustment, Ops,
                  AdjustmentOps, OverlapInv, TypeInv, TypeOK
    <3> QED BY <3>1, LoadHeld
  <2>3. ASSUME NEW w \in Workers, Proceed(w) \/ Rollback(w) PROVE Held
    BY <2>3, ReadHeld, FindHeld, WriteHeld, FlushHeld, CommitRunHeld, CommitPayHeld,
       CommitDecisionHeld, OtherEndsHeld DEF Proceed
  <2>4. ASSUME Elsewhere PROVE Held
    <3>1. UNCHANGED <<cycleVars, slipVars, req, overlaps>>
      BY <2>4 DEF Elsewhere, ChangePay, DeleteEmployee, history
    <3> QED BY <3>1, InputsHeld
  <2> QED BY <2>1, <2>2, <2>3, <2>4 DEF Next
<1> QED BY <1>1, <1>2 DEF Held, OverlapInv

LEMMA InitOverlap == Init => OverlapInv
<1> SUFFICES ASSUME Init PROVE OverlapInv
  OBVIOUS
<1>1. TypeInv
  BY InitTypeInv
<1>2. LoadedIsCurrent /\ ComputedAddUp
  BY IdleHolds DEF Init, LoadedIsCurrent, ComputedAddUp
<1>3. RowsAgree
  BY DEF Init, RowsAgree, TotalsMatchPayslips, StampedWithCycle, PayslipsAddUp, NoSlips,
         AllPending
<1> QED BY <1>1, <1>2, <1>3 DEF OverlapInv

LEMMA OverlapInvariance == Spec => []OverlapInv
  BY InitOverlap, NextOverlap, PTL DEF Spec

\* For any number of requests at a time: the roll-up, the stamps and the columns of the
\* payslips agree until a request commits that another one has overtaken.
THEOREM OverlapOrderly == Spec => []OrderlyUnlessOvertaken
<1>1. OverlapInv => OrderlyUnlessOvertaken
  BY DEF OverlapInv, RowsAgree, OrderlyUnlessOvertaken
<1> QED BY <1>1, OverlapInvariance, PTL

-----------------------------------------------------------------------------
\* The steps that leave the row, the payslips and the adjustments of a cycle alone.
LEMMA QuietSteps ==
  ASSUME NEW w \in Workers,
         \/ Accept(w) \/ Read(w) \/ FindSlips(w) \/ WriteRow(w) \/ Flush(w)
         \/ InsertFails(w) \/ DeadlockFound(w) \/ Rollback(w)
  PROVE  UNCHANGED <<cycleVars, slipVars, adjustments>>
BY DEF Accept, LoadCycle, LoadAddAdjustment, LoadDeleteAdjustment, Load, Read, FindSlips,
       WriteRow, Flush, InsertFails, DeadlockFound, Rollback, Abort, inputVars

\* What the commit of a request that was not overtaken leaves alone in a settled cycle.
LEMMA CommitsSettled ==
  ASSUME OverlapInv, NEW w \in Workers, ~strayed',
         \/ CommitRun(w) \/ CommitApprove(w) \/ CommitPay(w) \/ CommitCancel(w)
         \/ CommitDelete(w) \/ CommitAddAdjustment(w) \/ CommitDeleteAdjustment(w)
  PROVE  /\ status # "PAID"
         /\ status = "APPROVED" => UNCHANGED <<amount, totals, adjustments>>
<1>1. /\ req[w].at # "idle" /\ req[w].op \in Ops
      /\ Conclude(w) \/ Aside(w)
  BY DEF CommitRun, CommitApprove, CommitPay, CommitCancel, CommitDelete, CommitAddAdjustment,
         CommitDeleteAdjustment, Ops, CycleOps, AdjustmentOps
<1>2. status \in Accepts(req[w].op)
  BY <1>1, CommitsAccepted
<1>3. status # "PAID"
  BY <1>1, <1>2 DEF Accepts, Guards, Statuses, Ops, CycleOps, AdjustmentOps
<1>4. ASSUME status = "APPROVED" PROVE UNCHANGED <<amount, totals, adjustments>>
  <2>1. req[w].op \in {"pay", "cancel", "delete"}
    BY <1>1, <1>2, <1>4 DEF Accepts, Guards, Ops, CycleOps, AdjustmentOps
  <2>2. CommitPay(w) \/ CommitCancel(w) \/ CommitDelete(w)
    BY <2>1 DEF CommitRun, CommitApprove, CommitAddAdjustment, CommitDeleteAdjustment
  <2> QED BY <2>2 DEF CommitPay, CommitCancel, CommitDelete, slipVars, inputVars
<1> QED BY <1>3, <1>4

\* A settled cycle is written by the commit of an overtaken request only.
Settles ==
  ~strayed' =>
    /\ status = "PAID" => UNCHANGED <<cycleVars, slipVars, adjustments>>
    /\ status = "APPROVED" => UNCHANGED <<amount, totals, adjustments>>

LEMMA NextSettles == OverlapInv /\ [Next]_vars => Settles
<1> SUFFICES ASSUME OverlapInv, [Next]_vars PROVE Settles
  OBVIOUS
<1>1. ASSUME UNCHANGED <<cycleVars, slipVars, adjustments>> PROVE Settles
  BY <1>1 DEF Settles, cycleVars, slipVars
<1>2. CASE UNCHANGED vars
  BY <1>1, <1>2 DEF vars, inputVars
<1>3. ASSUME NEW w \in Workers, Accept(w) \/ Rollback(w) PROVE Settles
  BY <1>1, <1>3, QuietSteps
<1>4. ASSUME NEW w \in Workers, Proceed(w) PROVE Settles
  <2>1. CASE \/ Read(w) \/ FindSlips(w) \/ WriteRow(w) \/ Flush(w) \/ InsertFails(w)
             \/ DeadlockFound(w)
    BY <1>1, <2>1, QuietSteps
  <2>2. CASE \/ CommitRun(w) \/ CommitApprove(w) \/ CommitPay(w) \/ CommitCancel(w)
             \/ CommitDelete(w) \/ CommitAddAdjustment(w) \/ CommitDeleteAdjustment(w)
    BY <2>2, CommitsSettled DEF Settles
  <2> QED BY <1>4, <2>1, <2>2 DEF Proceed
<1>5. ASSUME Elsewhere PROVE Settles
  BY <1>1, <1>5 DEF Elsewhere, ChangePay, DeleteEmployee
<1> QED BY <1>2, <1>3, <1>4, <1>5 DEF Next

\* For any number of requests at a time: what was approved, and a PAID cycle, is written
\* by the commit of an overtaken request only.
THEOREM OverlapSettled == Spec => SettledUnlessOvertaken
<1>1. OverlapInv /\ [Next]_vars =>
        [~strayed' =>
           /\ status = "PAID" => UNCHANGED <<cycleVars, slipVars, adjustments>>
           /\ status = "APPROVED" => UNCHANGED <<amount, totals, adjustments>>]_vars
  BY NextSettles DEF Settles
<1> QED BY <1>1, OverlapInvariance, PTL DEF Spec, SettledUnlessOvertaken

-----------------------------------------------------------------------------
(***************************************************************************)
(* Requests on a cycle served one at a time: a single worker, and any      *)
(* number of employees and pay scales.  Nobody is overtaken, so that all   *)
(* of the above holds without exception.  With two workers TLC refutes     *)
(* several of these properties.                                            *)
(***************************************************************************)
\* At most one request is in flight.
Serial == \A v, w \in Workers : v = w

Alone == overtaken = {} /\ ~strayed

SerialInv == OverlapInv /\ Alone

\* A worker that is alone overtakes nobody.
LEMMA NextAlone == Serial /\ Alone /\ [Next]_vars => Alone'
<1> SUFFICES ASSUME Serial, Alone, [Next]_vars PROVE Alone'
  OBVIOUS
<1>1. CASE UNCHANGED overlaps
  BY <1>1 DEF overlaps, Alone
<1>2. ASSUME NEW w \in Workers, Abort(w) \/ Aside(w) \/ Conclude(w) PROVE Alone'
  <2>1. overtaken = {} /\ ~strayed
    BY DEF Alone
  <2>2. overtaken' = {}
    BY <1>2, <2>1 DEF Abort, Aside, Conclude, Finish, Serial
  <2>3. ~strayed'
    BY <1>2, <2>1 DEF Abort, Aside, Conclude
  <2> QED BY <2>2, <2>3 DEF Alone
<1>3. CASE UNCHANGED vars
  BY <1>1, <1>3 DEF vars, history
<1>4. ASSUME NEW w \in Workers,
             Accept(w) \/ Read(w) \/ FindSlips(w) \/ WriteRow(w) \/ Flush(w)
      PROVE  Alone'
  <2>1. UNCHANGED overlaps
    BY <1>4 DEF Accept, LoadCycle, LoadAddAdjustment, LoadDeleteAdjustment, Load, Read,
                FindSlips, WriteRow, Flush, history
  <2> QED BY <1>1, <2>1
<1>5. ASSUME NEW w \in Workers,
             \/ InsertFails(w) \/ DeadlockFound(w) \/ Rollback(w) \/ CommitRun(w)
             \/ CommitApprove(w) \/ CommitPay(w) \/ CommitCancel(w) \/ CommitDelete(w)
             \/ CommitAddAdjustment(w) \/ CommitDeleteAdjustment(w)
      PROVE  Alone'
  <2>1. Abort(w) \/ Aside(w) \/ Conclude(w)
    BY <1>5 DEF InsertFails, DeadlockFound, Rollback, CommitRun, CommitApprove, CommitPay,
                CommitCancel, CommitDelete, CommitAddAdjustment, CommitDeleteAdjustment
  <2> QED BY <1>2, <2>1
<1>6. ASSUME Elsewhere PROVE Alone'
  BY <1>1, <1>6 DEF Elsewhere, ChangePay, DeleteEmployee, history
<1> QED BY <1>3, <1>4, <1>5, <1>6 DEF Next, Proceed

LEMMA NextSerial == Serial /\ SerialInv /\ [Next]_vars => SerialInv'
  BY NextOverlap, NextAlone DEF SerialInv

LEMMA InitSerial == Init => SerialInv
  BY InitOverlap DEF SerialInv, Alone, Init

LEMMA SerialInvariance == Serial => (Spec => []SerialInv)
<1>1. SUFFICES ASSUME Serial PROVE Spec => []SerialInv
  OBVIOUS
<1>2. SerialInv /\ [Next]_vars => SerialInv'
  BY <1>1, NextSerial
<1> QED BY <1>2, InitSerial, PTL DEF Spec

\* Requests served one at a time: the stored roll-up is always that of the stored
\* payslips, whatever was run, re-run, adjusted, skipped, rolled back or paid.
THEOREM SerialTotals == Serial => (Spec => []TotalsMatchPayslips)
<1>1. SerialInv => TotalsMatchPayslips
  BY DEF SerialInv, Alone, OverlapInv, RowsAgree
<1> QED BY <1>1, SerialInvariance, PTL

\* Requests served one at a time: a payslip is PAID and dated exactly when its cycle
\* has been paid.
THEOREM SerialStamps == Serial => (Spec => []StampedWithCycle)
<1>1. SerialInv => StampedWithCycle
  BY DEF SerialInv, Alone, OverlapInv, RowsAgree
<1> QED BY <1>1, SerialInvariance, PTL

\* Requests served one at a time: a PAID cycle is terminal.
THEOREM SerialTerminal == Serial => (Spec => PaidIsTerminal)
<1>1. SerialInv /\ SerialInv' /\ [Next]_vars =>
        [status = "PAID" => UNCHANGED <<cycleVars, slipVars, adjustments>>]_vars
  <2> SUFFICES ASSUME SerialInv, SerialInv', Next, status = "PAID"
               PROVE  UNCHANGED <<cycleVars, slipVars, adjustments>>
    OBVIOUS
  <2>1. Settles
    BY NextSettles DEF SerialInv
  <2>2. ~strayed'
    BY DEF SerialInv, Alone
  <2> QED BY <2>1, <2>2 DEF Settles
<1> QED BY <1>1, SerialInvariance, PTL DEF Spec, PaidIsTerminal

\* Requests served one at a time: what was approved is what is paid.
THEOREM SerialLock == Serial => (Spec => ApprovalLocksPayslips)
<1>1. SerialInv /\ SerialInv' /\ [Next]_vars =>
        [status = "APPROVED" => UNCHANGED <<amount, totals, adjustments>>]_vars
  <2> SUFFICES ASSUME SerialInv, SerialInv', Next, status = "APPROVED"
               PROVE  UNCHANGED <<amount, totals, adjustments>>
    OBVIOUS
  <2>1. Settles
    BY NextSettles DEF SerialInv
  <2>2. ~strayed'
    BY DEF SerialInv, Alone
  <2> QED BY <2>1, <2>2 DEF Settles
<1> QED BY <1>1, SerialInvariance, PTL DEF Spec, ApprovalLocksPayslips

-----------------------------------------------------------------------------
(***************************************************************************)
(* Refinement: each commit is the lifecycle step of its operation, every   *)
(* other step a stutter.                                                   *)
(***************************************************************************)
Phase    == IF deleted THEN "DELETED" ELSE status
Disbursed == {e \in Employees : stamped[e]}

\* A worker that is alone commits to the cycle it has read.
LEMMA SerialCommits ==
  ASSUME SerialInv, NEW w \in Workers, Conclude(w), req[w].at # "idle"
  PROVE  /\ Fresh(req[w]) /\ RowsAgree /\ ~deleted
         /\ status \in Accepts(req[w].op) /\ req[w].status = status
<1>1. ~strayed'
  BY DEF SerialInv, Alone, Conclude
<1> QED BY <1>1, CommitsAccepted DEF SerialInv

\* A committed run is the lifecycle's Run: it withdraws no payslip.
LEMMA RunRefines ==
  ASSUME SerialInv, NEW w \in Workers, CommitRun(w)
  PROVE  Lifecycle!Run
<1>1. req[w].op = "run" /\ req[w].at = "flushed" /\ Conclude(w)
  BY DEF CommitRun
<1>2. Phase \in {"DRAFT", "PROCESSING"}
  BY <1>1, SerialCommits DEF Phase, Accepts, Guards
<1>3. Phase' = "PROCESSING"
  <2>1. req[w].status = status /\ ~deleted
    BY <1>1, SerialCommits
  <2>2. status' = Written(status, status, "PROCESSING") /\ deleted' = deleted
    BY <2>1 DEF CommitRun
  <2> QED BY <2>1, <2>2, WrittenCurrent DEF Phase
<1>4. amount' \in Slips /\ \A e \in Employees : amount[e] # NoPayslip => amount'[e] # NoPayslip
  BY FlushedType DEF CommitRun, SerialInv, OverlapInv
<1>5. UNCHANGED Disbursed
  BY DEF CommitRun, Disbursed
<1> QED BY <1>2, <1>3, <1>4, <1>5 DEF Lifecycle!Run, Phase, Disbursed

\* A committed payment is the lifecycle's Pay: it releases every payslip.
LEMMA PayRefines ==
  ASSUME SerialInv, NEW w \in Workers, CommitPay(w)
  PROVE  Lifecycle!Pay
<1>1. req[w].op = "pay" /\ req[w].at = "writing" /\ Conclude(w)
  BY DEF CommitPay
<1>2. status = "APPROVED" /\ req[w].status = status /\ ~deleted /\ Fresh(req[w]) /\ RowsAgree
  BY <1>1, SerialCommits DEF Accepts, Guards
<1>3. status' = "PAID" /\ deleted' = deleted /\ amount' = amount
  BY <1>2, WrittenCurrent DEF CommitPay
<1>4. \A e \in Employees : ~stamped[e]
  BY <1>2 DEF RowsAgree, StampedWithCycle
<1>5. req[w].locked = {e \in Employees : amount[e] # NoPayslip}
  <2>1. req[w].old = amount
    BY <1>1, <1>2 DEF Fresh
  <2> QED BY <2>1, PaysAll DEF SerialInv, OverlapInv
<1>6. Disbursed' = {e \in Employees : amount[e] # NoPayslip}
  BY <1>4, <1>5 DEF CommitPay, Disbursed
<1> QED BY <1>2, <1>3, <1>6 DEF Lifecycle!Pay, Phase, Disbursed

\* Committed decisions are the lifecycle's Approve, Cancel and Delete.
LEMMA DecisionRefines ==
  ASSUME SerialInv, NEW w \in Workers, CommitApprove(w) \/ CommitCancel(w) \/ CommitDelete(w)
  PROVE  Lifecycle!Approve \/ Lifecycle!Cancel \/ Lifecycle!Delete
<1>1. UNCHANGED <<amount, stamped>>
  BY DEF CommitApprove, CommitCancel, CommitDelete, slipVars
<1>2. CASE CommitApprove(w)
  <2>1. req[w].op = "approve" /\ req[w].at = "loaded" /\ Conclude(w)
    BY <1>2 DEF CommitApprove
  <2>2. status = "PROCESSING" /\ req[w].status = status /\ ~deleted
    BY <2>1, SerialCommits DEF Accepts, Guards
  <2>3. status' = "APPROVED" /\ deleted' = deleted
    BY <1>2, <2>2, WrittenCurrent DEF CommitApprove
  <2> QED BY <1>1, <2>2, <2>3 DEF Lifecycle!Approve
<1>3. CASE CommitCancel(w)
  <2>1. req[w].op = "cancel" /\ req[w].at = "loaded" /\ Conclude(w)
    BY <1>3 DEF CommitCancel
  <2>2. status \in Statuses \ {"PAID"} /\ req[w].status = status /\ ~deleted
    BY <2>1, SerialCommits DEF Accepts, Guards
  <2>3. status' = "CANCELLED" /\ deleted' = deleted
    BY <1>3, <2>2, WrittenCurrent DEF CommitCancel
  <2> QED BY <1>1, <2>2, <2>3 DEF Lifecycle!Cancel, Statuses
<1>4. CASE CommitDelete(w)
  <2>1. req[w].op = "delete" /\ req[w].at = "loaded" /\ Conclude(w)
    BY <1>4 DEF CommitDelete
  <2>2. status \in Statuses \ {"PAID"} /\ ~deleted
    BY <2>1, SerialCommits DEF Accepts, Guards
  <2>3. deleted'
    BY <1>4 DEF CommitDelete
  <2> QED BY <1>1, <2>2, <2>3 DEF Lifecycle!Delete, Statuses
<1> QED BY <1>2, <1>3, <1>4

\* Every step maps to a lifecycle step or a stutter.
LEMMA StepRefines ==
  SerialInv /\ [Next]_vars => [Lifecycle!LifecycleNext]_(Lifecycle!lifecycleVars)
<1> SUFFICES ASSUME SerialInv, [Next]_vars
             PROVE  Lifecycle!LifecycleNext \/ UNCHANGED <<deleted, status, amount, stamped>>
  BY DEF Lifecycle!lifecycleVars
<1>1. CASE UNCHANGED vars
  BY <1>1 DEF vars, cycleVars, slipVars
<1>2. ASSUME NEW w \in Workers,
             \/ Accept(w) \/ Read(w) \/ FindSlips(w) \/ WriteRow(w) \/ Flush(w)
             \/ InsertFails(w) \/ DeadlockFound(w) \/ Rollback(w)
      PROVE  UNCHANGED <<deleted, status, amount, stamped>>
  BY <1>2, QuietSteps DEF cycleVars, slipVars
<1>3. ASSUME NEW w \in Workers, CommitAddAdjustment(w) \/ CommitDeleteAdjustment(w)
      PROVE  UNCHANGED <<deleted, status, amount, stamped>>
  BY <1>3 DEF CommitAddAdjustment, CommitDeleteAdjustment, cycleVars, slipVars
<1>4. ASSUME NEW w \in Workers,
             \/ CommitRun(w) \/ CommitApprove(w) \/ CommitPay(w) \/ CommitCancel(w)
             \/ CommitDelete(w)
      PROVE  Lifecycle!LifecycleNext
  BY <1>4, RunRefines, PayRefines, DecisionRefines DEF Lifecycle!LifecycleNext
<1>5. ASSUME Elsewhere
      PROVE  UNCHANGED <<deleted, status, amount, stamped>>
  BY <1>5 DEF Elsewhere, ChangePay, DeleteEmployee, cycleVars, slipVars
<1> QED BY <1>1, <1>2, <1>3, <1>4, <1>5 DEF Next, Proceed

\* Requests served one at a time: the handlers implement the README's lifecycle.
THEOREM SerialLifecycle == Serial => (Spec => ImplementsLifecycle)
<1>1. Init => Lifecycle!LifecycleInit
  BY DEF Init, Lifecycle!LifecycleInit, Lifecycle!Blank, NoSlips
<1> QED BY <1>1, StepRefines, SerialInvariance, PTL
        DEF Spec, ImplementsLifecycle, Lifecycle!LifecycleSpec

-----------------------------------------------------------------------------
(***************************************************************************)
(* Releases.  Whatever an employee is sent is the payslip that was paid,   *)
(* when the requests on the cycle are served one at a time: any number of  *)
(* employees, batches and retries, and releases that overlap the requests  *)
(* at every step.                                                          *)
(*                                                                         *)
(* A release holds no lock.  What it has read stays right because a cycle  *)
(* that was approved, cancelled or paid is never run again, and because a  *)
(* PAID one is neither deleted nor reopened.                               *)
(***************************************************************************)
\* The statuses in which the payslips do not change any more.
Settled == {"APPROVED", "PAID", "CANCELLED"}

PaidOut == status = "PAID" /\ ~deleted

\* The payslips still to send are those the cycle holds.
ShowsCurrent == \A e \in release.todo : release.shows[e] = amount[e]

\* What a release in flight has read.
HeldRight ==
  /\ release.todo \subseteq Employees
  /\ release.at = "loaded" => ~release.early /\ PaidOut
  /\ release.at = "read" /\ ~release.early => status \in Settled /\ ShowsCurrent
  /\ release.at = "sending" => PaidOut /\ (~release.early => ShowsCurrent)

\* What has left the system.
SentRight ==
  \A e \in Employees \ early :
    delivered[e] # {} => PaidOut /\ delivered[e] = {amount[e]}

Sent == DOMAIN delivered = Employees

ReleaseInv == SerialInv /\ HeldRight /\ SentRight /\ Sent

-----------------------------------------------------------------------------
\* A settled cycle keeps its payslips and stays settled; a paid one stays paid.
LEMMA CycleSettles ==
  ASSUME Serial, SerialInv, [Next]_vars, status \in Settled
  PROVE  /\ status' \in Settled /\ amount' = amount
         /\ PaidOut => PaidOut'
<1>1. CASE UNCHANGED vars
  BY <1>1 DEF vars, cycleVars, slipVars, PaidOut
<1>2. ASSUME NEW w \in Workers,
             \/ Accept(w) \/ Read(w) \/ FindSlips(w) \/ WriteRow(w) \/ Flush(w)
             \/ InsertFails(w) \/ DeadlockFound(w) \/ Rollback(w)
      PROVE  UNCHANGED <<status, deleted, amount>>
  BY <1>2, QuietSteps DEF cycleVars, slipVars
<1>3. ASSUME NEW w \in Workers, CommitAddAdjustment(w) \/ CommitDeleteAdjustment(w)
      PROVE  UNCHANGED <<status, deleted, amount>>
  BY <1>3 DEF CommitAddAdjustment, CommitDeleteAdjustment, cycleVars, slipVars
<1>4. ASSUME NEW w \in Workers,
             CommitRun(w) \/ CommitApprove(w) \/ CommitPay(w) \/ CommitCancel(w) \/ CommitDelete(w)
      PROVE  /\ status = "APPROVED" \/ status = "CANCELLED"
             /\ status' \in Settled /\ amount' = amount
  <2>1. /\ req[w].at # "idle" /\ Conclude(w)
        /\ req[w].op \in {"run", "approve", "pay", "cancel", "delete"}
    BY <1>4 DEF CommitRun, CommitApprove, CommitPay, CommitCancel, CommitDelete
  <2>2. status \in Accepts(req[w].op) /\ req[w].status = status
    BY <2>1, SerialCommits
  <2>3. req[w].op \in {"pay", "cancel", "delete"} /\ status # "PAID"
    BY <2>1, <2>2 DEF Accepts, Guards, Settled, Statuses
  <2>4. CASE CommitPay(w)
    <3>1. status' = Written(status, status, "PAID") /\ amount' = amount
      BY <2>2, <2>4 DEF CommitPay
    <3> QED BY <2>3, <3>1, WrittenCurrent DEF Settled
  <2>5. CASE CommitCancel(w)
    <3>1. status' = Written(status, status, "CANCELLED") /\ amount' = amount
      BY <2>2, <2>5 DEF CommitCancel, slipVars
    <3> QED BY <2>3, <3>1, WrittenCurrent DEF Settled
  <2>6. CASE CommitDelete(w)
    BY <2>3, <2>6 DEF CommitDelete, slipVars, Settled
  <2> QED BY <1>4, <2>3, <2>4, <2>5, <2>6 DEF CommitRun, CommitApprove
<1>5. ASSUME Elsewhere
      PROVE  UNCHANGED <<status, deleted, amount>>
  BY <1>5 DEF Elsewhere, ChangePay, DeleteEmployee, cycleVars, slipVars
<1> QED BY <1>1, <1>2, <1>3, <1>4, <1>5 DEF Next, Proceed, PaidOut

\* So a request on the cycle disturbs no release.
LEMMA RequestsKeep ==
  ASSUME Serial, ReleaseInv, [Next]_vars, UNCHANGED releaseVars
  PROVE  ReleaseInv'
<1>1. SerialInv'
  BY NextSerial DEF ReleaseInv
<1>2. status \in Settled => status' \in Settled /\ amount' = amount /\ (PaidOut => PaidOut')
  BY CycleSettles DEF ReleaseInv
<1>3. PaidOut => status \in Settled
  BY DEF PaidOut, Settled
<1>4. HeldRight' /\ SentRight' /\ Sent'
  BY <1>2, <1>3 DEF ReleaseInv, releaseVars, HeldRight, SentRight, ShowsCurrent, Sent
<1> QED BY <1>1, <1>4 DEF ReleaseInv

\* Nor does a step of a release disturb the requests.
LEMMA RowsKept ==
  ASSUME SerialInv, UNCHANGED vars
  PROVE  SerialInv'
<1>1. OverlapInv'
  BY NextOverlap DEF SerialInv
<1>2. Alone'
  BY DEF SerialInv, Alone, vars, history, overlaps
<1> QED BY <1>1, <1>2 DEF SerialInv

\* The steps of a release read the cycle, and do not write it.
LEMMA ReadsKeep ==
  ASSUME ReleaseInv,
         \/ LoadBulk \/ ReadBulk \/ GateOne \/ EndRelease
         \/ \E e \in Employees : ReadOne(e) \/ SendFails(e)
  PROVE  ReleaseInv'
<1>1. UNCHANGED <<vars, delivered, early>>
  BY DEF LoadBulk, ReadBulk, GateOne, EndRelease, ReadOne, SendFails
<1>2. SerialInv'
  BY <1>1, RowsKept DEF ReleaseInv
<1>3. UNCHANGED <<status, deleted, amount>> /\ PaidOut' = PaidOut
  BY <1>1 DEF vars, cycleVars, slipVars, PaidOut
<1>4. SentRight' /\ Sent'
  BY <1>1, <1>3 DEF ReleaseInv, SentRight, Sent
<1>5. amount \in [Employees -> Amount \cup {NoPayslip}]
  BY DEF ReleaseInv, SerialInv, OverlapInv, TypeInv, TypeOK, Slips
<1>6. CASE LoadBulk \/ EndRelease
  BY <1>3, <1>4, <1>6, <1>2 DEF LoadBulk, EndRelease, NoRelease, HeldRight, PaidOut, ReleaseInv
<1>7. CASE ReadBulk
  <2>1. /\ release' = [NoRelease EXCEPT !.at = "sending", !.shows = amount,
                                        !.todo = {e \in Employees : amount[e] # NoPayslip}]
        /\ PaidOut
    BY <1>7 DEF ReadBulk, ReleaseInv, HeldRight
  <2> QED BY <1>2, <1>3, <1>4, <2>1 DEF NoRelease, HeldRight, ShowsCurrent, ReleaseInv
<1>8. CASE GateOne
  BY <1>2, <1>3, <1>4, <1>8
     DEF GateOne, NoRelease, HeldRight, ShowsCurrent, PaidOut, ReleaseInv
<1>9. ASSUME NEW e \in Employees, ReadOne(e) PROVE ReleaseInv'
  <2>1. release' = [at |-> "read", shows |-> [NoSlips EXCEPT ![e] = amount[e]], todo |-> {e},
                    early |-> status \notin {"APPROVED", "PAID"}]
    BY <1>9 DEF ReadOne
  <2>2. [NoSlips EXCEPT ![e] = amount[e]][e] = amount[e]
    BY DEF NoSlips
  <2> QED BY <1>2, <1>3, <1>4, <2>1, <2>2 DEF HeldRight, ShowsCurrent, Settled, ReleaseInv
<1>10. ASSUME NEW e \in Employees, SendFails(e) PROVE ReleaseInv'
  BY <1>2, <1>3, <1>4, <1>10 DEF SendFails, HeldRight, ShowsCurrent, ReleaseInv
<1> QED BY <1>6, <1>7, <1>8, <1>9, <1>10

\* What is sent is what the cycle holds, or counts as early.
LEMMA SendKeeps ==
  ASSUME ReleaseInv, NEW e \in Employees, Send(e)
  PROVE  ReleaseInv'
<1>1. /\ release.at = "sending" /\ e \in release.todo
      /\ delivered' = [delivered EXCEPT ![e] = @ \cup {release.shows[e]}]
      /\ early' = (IF release.early THEN early \cup {e} ELSE early)
      /\ release' = [release EXCEPT !.todo = @ \ {e}] /\ UNCHANGED vars
  BY DEF Send
<1>2. SerialInv'
  BY <1>1, RowsKept DEF ReleaseInv
<1>3. UNCHANGED <<status, deleted, amount>> /\ PaidOut' = PaidOut /\ PaidOut
  BY <1>1 DEF vars, cycleVars, slipVars, PaidOut, ReleaseInv, HeldRight
<1>4. HeldRight'
  BY <1>1, <1>3 DEF ReleaseInv, HeldRight, ShowsCurrent
<1>5. SentRight' /\ Sent'
  <2>1. ASSUME NEW d \in Employees \ early', delivered'[d] # {}
        PROVE  delivered'[d] = {amount[d]}
    <3>1. CASE d # e
      BY <1>1, <2>1, <3>1 DEF ReleaseInv, SentRight, Sent
    <3>2. CASE d = e
      <4>1. ~release.early /\ d \notin early
        BY <1>1, <2>1, <3>2
      <4>2. release.shows[e] = amount[e]
        BY <1>1, <4>1 DEF ReleaseInv, HeldRight, ShowsCurrent
      <4>3. delivered[e] \subseteq {amount[e]}
        BY <3>2, <4>1 DEF ReleaseInv, SentRight
      <4> QED BY <1>1, <3>2, <4>2, <4>3 DEF ReleaseInv, Sent
    <3> QED BY <3>1, <3>2
  <2> QED BY <1>1, <1>3, <2>1 DEF ReleaseInv, SentRight, Sent
<1> QED BY <1>2, <1>4, <1>5 DEF ReleaseInv

-----------------------------------------------------------------------------
LEMMA InitRelease == Init /\ ReleaseInit => ReleaseInv
  BY InitSerial DEF ReleaseInit, NoRelease, ReleaseInv, HeldRight, SentRight, Sent

LEMMA NextRelease ==
  Serial /\ ReleaseInv /\ [ReleaseNext]_<<vars, releaseVars>> => ReleaseInv'
<1> SUFFICES ASSUME Serial, ReleaseInv, [ReleaseNext]_<<vars, releaseVars>> PROVE ReleaseInv'
  OBVIOUS
<1>1. CASE [Next]_vars /\ UNCHANGED releaseVars
  BY <1>1, RequestsKeep
<1>2. CASE \/ LoadBulk \/ ReadBulk \/ GateOne \/ EndRelease
           \/ \E e \in Employees : ReadOne(e) \/ SendFails(e)
  BY <1>2, ReadsKeep
<1>3. ASSUME NEW e \in Employees, Send(e) PROVE ReleaseInv'
  BY <1>3, SendKeeps
<1> QED BY <1>1, <1>2, <1>3 DEF ReleaseNext

\* Requests on the cycle served one at a time: whatever an employee was sent, by however
\* many batches, downloads and retries, is the one payslip that was paid and that the
\* own view shows (email_cycle_payslips, get_payslip, my_payslips); the exception are
\* documents whose reading began before the approval.
THEOREM SerialMailedIsPaid == Serial => (ReleaseSpec => []MailedIsPaid)
<1> SUFFICES ASSUME Serial PROVE ReleaseSpec => []MailedIsPaid
  OBVIOUS
<1>1. ReleaseInv /\ [ReleaseNext]_<<vars, releaseVars>> => ReleaseInv'
  BY NextRelease
<1>2. ReleaseInv => MailedIsPaid
  BY DEF ReleaseInv, SentRight, PaidOut, MailedIsPaid, Released
<1> QED BY <1>1, <1>2, InitRelease, PTL DEF ReleaseSpec

\* Releasing payslips changes nothing of a cycle: with releases in between, its handlers
\* still behave as PayrollCycle says, so that every theorem about Spec holds here too.
THEOREM ReleasesOnlyRead == ReleaseSpec => Spec
<1>1. [ReleaseNext]_<<vars, releaseVars>> => [Next]_vars
  <2>1. \/ LoadBulk \/ ReadBulk \/ GateOne \/ EndRelease
        \/ \E e \in Employees : ReadOne(e) \/ Send(e) \/ SendFails(e)
        => UNCHANGED vars
    BY DEF LoadBulk, ReadBulk, GateOne, EndRelease, ReadOne, Send, SendFails
  <2> QED BY <2>1 DEF ReleaseNext
<1> QED BY <1>1, PTL DEF ReleaseSpec, Spec
=============================================================================
