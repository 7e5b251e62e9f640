--------------------------- MODULE Timesheet_proofs ---------------------------
(***************************************************************************)
(* Proofs about Timesheet: its types, whatever handlers overlap, and what  *)
(* it guarantees when HTTP requests are served one at a time, for any      *)
(* calendar, users and leave.                                              *)
(***************************************************************************)
EXTENDS Timesheet, FiniteSetTheorems, TLAPS

\* The days worked are never fewer than those lost, so that no aggregate is negative.
LEMMA RecomputeType ==
  ASSUME NEW grid \in Grids
  PROVE  Recompute(grid) \in Sums
<1> DEFINE On(statuses) == {d \in Days : grid[d] \in statuses}
           unpaid  == On({"UNPAID_LEAVE"})
           half    == On({"HALF_DAY"})
           halves  == On({"HALF_DAY", "HALF_DAY_PAID"})
           working == On(DayStatuses \ NonWorking)
<1>1. IsFiniteSet(Days)
  BY TimesheetAssumption
<1>2. /\ unpaid \subseteq Days /\ half \subseteq Days /\ halves \subseteq Days
      /\ working \subseteq Days
  OBVIOUS
<1>3. /\ IsFiniteSet(unpaid) /\ IsFiniteSet(half) /\ IsFiniteSet(halves)
      /\ IsFiniteSet(working)
  BY <1>1, <1>2, FS_Subset
<1>4. /\ Cardinality(unpaid) \in Nat /\ Cardinality(half) \in Nat
      /\ Cardinality(halves) \in Nat /\ Cardinality(working) \in Nat
  BY <1>3, FS_CardinalityType
<1>5. unpaid \cup half \subseteq working
  BY DEF DayStatuses, NonWorking, LeaveOverlay, LeaveLocked
<1>6. Cardinality(unpaid \cup half) <= Cardinality(working)
  BY <1>3, <1>5, FS_Subset
<1>7. Cardinality(unpaid \cup half) = Cardinality(unpaid) + Cardinality(half)
  <2>1. unpaid \cap half = {}
    OBVIOUS
  <2>2. Cardinality(unpaid \cup half)
          = Cardinality(unpaid) + Cardinality(half) - Cardinality(unpaid \cap half)
    BY <1>3, FS_Union
  <2>3. Cardinality(unpaid \cap half) = 0
    BY <2>1, FS_EmptySet
  <2> QED BY <1>4, <2>2, <2>3
<1>8. Recompute(grid) =
        [lop |-> 2 * Cardinality(unpaid) + Cardinality(half),
         halves |-> Cardinality(halves),
         worked |-> 2 * Cardinality(working) - (2 * Cardinality(unpaid) + Cardinality(half))]
  BY DEF Recompute
<1> HIDE DEF unpaid, half, halves, working
<1>9. 2 * Cardinality(working) - (2 * Cardinality(unpaid) + Cardinality(half)) \in Nat
  BY <1>4, <1>6, <1>7
<1> QED BY <1>4, <1>8, <1>9 DEF Sums

\* A blank sheet, and the request a worker holds when it serves none, are well-formed.
LEMMA IdleType == BlankSheet \in Sheet /\ Idle \in Request /\ Idle.at = "idle"
<1>1. BlankGrid \in Grids
  BY DEF BlankGrid, Grids, DayStatuses, SelfMarkable
<1>2. Recompute(BlankGrid) \in Sums
  BY <1>1, RecomputeType
<1>3. BlankSheet \in Sheet
  BY <1>1, <1>2 DEF BlankSheet, Sheet, States, Editable
<1> QED BY <1>1, <1>3 DEF Idle, Request, Ops, Stages

\* A written column holds the current or the computed value.
LEMMA WrittenType ==
  ASSUME NEW S, NEW current \in S, NEW loaded, NEW computed \in S
  PROVE  Written(current, loaded, computed) \in S
BY DEF Written

\* A commit writes a well-formed sheet over whatever is stored.
LEMMA WriteBackType ==
  ASSUME sheet \in Sheet, NEW old \in Sheet, NEW new \in Sheet, WriteBack(old, new)
  PROVE  sheet' \in Sheet
<1>1. \A d \in Days : Written(sheet.grid[d], old.grid[d], new.grid[d]) \in DayStatuses
  BY WrittenType DEF Sheet, Grids
<1>2. /\ Written(sheet.state, old.state, new.state) \in States
      /\ Written(sheet.maker, old.maker, new.maker) \in Users \cup {NoUser}
      /\ Written(sheet.checker, old.checker, new.checker) \in Users \cup {NoUser}
  BY WrittenType DEF Sheet
<1>3. /\ Written(sheet.sums.lop, old.sums.lop, new.sums.lop) \in Nat
      /\ Written(sheet.sums.halves, old.sums.halves, new.sums.halves) \in Nat
      /\ Written(sheet.sums.worked, old.sums.worked, new.sums.worked) \in Nat
  BY WrittenType DEF Sheet, Sums
<1> QED BY <1>1, <1>2, <1>3 DEF WriteBack, Sheet, Grids, Sums

\* So does a sheet whose days were edited.
LEMMA RegriddedType ==
  ASSUME NEW old \in Sheet, NEW grid \in Grids
  PROVE  Regridded(old, grid) \in Sheet /\ [old EXCEPT !.grid = grid] \in Sheet
BY RecomputeType DEF Regridded, Sheet

\* Leave laid over days gives days.
LEMMA OverlayType ==
  ASSUME NEW grid \in Grids, NEW ledger \in Ledger
  PROVE  Overlay(grid, ledger) \in Grids
BY TimesheetAssumption DEF Overlay, Grids, Ledger, DayStatuses, LeaveOverlay

LEMMA SeedType ==
  ASSUME NEW ledger \in Ledger
  PROVE  Seed(ledger) \in Grids
<1>1. [d \in Days |-> IF d \in OffDays THEN "WEEKLY_OFF" ELSE "PRESENT"] \in Grids
  BY DEF Grids, DayStatuses, NonWorking, SelfMarkable
<1> QED BY <1>1, OverlayType DEF Seed

-----------------------------------------------------------------------------
(***************************************************************************)
(* Types.                                                                  *)
(***************************************************************************)
LEMMA InitType == Init => TypeOK
BY IdleType DEF Init, TypeOK, Ledger

\* What is held changes for one worker.
LEMMA HoldType ==
  ASSUME TypeOK, NEW w \in Workers, NEW r \in Request, Hold(w, r)
  PROVE  req' \in [Workers -> Request]
BY DEF Hold, TypeOK

\* Loading the sheet.
LEMMA LoadType ==
  ASSUME TypeOK, NEW w \in Workers, NEW op \in Ops, NEW u \in Users \cup {NoUser}, Load(w, op, u)
  PROVE  TypeOK'
<1>1. [Idle EXCEPT !.op = op, !.at = "loaded", !.actor = u, !.old = sheet] \in Request
  BY IdleType DEF TypeOK, Request, Stages
<1>2. req' \in [Workers -> Request]
  BY <1>1, HoldType DEF Load
<1> QED BY <1>2 DEF Load, TypeOK, history

\* A commit that changes the sheet, and the history of its days.
LEMMA CommitType ==
  ASSUME TypeOK, NEW w \in Workers, NEW new \in Sheet, WriteBack(req[w].old, new), Finish(w),
         UNCHANGED <<exists, cycle, leave>>,
         submitter' \in Users \cup {NoUser}, manual' \in SUBSET Days,
         skewed' \in BOOLEAN, missed' \in BOOLEAN
  PROVE  TypeOK'
<1>1. req[w].old \in Sheet /\ sheet \in Sheet
  BY DEF TypeOK, Request
<1>2. sheet' \in Sheet
  BY <1>1, WriteBackType
<1>3. req' \in [Workers -> Request]
  BY IdleType, HoldType DEF Finish
<1> QED BY <1>2, <1>3 DEF TypeOK

\* Every step keeps the types.
LEMMA NextType == TypeOK /\ [Next]_vars => TypeOK'
<1> SUFFICES ASSUME TypeOK, [Next]_vars PROVE TypeOK'
  OBVIOUS
<1>0. \A w \in Workers : /\ req[w] \in Request /\ req[w].old \in Sheet
                         /\ req[w].actor \in Users \cup {NoUser}
                         /\ req[w].old.grid \in Grids /\ req[w].target \in Grids
  BY DEF TypeOK, Request, Sheet
<1>1. ASSUME NEW w \in Workers, LoadEdit(w) \/ LoadReview(w) \/ LoadApprove(w) PROVE TypeOK'
  BY <1>1, LoadType DEF LoadEdit, LoadReview, LoadApprove, Ops
<1>2. ASSUME NEW w \in Workers, LoadGenerate(w) PROVE TypeOK'
  <2>1. [Idle EXCEPT !.op = "generate", !.at = "loaded", !.target = Seed(leave)] \in Request
    BY IdleType, SeedType DEF TypeOK, Request, Ops, Stages
  <2> QED BY <1>2, <2>1, HoldType DEF LoadGenerate, TypeOK, history
<1>3. ASSUME NEW w \in Workers, DecideLeave(w) PROVE TypeOK'
  <2>1. [Idle EXCEPT !.op = "resync", !.at = "owed"] \in Request
    BY IdleType DEF Request, Ops, Stages
  <2>2. req' \in [Workers -> Request]
    BY <1>3, <2>1, HoldType DEF DecideLeave
  <2>3. leave' \in Ledger
    BY <1>3 DEF DecideLeave, TypeOK, Ledger
  <2> QED BY <1>3, <2>2, <2>3 DEF DecideLeave, TypeOK, history
<1>4. ASSUME NEW w \in Workers, CommitEdit(w) PROVE TypeOK'
  <2>1. PICK d \in Days, m \in Marks :
          /\ WriteBack(req[w].old, Regridded(req[w].old, [req[w].old.grid EXCEPT ![d] = m]))
          /\ manual' = manual \cup {d}
    BY <1>4 DEF CommitEdit
  <2>2. [req[w].old.grid EXCEPT ![d] = m] \in Grids
    BY <1>0, TimesheetAssumption DEF Grids
  <2> QED BY <1>0, <1>4, <2>1, <2>2, RegriddedType, CommitType DEF CommitEdit, TypeOK
<1>5. ASSUME NEW w \in Workers, CommitMark(w) PROVE TypeOK'
  <2>1. PICK d \in Elapsed, m \in SelfMarkable :
          \/ /\ WriteBack(req[w].old, Regridded(req[w].old, req[w].old.grid))
             /\ UNCHANGED manual
          \/ /\ WriteBack(req[w].old, Regridded(req[w].old, [req[w].old.grid EXCEPT ![d] = m]))
             /\ manual' = manual \cup {d}
    BY <1>5 DEF CommitMark
  <2>2. [req[w].old.grid EXCEPT ![d] = m] \in Grids /\ d \in Days
    BY <1>0, TimesheetAssumption DEF Grids, DayStatuses
  <2> QED BY <1>0, <1>5, <2>1, <2>2, RegriddedType, CommitType DEF CommitMark, TypeOK
<1>6. ASSUME NEW w \in Workers, CommitImport(w) PROVE TypeOK'
  <2>1. PICK d \in Days, m \in Imported, completed \in BOOLEAN :
          /\ WriteBack(req[w].old,
               IF completed THEN Regridded(req[w].old, [req[w].old.grid EXCEPT ![d] = m])
               ELSE [req[w].old EXCEPT !.grid = [req[w].old.grid EXCEPT ![d] = m]])
          /\ manual' = manual \cup {d} /\ skewed' = (skewed \/ ~completed)
    BY <1>6 DEF CommitImport
  <2>2. [req[w].old.grid EXCEPT ![d] = m] \in Grids
    BY <1>0 DEF Grids, Imported, DayStatuses, LeaveOverlay, LeaveLocked, SelfMarkable
  <2>3. skewed' \in BOOLEAN
    BY <2>1 DEF TypeOK
  <2> QED BY <1>0, <1>6, <2>1, <2>2, <2>3, RegriddedType, CommitType DEF CommitImport, TypeOK
<1>7. ASSUME NEW w \in Workers, CommitSubmit(w) \/ CommitApprove(w) \/ CommitReject(w)
      PROVE  TypeOK'
  <2>1. PICK new \in Sheet : WriteBack(req[w].old, new)
    BY <1>0, <1>7 DEF CommitSubmit, CommitApprove, CommitReject, Sheet, States, Editable
  <2> QED BY <1>0, <1>7, <2>1, CommitType
          DEF CommitSubmit, CommitApprove, CommitReject, TypeOK, history
<1>8. ASSUME NEW w \in Workers, CommitReopen(w) PROVE TypeOK'
  <2>1. [req[w].old EXCEPT !.state = "DRAFT"] \in Sheet
    BY <1>0 DEF Sheet, States, Editable
  <2>2. [req[w] EXCEPT !.at = "reopened"] \in Request
    BY <1>0 DEF Request, Stages
  <2> QED BY <1>0, <1>8, <2>1, <2>2, WriteBackType, HoldType DEF CommitReopen, TypeOK, history
<1>9. ASSUME NEW w \in Workers, Reload(w) PROVE TypeOK'
  <2>1. [req[w] EXCEPT !.at = "reloaded", !.old = sheet] \in Request
    BY <1>0 DEF TypeOK, Request, Stages
  <2> QED BY <1>9, <2>1, HoldType DEF Reload, TypeOK, history
<1>10. ASSUME NEW w \in Workers, ClearStamps(w) PROVE TypeOK'
  <2>1. [req[w].old EXCEPT !.maker = NoUser, !.checker = NoUser] \in Sheet
    BY <1>0 DEF Sheet
  <2> QED BY <1>10, <2>1, CommitType DEF ClearStamps, TypeOK, history
<1>11. ASSUME NEW w \in Workers, CommitGenerate(w) PROVE TypeOK'
  <2>1. sheet' \in Sheet
    BY <1>0, <1>11, IdleType, RegriddedType DEF CommitGenerate, TypeOK
  <2>2. req' \in [Workers -> Request]
    BY <1>11, IdleType, HoldType DEF CommitGenerate, Finish
  <2> QED BY <1>11, <2>1, <2>2 DEF CommitGenerate, TypeOK, history
<1>12. ASSUME NEW w \in Workers, LoadResync(w) PROVE TypeOK'
  <2>1. Overlay(sheet.grid, leave) \in Grids
    BY OverlayType DEF TypeOK, Sheet
  <2>2. [req[w] EXCEPT !.at = "loaded", !.old = sheet,
                       !.target = Overlay(sheet.grid, leave)] \in Request
    BY <1>0, <2>1 DEF TypeOK, Request, Stages
  <2> QED BY <1>12, <2>2, HoldType DEF LoadResync, TypeOK, history
<1>13. ASSUME NEW w \in Workers, CommitResync(w) PROVE TypeOK'
  <2>1. PICK new \in Sheet : WriteBack(req[w].old, new)
    BY <1>0, <1>13, RegriddedType DEF CommitResync
  <2>2. manual' \in SUBSET Days
    BY <1>13 DEF CommitResync, TypeOK
  <2> QED BY <1>13, <2>1, <2>2, CommitType DEF CommitResync, TypeOK
<1>14. ASSUME NEW w \in Workers, SkipResync(w) \/ Rollback(w) PROVE TypeOK'
  <2>1. req' \in [Workers -> Request]
    BY <1>14, IdleType, HoldType DEF SkipResync, Rollback, Finish
  <2>2. missed' \in BOOLEAN
    BY <1>14 DEF SkipResync, Rollback, TypeOK
  <2> QED BY <1>14, <2>1, <2>2 DEF SkipResync, Rollback, TypeOK
<1>15. CASE CloseCycle \/ UNCHANGED vars
  BY <1>15 DEF CloseCycle, vars, TypeOK, history
<1> QED BY <1>1, <1>2, <1>3, <1>4, <1>5, <1>6, <1>7, <1>8, <1>9, <1>10, <1>11, <1>12, <1>13,
           <1>14, <1>15 DEF Next, Start, Proceed

\* Whatever handlers overlap, sheet, entries and aggregates keep their types: no number of
\* days a payroll run reads is ever negative (recompute_aggregates).
THEOREM TimesheetTypeCorrect == Spec => []TypeOK
BY InitType, NextType, PTL DEF Spec

-----------------------------------------------------------------------------
(***************************************************************************)
(* HTTP requests served one at a time.  The inductive invariant says what  *)
(* the request in flight holds, and what days nobody marked look like even *)
(* while a resync is owed or was missed.                                   *)
(***************************************************************************)
Serial == \A v, w \in Workers : v = w

\* What a handler loaded, checked and computed still holds; a reopened sheet is a draft.
Current(w) ==
  LET r == req[w]
  IN  /\ r.at = "loaded" /\ r.op = "generate" => ~exists /\ r.target = Seed(leave)
      /\ r.at = "loaded" /\ r.op # "generate" =>
           /\ exists /\ r.old = sheet /\ sheet.state \in From(r.op)
           /\ r.op = "resync" => r.target = Overlay(sheet.grid, leave)
           /\ r.op \in {"submit", "approve"} => r.actor \in Users
           /\ r.op = "approve" /\ EnforceMakerChecker => sheet.maker # r.actor
      /\ r.at \in {"reopened", "reloaded"} => r.op = "reopen" /\ sheet.state = "DRAFT"
      /\ r.at = "reloaded" => r.old = sheet

InReview == sheet.state \in {"SUBMITTED", "APPROVED"}

\* The recorded submitter of a sheet in review is the one who submitted it.
MakerIsSubmitter == InReview => sheet.maker = submitter

\* A day nobody marked is one that leave may be laid over, or a day off.
Unmarked ==
  \A d \in Days \ manual :
    sheet.grid[d] \in LeaveOverlay \/ (d \in OffDays /\ sheet.grid[d] = "WEEKLY_OFF")

Follows ==
  \A d \in Days \ manual :
    \/ sheet.grid[d] = IF leave[d] # NoLeave THEN leave[d] ELSE "PRESENT"
    \/ d \in OffDays /\ sheet.grid[d] = "WEEKLY_OFF"

\* No request in flight has decided leave and not brought it to the sheet yet.
Settled == \A w \in Workers : req[w].at # "idle" => req[w].op # "resync"

FollowsOnceSettled == exists /\ ~missed /\ Settled => Follows

\* What the sheet says by itself.
SheetInv ==
  /\ ~exists => sheet.state = "DRAFT"
  /\ MakerIsSubmitter
  /\ MakerChecker
  /\ StaleOnlyByImport
  /\ Unmarked

SerialInv == TypeOK /\ SheetInv /\ FollowsOnceSettled /\ \A w \in Workers : Current(w)

\* A step that changes what one worker holds changes what every worker holds.
LEMMA HoldSerial ==
  ASSUME Serial, TypeOK, NEW w \in Workers, NEW r, Hold(w, r)
  PROVE  \A v \in Workers : v = w /\ req'[v] = r
BY DEF Serial, TypeOK, Hold

LEMMA FinishSerial ==
  ASSUME Serial, TypeOK, NEW w \in Workers, Finish(w)
  PROVE  (\A v \in Workers : v = w /\ req'[v].at = "idle" /\ Current(v)') /\ Settled'
<1>1. \A v \in Workers : v = w /\ req'[v] = Idle
  BY HoldSerial DEF Finish
<1>2. Idle.at = "idle"
  BY DEF Idle
<1> QED BY <1>1, <1>2 DEF Current, Settled

\* Written over the sheet it was computed from, a sheet is stored as it is.
LEMMA WriteBackCurrent ==
  ASSUME sheet \in Sheet, NEW new \in Sheet, WriteBack(sheet, new)
  PROVE  sheet' = new
<1>1. sheet' = [state   |-> new.state,
                grid    |-> [d \in Days |-> new.grid[d]],
                sums    |-> [lop |-> new.sums.lop, halves |-> new.sums.halves,
                             worked |-> new.sums.worked],
                maker   |-> new.maker,
                checker |-> new.checker]
  BY DEF WriteBack, Written
<1>2. new.grid = [d \in Days |-> new.grid[d]]
  BY DEF Sheet, Grids
<1>3. new.sums = [lop |-> new.sums.lop, halves |-> new.sums.halves, worked |-> new.sums.worked]
  BY DEF Sheet, Sums
<1> QED BY <1>1, <1>2, <1>3 DEF Sheet

\* Steps that leave the sheet, its history and the leave alone.
LEMMA QuietSheet ==
  ASSUME SheetInv, UNCHANGED <<exists, sheet, submitter, manual, skewed>>
  PROVE  SheetInv'
BY DEF SheetInv, MakerIsSubmitter, InReview, MakerChecker, StaleOnlyByImport, Unmarked

\* Loading a sheet, past the guards of the handler.
LEMMA LoadSerial ==
  ASSUME Serial, SerialInv, NEW w \in Workers, NEW op \in Ops \ {"generate", "resync"},
         NEW u \in Users \cup {NoUser}, Load(w, op, u),
         op \in {"submit", "approve"} => u \in Users,
         op = "approve" => ~(EnforceMakerChecker /\ sheet.maker = u)
  PROVE  SheetInv' /\ FollowsOnceSettled' /\ \A v \in Workers : Current(v)'
<1> DEFINE r == [Idle EXCEPT !.op = op, !.at = "loaded", !.actor = u, !.old = sheet]
<1>1. r.op = op /\ r.at = "loaded" /\ r.actor = u /\ r.old = sheet
  BY DEF Idle
<1>2. /\ Hold(w, r) /\ UNCHANGED <<exists, sheet, leave, submitter, manual, skewed, missed>>
      /\ exists /\ sheet.state \in From(op) /\ req[w].at = "idle"
  BY DEF Load, history
<1> HIDE DEF r
<1>3. \A v \in Workers : v = w /\ req'[v] = r
  BY <1>2, HoldSerial DEF SerialInv
<1>4. Settled
  BY <1>2, <1>3 DEF Settled
<1>5. FollowsOnceSettled'
  BY <1>2, <1>4 DEF SerialInv, FollowsOnceSettled, Follows
<1>6. \A v \in Workers : Current(v)'
  BY <1>1, <1>2, <1>3 DEF Current, From
<1> QED BY <1>2, <1>5, <1>6, QuietSheet DEF SerialInv

\* A commit that changes days of a sheet that is not in review: they are marked, or
\* laid over with leave.
LEMMA RegridSerial ==
  ASSUME Serial, SerialInv, NEW w \in Workers, req[w].at = "loaded", Finish(w),
         req[w].op \in {"edit", "mark", "import", "resync"},
         NEW grid \in Grids, NEW new,
         \/ new = Regridded(sheet, grid)
         \/ new = [sheet EXCEPT !.grid = grid] /\ (skewed' \/ grid = sheet.grid),
         WriteBack(req[w].old, new), UNCHANGED <<exists, leave, submitter>>,
         skewed => skewed',
         \A d \in Days \ manual' :
           grid[d] \in LeaveOverlay \/ (d \in OffDays /\ grid[d] = "WEEKLY_OFF")
  PROVE  /\ SheetInv' /\ sheet' = new /\ ~InReview
         /\ \A v \in Workers : Current(v)'
<1>1. /\ req[w].old = sheet /\ sheet.state \in Editable /\ sheet \in Sheet /\ exists
  BY DEF SerialInv, Current, From, TypeOK
<1>2. new \in Sheet
  <2>1. Regridded(sheet, grid) \in Sheet /\ [sheet EXCEPT !.grid = grid] \in Sheet
    BY <1>1, RegriddedType
  <2> QED BY <2>1
<1>3. sheet' = new
  BY <1>1, <1>2, WriteBackCurrent
<1>4. new.state = sheet.state /\ new.grid = grid
  BY <1>1 DEF Regridded, Sheet
<1>5. StaleOnlyByImport'
  <2>1. CASE new = Regridded(sheet, grid)
    BY <1>1, <1>3, <1>4, <2>1 DEF StaleOnlyByImport, Regridded, Sheet, Recompute
  <2>2. CASE new = [sheet EXCEPT !.grid = grid] /\ (skewed' \/ grid = sheet.grid)
    <3>1. new.sums = sheet.sums
      BY <1>1, <2>2 DEF Sheet
    <3> QED BY <1>3, <1>4, <2>2, <3>1 DEF SerialInv, SheetInv, StaleOnlyByImport, Recompute
  <2> QED BY <2>1, <2>2
<1>6. Unmarked'
  BY <1>3, <1>4 DEF Unmarked
<1>7. ~InReview /\ ~InReview'
  BY <1>1, <1>3, <1>4 DEF InReview, Editable
<1> QED BY <1>1, <1>3, <1>5, <1>6, <1>7, FinishSerial
        DEF SerialInv, SheetInv, MakerIsSubmitter, MakerChecker, InReview

\* Marked by hand or by an import, a day leaves the others as they were.
LEMMA MarkSerial ==
  ASSUME Serial, SerialInv, NEW w \in Workers, req[w].at = "loaded", Finish(w),
         req[w].op \in {"edit", "mark", "import"},
         NEW grid \in Grids, NEW new,
         \/ new = Regridded(sheet, grid)
         \/ new = [sheet EXCEPT !.grid = grid] /\ skewed',
         WriteBack(req[w].old, new), UNCHANGED <<exists, leave, submitter, missed>>,
         skewed => skewed', manual \subseteq manual',
         \A d \in Days \ manual' : grid[d] = sheet.grid[d]
  PROVE  /\ SheetInv' /\ FollowsOnceSettled' /\ ~InReview
         /\ \A v \in Workers : Current(v)'
<1>1. \A d \in Days \ manual' :
        grid[d] \in LeaveOverlay \/ (d \in OffDays /\ grid[d] = "WEEKLY_OFF")
  BY DEF SerialInv, SheetInv, Unmarked
<1>2. SheetInv' /\ sheet' = new /\ ~InReview /\ \A v \in Workers : Current(v)'
  BY <1>1, RegridSerial
<1>3. new.grid = grid
  BY DEF Regridded, SerialInv, TypeOK, Sheet
<1>4. Settled
  BY DEF Settled, Serial
<1>5. FollowsOnceSettled'
  BY <1>2, <1>3, <1>4 DEF SerialInv, FollowsOnceSettled, Follows
<1> QED BY <1>2, <1>5

\* Leave laid over the days of a draft.
LEMMA ResyncSerial ==
  ASSUME Serial, SerialInv, NEW w \in Workers, CommitResync(w)
  PROVE  /\ SheetInv' /\ FollowsOnceSettled' /\ ~InReview
         /\ \A v \in Workers : Current(v)'
<1> DEFINE grid == req[w].target
           new  == IF grid = sheet.grid THEN sheet ELSE Regridded(sheet, grid)
<1>1. /\ req[w].old = sheet /\ sheet \in Sheet /\ grid \in Grids /\ exists
      /\ req[w].target = Overlay(sheet.grid, leave) /\ req[w].at = "loaded"
      /\ req[w].op = "resync" /\ Finish(w)
      /\ WriteBack(sheet, new) /\ manual' = {d \in manual : grid[d] = sheet.grid[d]}
      /\ UNCHANGED <<exists, leave, submitter, skewed>>
  BY DEF CommitResync, Committing, SerialInv, Current, TypeOK, Request
<1>2. \A d \in Days : grid[d] = IF sheet.grid[d] \notin LeaveOverlay THEN sheet.grid[d]
                                ELSE IF leave[d] # NoLeave THEN leave[d] ELSE "PRESENT"
  BY <1>1 DEF Overlay
<1>3. \A d \in Days : leave[d] # NoLeave => leave[d] \in LeaveOverlay
  BY TimesheetAssumption DEF SerialInv, TypeOK, Ledger, LeaveOverlay
<1>4. \A d \in Days \ manual' :
        \/ grid[d] = IF leave[d] # NoLeave THEN leave[d] ELSE "PRESENT"
        \/ d \in OffDays /\ grid[d] = "WEEKLY_OFF"
  <2> SUFFICES ASSUME NEW d \in Days, d \notin manual',
                      grid[d] # IF leave[d] # NoLeave THEN leave[d] ELSE "PRESENT"
               PROVE  d \in OffDays /\ grid[d] = "WEEKLY_OFF"
    OBVIOUS
  <2>1. sheet.grid[d] \notin LeaveOverlay /\ grid[d] = sheet.grid[d]
    BY <1>2
  <2>2. d \notin manual
    BY <1>1, <2>1
  <2> QED BY <2>1, <2>2 DEF SerialInv, SheetInv, Unmarked
<1>5. \A d \in Days \ manual' :
        grid[d] \in LeaveOverlay \/ (d \in OffDays /\ grid[d] = "WEEKLY_OFF")
  BY <1>3, <1>4 DEF LeaveOverlay
<1>6. \/ new = Regridded(sheet, grid)
      \/ new = [sheet EXCEPT !.grid = grid] /\ (skewed' \/ grid = sheet.grid)
  <2>1. CASE grid = sheet.grid
    BY <1>1, <2>1 DEF Sheet
  <2>2. CASE grid # sheet.grid
    BY <2>2
  <2> QED BY <2>1, <2>2
<1>7. new.grid = grid
  BY <1>1 DEF Regridded, Sheet
<1> HIDE DEF new, grid
<1>8. SheetInv' /\ sheet' = new /\ ~InReview /\ \A v \in Workers : Current(v)'
  BY <1>1, <1>5, <1>6, RegridSerial
<1>9. Follows'
  BY <1>1, <1>4, <1>7, <1>8 DEF Follows
<1> QED BY <1>8, <1>9 DEF FollowsOnceSettled

\* A commit that leaves the days alone: a transition, or the second half of a reopening.
LEMMA TransitionSerial ==
  ASSUME Serial, SerialInv, NEW w \in Workers, exists, req[w].old = sheet,
         req[w].at # "idle", req[w].op # "resync",
         NEW new \in Sheet, WriteBack(req[w].old, new),
         new.grid = sheet.grid, new.sums = sheet.sums,
         UNCHANGED <<exists, leave, manual, skewed, missed>>,
         new.state \in {"SUBMITTED", "APPROVED"} => new.maker = submitter',
         EnforceMakerChecker /\ new.state = "APPROVED" =>
           new.checker \in Users /\ new.checker # submitter'
  PROVE  sheet' = new /\ SheetInv' /\ (Settled' => FollowsOnceSettled')
<1>1. sheet' = new
  BY WriteBackCurrent DEF SerialInv, TypeOK
<1>2. Settled
  BY DEF Serial, Settled
<1>3. SheetInv'
  BY <1>1 DEF SerialInv, SheetInv, MakerIsSubmitter, InReview, MakerChecker,
              StaleOnlyByImport, Unmarked, Recompute
<1>4. Settled' => FollowsOnceSettled'
  BY <1>1, <1>2 DEF SerialInv, FollowsOnceSettled, Follows
<1> QED BY <1>1, <1>3, <1>4

\* A generated sheet shows the calendar and the leave.
LEMMA GenerateSerial ==
  ASSUME Serial, SerialInv, NEW w \in Workers, CommitGenerate(w)
  PROVE  /\ SheetInv' /\ FollowsOnceSettled' /\ ~InReview
         /\ \A v \in Workers : Current(v)'
<1> DEFINE new == Regridded(BlankSheet, Seed(leave))
<1>1. ~exists /\ req[w].target = Seed(leave) /\ Finish(w) /\ sheet.state = "DRAFT"
  BY DEF CommitGenerate, Committing, SerialInv, SheetInv, Current
<1>2. sheet' = new /\ exists' /\ UNCHANGED <<leave, submitter, manual, skewed>>
  BY <1>1 DEF CommitGenerate, history
<1>3. /\ new.state = "DRAFT" /\ new.grid = Seed(leave) /\ new.sums = Recompute(Seed(leave))
  BY DEF Regridded, BlankSheet
<1>4. \A d \in Days :
        \/ Seed(leave)[d] = IF leave[d] # NoLeave THEN leave[d] ELSE "PRESENT"
        \/ d \in OffDays /\ Seed(leave)[d] = "WEEKLY_OFF"
  BY DEF Seed, Overlay, LeaveOverlay, LeaveLocked
<1>5. \A d \in Days : leave[d] # NoLeave => leave[d] \in LeaveOverlay
  BY TimesheetAssumption DEF SerialInv, TypeOK, Ledger, LeaveOverlay
<1> HIDE DEF new
<1>6. Follows' /\ Unmarked'
  BY <1>2, <1>3, <1>4, <1>5 DEF Follows, Unmarked, LeaveOverlay
<1>7. StaleOnlyByImport'
  BY <1>2, <1>3 DEF StaleOnlyByImport, Recompute
<1>8. SheetInv'
  BY <1>2, <1>3, <1>6, <1>7 DEF SheetInv, MakerIsSubmitter, InReview, MakerChecker
<1> QED BY <1>1, <1>6, <1>8, FinishSerial DEF SerialInv, InReview, FollowsOnceSettled

LEMMA InitSerial == Init => SerialInv
<1> SUFFICES ASSUME Init PROVE SerialInv
  OBVIOUS
<1>1. \A w \in Workers : req[w].at = "idle"
  BY DEF Init, Idle
<1>2. SheetInv
  BY DEF Init, SheetInv, MakerIsSubmitter, InReview, MakerChecker, StaleOnlyByImport,
         Unmarked, BlankSheet, BlankGrid, LeaveOverlay
<1>3. FollowsOnceSettled
  BY DEF Init, FollowsOnceSettled
<1> QED BY <1>1, <1>2, <1>3, InitType DEF SerialInv, Current

Frozen == InReview => UNCHANGED <<sheet.grid, sheet.sums>>

\* Every step keeps the invariant, and the days of a sheet in review.
LEMMA NextSerial == Serial /\ SerialInv /\ [Next]_vars => SerialInv' /\ Frozen
<1> DEFINE Kept == SheetInv' /\ FollowsOnceSettled' /\ (\A v \in Workers : Current(v)') /\ Frozen
<1> SUFFICES ASSUME Serial, SerialInv, [Next]_vars PROVE Kept
  BY NextType DEF SerialInv
<1>0. /\ TypeOK /\ sheet \in Sheet /\ sheet.grid \in Grids
      /\ \A w \in Workers : req[w] \in Request /\ Current(w)
  BY DEF SerialInv, TypeOK, Sheet
<1>1. ASSUME NEW w \in Workers, LoadEdit(w) \/ LoadReview(w) \/ LoadApprove(w) PROVE Kept
  <2>1. PICK op \in Ops \ {"generate", "resync"}, u \in Users \cup {NoUser} :
          /\ Load(w, op, u)
          /\ op \in {"submit", "approve"} => u \in Users
          /\ op = "approve" => ~(EnforceMakerChecker /\ sheet.maker = u)
    BY <1>1 DEF LoadEdit, LoadReview, LoadApprove, Ops
  <2> QED BY <2>1, LoadSerial DEF Load, Frozen
<1>2. ASSUME NEW w \in Workers, LoadGenerate(w) PROVE Kept
  <2> DEFINE r == [Idle EXCEPT !.op = "generate", !.at = "loaded", !.target = Seed(leave)]
  <2>1. r.op = "generate" /\ r.at = "loaded" /\ r.target = Seed(leave)
    BY DEF Idle
  <2>2. Hold(w, r) /\ ~exists /\ UNCHANGED <<exists, sheet, leave, submitter, manual, skewed>>
    BY <1>2 DEF LoadGenerate, history
  <2> HIDE DEF r
  <2>3. \A v \in Workers : req'[v] = r
    BY <1>0, <2>2, HoldSerial
  <2>4. Seed(leave)' = Seed(leave)
    BY <2>2 DEF Seed, Overlay
  <2>5. \A v \in Workers : Current(v)'
    BY <2>1, <2>2, <2>3, <2>4 DEF Current
  <2> QED BY <2>2, <2>5, QuietSheet DEF SerialInv, FollowsOnceSettled, Frozen
<1>3. ASSUME NEW w \in Workers, DecideLeave(w) PROVE Kept
  <2> DEFINE r == [Idle EXCEPT !.op = "resync", !.at = "owed"]
  <2>1. r.op = "resync" /\ r.at = "owed"
    BY DEF Idle
  <2>2. Hold(w, r) /\ UNCHANGED <<exists, sheet, submitter, manual, skewed>>
    BY <1>3 DEF DecideLeave, history
  <2> HIDE DEF r
  <2>3. \A v \in Workers : req'[v] = r
    BY <1>0, <2>2, HoldSerial
  <2>4. \A v \in Workers : Current(v)'
    BY <2>1, <2>3 DEF Current
  <2>5. ~Settled'
    BY <2>1, <2>3 DEF Settled
  <2> QED BY <2>2, <2>4, <2>5, QuietSheet DEF SerialInv, FollowsOnceSettled, Frozen
<1>4. ASSUME NEW w \in Workers, CommitEdit(w) PROVE Kept
  <2>1. req[w].op = "edit" /\ req[w].at = "loaded" /\ req[w].old = sheet /\ Finish(w)
    BY <1>0, <1>4 DEF CommitEdit, Committing, Current
  <2>2. PICK d \in Days, m \in Marks :
          /\ WriteBack(req[w].old, Regridded(sheet, [sheet.grid EXCEPT ![d] = m]))
          /\ manual' = manual \cup {d}
    BY <1>4, <2>1 DEF CommitEdit
  <2>3. [sheet.grid EXCEPT ![d] = m] \in Grids
    BY <1>0, TimesheetAssumption DEF Grids
  <2>4. \A x \in Days \ manual' : [sheet.grid EXCEPT ![d] = m][x] = sheet.grid[x]
    BY <1>0, <2>2 DEF Grids
  <2> QED BY <1>4, <2>1, <2>2, <2>3, <2>4, MarkSerial DEF CommitEdit, Frozen
<1>5. ASSUME NEW w \in Workers, CommitMark(w) PROVE Kept
  <2>1. req[w].op = "mark" /\ req[w].at = "loaded" /\ req[w].old = sheet /\ Finish(w)
    BY <1>0, <1>5 DEF CommitMark, Committing, Current
  <2>2. PICK d \in Elapsed, m \in SelfMarkable :
          \/ /\ WriteBack(req[w].old, Regridded(sheet, sheet.grid))
             /\ UNCHANGED manual
          \/ /\ WriteBack(req[w].old, Regridded(sheet, [sheet.grid EXCEPT ![d] = m]))
             /\ manual' = manual \cup {d}
    BY <1>5, <2>1 DEF CommitMark
  <2>3. [sheet.grid EXCEPT ![d] = m] \in Grids
    BY <1>0 DEF Grids, DayStatuses
  <2>4. manual' = manual \cup {d} =>
          \A x \in Days \ manual' : [sheet.grid EXCEPT ![d] = m][x] = sheet.grid[x]
    BY <1>0 DEF Grids
  <2> QED BY <1>0, <1>5, <2>1, <2>2, <2>3, <2>4, MarkSerial DEF CommitMark, Frozen
<1>6. ASSUME NEW w \in Workers, CommitImport(w) PROVE Kept
  <2>1. req[w].op = "import" /\ req[w].at = "loaded" /\ req[w].old = sheet /\ Finish(w)
    BY <1>0, <1>6 DEF CommitImport, Committing, Current
  <2>2. PICK d \in Days, m \in Imported, completed \in BOOLEAN :
          /\ WriteBack(req[w].old,
               IF completed THEN Regridded(sheet, [sheet.grid EXCEPT ![d] = m])
               ELSE [sheet EXCEPT !.grid = [sheet.grid EXCEPT ![d] = m]])
          /\ manual' = manual \cup {d} /\ skewed' = (skewed \/ ~completed)
    BY <1>6, <2>1 DEF CommitImport
  <2>3. [sheet.grid EXCEPT ![d] = m] \in Grids
    BY <1>0 DEF Grids, Imported, DayStatuses, LeaveOverlay, LeaveLocked, SelfMarkable
  <2>4. \A x \in Days \ manual' : [sheet.grid EXCEPT ![d] = m][x] = sheet.grid[x]
    BY <1>0, <2>2 DEF Grids
  <2> QED BY <1>6, <2>1, <2>2, <2>3, <2>4, MarkSerial DEF CommitImport, Frozen
<1>7. ASSUME NEW w \in Workers, CommitSubmit(w) \/ CommitApprove(w) \/ CommitReject(w)
      PROVE  Kept
  <2>1. /\ req[w].at = "loaded" /\ req[w].op \in {"submit", "approve", "reject"}
        /\ req[w].old = sheet /\ Finish(w) /\ exists /\ sheet.state \in From(req[w].op)
        /\ req[w].op \in {"submit", "approve"} => req[w].actor \in Users
        /\ req[w].op = "approve" /\ EnforceMakerChecker => sheet.maker # req[w].actor
    BY <1>0, <1>7 DEF CommitSubmit, CommitApprove, CommitReject, Committing, Current
  <2>2. PICK new \in Sheet :
          /\ WriteBack(sheet, new)
          /\ new.grid = sheet.grid /\ new.sums = sheet.sums
          /\ new.state \in {"SUBMITTED", "APPROVED"} => new.maker = submitter'
          /\ EnforceMakerChecker /\ new.state = "APPROVED" =>
               new.checker \in Users /\ new.checker # submitter'
    <3>1. CASE CommitSubmit(w)
      <4> DEFINE new == [sheet EXCEPT !.state = "SUBMITTED", !.maker = req[w].actor]
      <4>1. new \in Sheet
        BY <1>0, <2>1, <3>1 DEF CommitSubmit, Committing, Sheet, States
      <4>2. WriteBack(sheet, new) /\ submitter' = req[w].actor
        BY <2>1, <3>1 DEF CommitSubmit
      <4>3. /\ new.grid = sheet.grid /\ new.sums = sheet.sums /\ new.state = "SUBMITTED"
            /\ new.maker = req[w].actor
        BY <1>0 DEF Sheet
      <4> QED BY <4>1, <4>2, <4>3
    <3>2. CASE CommitApprove(w)
      <4> DEFINE new == [sheet EXCEPT !.state = "APPROVED", !.checker = req[w].actor]
      <4>1. req[w].actor \in Users /\ (EnforceMakerChecker => sheet.maker # req[w].actor)
        BY <2>1, <3>2 DEF CommitApprove, Committing
      <4>2. new \in Sheet
        BY <1>0, <4>1 DEF Sheet, States
      <4>3. WriteBack(sheet, new) /\ submitter' = submitter
        BY <2>1, <3>2 DEF CommitApprove, history
      <4>4. /\ new.grid = sheet.grid /\ new.sums = sheet.sums
            /\ new.maker = sheet.maker /\ new.checker = req[w].actor
        BY <1>0 DEF Sheet
      <4>5. sheet.maker = submitter
        BY <2>1, <3>2 DEF CommitApprove, Committing, From, SerialInv, SheetInv,
                          MakerIsSubmitter, InReview
      <4> QED BY <4>1, <4>2, <4>3, <4>4, <4>5
    <3>3. CASE CommitReject(w)
      <4> DEFINE new == [sheet EXCEPT !.state = "REJECTED"]
      <4>1. new \in Sheet
        BY <1>0 DEF Sheet, States, Editable
      <4>2. WriteBack(sheet, new)
        BY <2>1, <3>3 DEF CommitReject
      <4>3. new.grid = sheet.grid /\ new.sums = sheet.sums /\ new.state = "REJECTED"
        BY <1>0 DEF Sheet
      <4> QED BY <4>1, <4>2, <4>3
    <3> QED BY <1>7, <3>1, <3>2, <3>3
  <2>3. UNCHANGED <<exists, leave, manual, skewed, missed>>
    BY <1>7 DEF CommitSubmit, CommitApprove, CommitReject, history
  <2>4. sheet' = new /\ SheetInv' /\ (Settled' => FollowsOnceSettled')
    BY <2>1, <2>2, <2>3, TransitionSerial
  <2> QED BY <1>0, <2>1, <2>2, <2>4, FinishSerial DEF Frozen
<1>8. ASSUME NEW w \in Workers, CommitReopen(w) PROVE Kept
  <2> DEFINE new == [sheet EXCEPT !.state = "DRAFT"]
             r   == [req[w] EXCEPT !.at = "reopened"]
  <2>1. /\ req[w].op = "reopen" /\ req[w].at = "loaded" /\ req[w].old = sheet /\ exists
        /\ WriteBack(sheet, new) /\ Hold(w, r)
        /\ UNCHANGED <<exists, leave, submitter, manual, skewed, missed>>
    BY <1>0, <1>8 DEF CommitReopen, Committing, Current, history
  <2>2. new \in Sheet
    BY <1>0 DEF Sheet, States, Editable
  <2>3. new.grid = sheet.grid /\ new.sums = sheet.sums /\ new.state = "DRAFT"
    BY <1>0 DEF Sheet
  <2>4. r.op = "reopen" /\ r.at = "reopened"
    BY <1>0, <2>1 DEF Request
  <2> HIDE DEF new, r
  <2>5. sheet' = new /\ SheetInv' /\ (Settled' => FollowsOnceSettled')
    BY <2>1, <2>2, <2>3, TransitionSerial
  <2>6. \A v \in Workers : req'[v] = r
    BY <1>0, <2>1, HoldSerial
  <2>7. Settled' /\ \A v \in Workers : Current(v)'
    BY <2>3, <2>4, <2>5, <2>6 DEF Settled, Current
  <2> QED BY <2>3, <2>5, <2>7 DEF Frozen
<1>9. ASSUME NEW w \in Workers, Reload(w) PROVE Kept
  <2> DEFINE r == [req[w] EXCEPT !.at = "reloaded", !.old = sheet]
  <2>1. /\ req[w].op = "reopen" /\ req[w].at = "reopened" /\ sheet.state = "DRAFT"
        /\ Hold(w, r)
        /\ UNCHANGED <<exists, sheet, leave, submitter, manual, skewed, missed>>
    BY <1>0, <1>9 DEF Reload, Current, history
  <2>2. r.op = "reopen" /\ r.at = "reloaded" /\ r.old = sheet
    BY <1>0, <2>1 DEF Request
  <2> HIDE DEF r
  <2>3. \A v \in Workers : v = w /\ req'[v] = r
    BY <1>0, <2>1, HoldSerial
  <2>4. Settled /\ \A v \in Workers : Current(v)'
    BY <2>1, <2>2, <2>3 DEF Settled, Current
  <2>5. FollowsOnceSettled'
    BY <2>1, <2>4 DEF SerialInv, FollowsOnceSettled, Follows
  <2> QED BY <2>1, <2>4, <2>5, QuietSheet DEF SerialInv, Frozen
<1>10. ASSUME NEW w \in Workers, ClearStamps(w) PROVE Kept
  <2> DEFINE new == [sheet EXCEPT !.maker = NoUser, !.checker = NoUser]
  <2>1. /\ req[w].op = "reopen" /\ req[w].at = "reloaded" /\ sheet.state = "DRAFT"
        /\ req[w].old = sheet /\ Finish(w) /\ WriteBack(sheet, new)
        /\ UNCHANGED <<exists, leave, submitter, manual, skewed, missed>>
    BY <1>0, <1>10 DEF ClearStamps, Current, history
  <2>2. new \in Sheet
    BY <1>0 DEF Sheet
  <2>3. new.grid = sheet.grid /\ new.sums = sheet.sums /\ new.state = "DRAFT"
    BY <1>0, <2>1 DEF Sheet
  <2> HIDE DEF new
  <2>4. CASE exists
    <3>1. sheet' = new /\ SheetInv' /\ (Settled' => FollowsOnceSettled')
      BY <2>1, <2>2, <2>3, <2>4, TransitionSerial
    <3> QED BY <1>0, <2>1, <2>3, <3>1, FinishSerial DEF Frozen
  <2>5. CASE ~exists
    <3>1. sheet' = new
      BY <1>0, <2>1, <2>2, WriteBackCurrent
    <3>2. SheetInv'
      BY <2>1, <2>3, <3>1 DEF SerialInv, SheetInv, MakerIsSubmitter, InReview, MakerChecker,
                              StaleOnlyByImport, Unmarked, Recompute
    <3>3. FollowsOnceSettled'
      BY <2>1, <2>5 DEF FollowsOnceSettled
    <3> QED BY <1>0, <2>1, <2>3, <3>1, <3>2, <3>3, FinishSerial DEF Frozen
  <2> QED BY <2>4, <2>5
<1>11. ASSUME NEW w \in Workers, CommitGenerate(w) PROVE Kept
  BY <1>11, GenerateSerial DEF Frozen
<1>12. ASSUME NEW w \in Workers, LoadResync(w) PROVE Kept
  <2> DEFINE r == [req[w] EXCEPT !.at = "loaded", !.old = sheet,
                                 !.target = Overlay(sheet.grid, leave)]
  <2>1. /\ req[w].op = "resync" /\ exists /\ sheet.state \in From("resync") /\ Hold(w, r)
        /\ UNCHANGED <<exists, sheet, leave, submitter, manual, skewed>>
    BY <1>12 DEF LoadResync, history
  <2>2. /\ r.op = "resync" /\ r.at = "loaded" /\ r.old = sheet
        /\ r.target = Overlay(sheet.grid, leave)
    BY <1>0, <2>1 DEF Request
  <2> HIDE DEF r
  <2>3. \A v \in Workers : req'[v] = r
    BY <1>0, <2>1, HoldSerial
  <2>4. Overlay(sheet.grid, leave)' = Overlay(sheet.grid, leave)
    BY <2>1 DEF Overlay
  <2>5. \A v \in Workers : Current(v)'
    BY <2>1, <2>2, <2>3, <2>4 DEF Current, From
  <2>6. ~Settled'
    BY <2>2, <2>3 DEF Settled
  <2> QED BY <2>1, <2>5, <2>6, QuietSheet DEF SerialInv, FollowsOnceSettled, Frozen
<1>13. ASSUME NEW w \in Workers, CommitResync(w) PROVE Kept
  BY <1>13, ResyncSerial DEF Frozen
<1>14. ASSUME NEW w \in Workers, SkipResync(w) \/ Rollback(w) PROVE Kept
  <2>1. /\ Finish(w) /\ UNCHANGED <<exists, sheet, leave, submitter, manual, skewed>>
        /\ missed => missed'
        /\ req[w].op = "resync" => (exists => missed')
    BY <1>14 DEF SkipResync, Rollback
  <2>2. FollowsOnceSettled'
    <3>1. CASE req[w].op = "resync"
      BY <2>1, <3>1 DEF FollowsOnceSettled
    <3>2. CASE req[w].op # "resync"
      <4>1. Settled
        BY <3>2 DEF Serial, Settled
      <4> QED BY <2>1, <4>1 DEF SerialInv, FollowsOnceSettled, Follows
    <3> QED BY <3>1, <3>2
  <2> QED BY <1>0, <2>1, <2>2, QuietSheet, FinishSerial DEF SerialInv, Frozen
<1>15. CASE CloseCycle \/ UNCHANGED vars
  <2>1. UNCHANGED <<exists, sheet, leave, req, submitter, manual, skewed, missed>>
    BY <1>15 DEF CloseCycle, vars, history
  <2>2. FollowsOnceSettled'
    BY <2>1 DEF SerialInv, FollowsOnceSettled, Settled, Follows
  <2>3. \A v \in Workers : Current(v)'
    BY <1>0, <2>1 DEF Current, From, Seed, Overlay
  <2> QED BY <2>1, <2>2, <2>3, QuietSheet DEF SerialInv, Frozen
<1> QED BY <1>1, <1>2, <1>3, <1>4, <1>5, <1>6, <1>7, <1>8, <1>9, <1>10, <1>11, <1>12, <1>13,
           <1>14, <1>15 DEF Next, Start, Proceed

LEMMA SerialInvariance == Serial => (Spec => []SerialInv)
<1> SUFFICES ASSUME Serial PROVE Spec => []SerialInv
  OBVIOUS
<1>1. SerialInv /\ [Next]_vars => SerialInv'
  BY NextSerial
<1> QED BY <1>1, InitSerial, PTL DEF Spec

\* Served one at a time, an APPROVED sheet was approved by somebody other than the user
\* whose submission it is, whatever was rejected, reopened and died in between (_transition).
THEOREM SerialMakerChecker == Serial => (Spec => []MakerChecker)
<1>1. SerialInv => MakerChecker
  BY DEF SerialInv, SheetInv
<1> QED BY <1>1, SerialInvariance, PTL

\* Served one at a time, the aggregates a run reads are those of the entries, unless an
\* import stored a row it had abandoned (import_attendance).
THEOREM SerialAggregates == Serial => (Spec => []StaleOnlyByImport)
<1>1. SerialInv => StaleOnlyByImport
  BY DEF SerialInv, SheetInv
<1> QED BY <1>1, SerialInvariance, PTL

\* Served one at a time, the days nobody marked show the leave ledger, unless the resync of
\* a decided leave was skipped or lost (resync_leave_for_employee_period).
THEOREM SerialGridFollowsLeave == Serial => (Spec => []GridFollowsLeave)
<1>1. SerialInv => GridFollowsLeave
  BY DEF SerialInv, FollowsOnceSettled, Settled, Follows, GridFollowsLeave
<1> QED BY <1>1, SerialInvariance, PTL

\* Served one at a time, nothing changes the days or the loss of pay of a sheet in review
\* (_EDITABLE_STATES).
THEOREM SerialReviewedIsFrozen == Serial => (Spec => ReviewedIsFrozen)
<1> SUFFICES ASSUME Serial PROVE Spec => ReviewedIsFrozen
  OBVIOUS
<1>1. SerialInv /\ [Next]_vars =>
        [sheet.state \in {"SUBMITTED", "APPROVED"} => UNCHANGED <<sheet.grid, sheet.sums>>]_vars
  BY NextSerial DEF Frozen, InReview
<1> QED BY <1>1, SerialInvariance, PTL DEF Spec, ReviewedIsFrozen
=============================================================================
