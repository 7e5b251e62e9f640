----------------------- MODULE SalaryStructures_proofs -----------------------
(***************************************************************************)
(* An employee never has two active structures, keeps the one a batch of   *)
(* templates replaces, and no request fails on the index unless another    *)
(* one overlapped it: for any employees, rows, batches and number of       *)
(* requests.                                                               *)
(*                                                                         *)
(* OneActive is not inductive: while a template is applied, the structure  *)
(* it replaces is still active for everybody else and the new one is       *)
(* already in the table.  The invariant says that this is the only way to  *)
(* have two: one row is committed and turned off by a transaction in       *)
(* flight, the other was inserted by the same transaction.                 *)
(***************************************************************************)
EXTENDS SalaryStructures, TLAPS

\* The row counts for the partial unique index.
Counts(r) == owner[r] # NoEmployee /\ active[r] /\ live[r]

Applying(v) == req[v].op = "apply" /\ req[v].at # "idle"

\* Only a template being applied has uncommitted rows, or has turned rows off.
Uncommitted ==
  \A v \in Workers : \A r \in Rows :
    /\ r \in req[v].off => Applying(v) /\ writer[r] = NoWorker /\ owner[r] # NoEmployee
    /\ writer[r] = v => Applying(v)

\* Transaction v replaces row r by row s.
Replaces(v, r, s) == r \in req[v].off /\ writer[s] = v

Exclusive ==
  \A r, s \in Rows :
    r # s /\ owner[r] = owner[s] /\ Counts(r) /\ Counts(s) =>
      \E v \in Workers : Replaces(v, r, s) \/ Replaces(v, s, r)

\* A deletion of an employee is about one.
Named == \A v \in Workers : req[v].op = "fire" /\ req[v].at # "idle" => req[v].employee \in Employees

IInv == TypeOK /\ Named /\ Uncommitted /\ Exclusive

-----------------------------------------------------------------------------
\* A request that has read nothing yet is well formed.
LEMMA IdleType == Idle \in Request /\ Idle.off = {} /\ Idle.at = "idle"
  BY StructureAssumption DEF Idle, Request, Ops, Stages

\* The requests after a commit: the worker is idle, nobody else's changes are touched.
LEMMA FinishFacts ==
  ASSUME TypeOK, NEW w \in Workers, Finish(w)
  PROVE  /\ req' \in [Workers -> Request]
         /\ req'[w] = Idle
         /\ \A v \in Workers \ {w} : /\ req'[v].off = req[v].off
                                     /\ req'[v].op = req[v].op /\ req'[v].at = req[v].at
                                     /\ req'[v].employee = req[v].employee
<1>1. \A v \in Workers : req[v] \in Request
  BY DEF TypeOK
<1>2. \A v \in Workers : [req[v] EXCEPT !.met = req[v].at # "idle"] \in Request
  BY <1>1 DEF Request
<1>3. req' \in [Workers -> Request] /\ req'[w] = Idle
  BY <1>2, IdleType DEF Finish
<1>4. ASSUME NEW v \in Workers \ {w}
      PROVE  /\ req'[v].off = req[v].off
             /\ req'[v].op = req[v].op /\ req'[v].at = req[v].at
             /\ req'[v].employee = req[v].employee
  <2>1. req'[v] = [req[v] EXCEPT !.met = req[v].at # "idle"]
    BY DEF Finish
  <2> QED BY <2>1, <1>1 DEF Request
<1> QED BY <1>3, <1>4

\* Likewise after a read or a flush.
LEMMA HoldFacts ==
  ASSUME TypeOK, NEW w \in Workers, NEW held \in Request, Hold(w, held)
  PROVE  /\ req' \in [Workers -> Request]
         /\ req'[w] = held
         /\ \A v \in Workers \ {w} : req'[v] = req[v]
  BY DEF TypeOK, Hold

-----------------------------------------------------------------------------
\* A load touches no row and starts with nothing turned off.
LEMMA LoadKeeps ==
  ASSUME IInv, NEW w \in Workers, req[w].at = "idle",
         NEW held \in Request, held.off = {}, held.op = "fire" => held.employee \in Employees,
         Hold(w, held),
         UNCHANGED <<rows, gone, applicable>>
  PROVE  IInv'
<1>1. /\ req' \in [Workers -> Request] /\ req'[w] = held
      /\ \A v \in Workers \ {w} : req'[v] = req[v]
  BY HoldFacts DEF IInv
<1>2. TypeOK'
  BY <1>1 DEF IInv, TypeOK, rows
<1>3. \A r \in Rows : r \notin req[w].off /\ writer[r] # w
  BY DEF IInv, Uncommitted, Applying
<1>4. Uncommitted' /\ Named'
  BY <1>1, <1>3 DEF IInv, Uncommitted, Applying, Named, rows
<1>5. Exclusive'
  BY <1>1, <1>3 DEF IInv, Exclusive, Replaces, Counts, rows
<1> QED BY <1>2, <1>4, <1>5 DEF IInv

\* A commit of a request other than apply that makes no further row count, nor
\* changes who inserted which row.
LEMMA CommitKeeps ==
  ASSUME IInv, NEW w \in Workers, req[w].op # "apply", Finish(w), TypeOK',
         owner' = owner, writer' = writer,
         \A r \in Rows : Counts(r)' => Counts(r)
  PROVE  IInv'
<1>1. /\ req'[w] = Idle
      /\ \A v \in Workers \ {w} : /\ req'[v].off = req[v].off
                                  /\ req'[v].op = req[v].op /\ req'[v].at = req[v].at
                                  /\ req'[v].employee = req[v].employee
  BY FinishFacts DEF IInv
<1>2. \A r \in Rows : r \notin req[w].off /\ writer[r] # w
  BY DEF IInv, Uncommitted, Applying
<1>3. Uncommitted' /\ Named'
  BY <1>1, <1>2, IdleType DEF IInv, Uncommitted, Applying, Named
<1>4. Exclusive'
  <2> SUFFICES ASSUME NEW r \in Rows, NEW s \in Rows, r # s, owner'[r] = owner'[s],
                      Counts(r)', Counts(s)'
               PROVE  \E v \in Workers : Replaces(v, r, s)' \/ Replaces(v, s, r)'
    BY DEF Exclusive
  <2>1. PICK v \in Workers : Replaces(v, r, s) \/ Replaces(v, s, r)
    BY DEF IInv, Exclusive
  <2>2. v # w
    BY <2>1, <1>2 DEF Replaces
  <2> QED BY <2>1, <2>2, <1>1 DEF Replaces
<1> QED BY <1>3, <1>4 DEF IInv

-----------------------------------------------------------------------------
\* The five loads.
LEMMA LoadsKeep ==
  ASSUME IInv, NEW w \in Workers,
         LoadCreate(w) \/ LoadUpdate(w) \/ LoadDelete(w) \/ LoadFire(w) \/ LoadApply(w)
  PROVE  IInv'
<1>1. CASE LoadCreate(w)
  <2>1. PICK e \in Employees, asked \in BOOLEAN :
          /\ req[w].at = "idle" /\ UNCHANGED <<rows, gone, applicable>>
          /\ Hold(w, [Idle EXCEPT !.op = "create", !.at = "loaded", !.employee = e, !.asked = asked])
    BY <1>1 DEF LoadCreate
  <2>2. [Idle EXCEPT !.op = "create", !.at = "loaded", !.employee = e, !.asked = asked] \in Request
    BY IdleType, StructureAssumption DEF Request, Ops, Stages
  <2>3. [Idle EXCEPT !.op = "create", !.at = "loaded", !.employee = e, !.asked = asked].off = {}
    BY IdleType DEF Request
  <2>4. [Idle EXCEPT !.op = "create", !.at = "loaded", !.employee = e, !.asked = asked].op # "fire"
    BY IdleType DEF Request
  <2> QED BY <2>1, <2>2, <2>3, <2>4, LoadKeeps
<1>2. CASE LoadUpdate(w)
  <2>1. PICK r \in Visible(w), asked \in BOOLEAN :
          /\ req[w].at = "idle" /\ UNCHANGED <<rows, gone, applicable>>
          /\ Hold(w, [Idle EXCEPT !.op = "update", !.at = "loaded", !.row = r, !.was = active[r], !.asked = asked])
    BY <1>2 DEF LoadUpdate
  <2>2. [Idle EXCEPT !.op = "update", !.at = "loaded", !.row = r, !.was = active[r], !.asked = asked] \in Request
    BY IdleType, StructureAssumption DEF Request, Ops, Stages, Visible, IInv, TypeOK
  <2>3. [Idle EXCEPT !.op = "update", !.at = "loaded", !.row = r, !.was = active[r], !.asked = asked].off = {}
    BY IdleType DEF Request
  <2>4. [Idle EXCEPT !.op = "update", !.at = "loaded", !.row = r, !.was = active[r], !.asked = asked].op # "fire"
    BY IdleType DEF Request
  <2> QED BY <2>1, <2>2, <2>3, <2>4, LoadKeeps
<1>3. CASE LoadDelete(w)
  <2>1. PICK r \in Visible(w) :
          /\ req[w].at = "idle" /\ UNCHANGED <<rows, gone, applicable>>
          /\ Hold(w, [Idle EXCEPT !.op = "delete", !.at = "loaded", !.row = r, !.was = active[r]])
    BY <1>3 DEF LoadDelete
  <2>2. [Idle EXCEPT !.op = "delete", !.at = "loaded", !.row = r, !.was = active[r]] \in Request
    BY IdleType, StructureAssumption DEF Request, Ops, Stages, Visible, IInv, TypeOK
  <2>3. [Idle EXCEPT !.op = "delete", !.at = "loaded", !.row = r, !.was = active[r]].off = {}
    BY IdleType DEF Request
  <2>4. [Idle EXCEPT !.op = "delete", !.at = "loaded", !.row = r, !.was = active[r]].op # "fire"
    BY IdleType DEF Request
  <2> QED BY <2>1, <2>2, <2>3, <2>4, LoadKeeps
<1>4. CASE LoadFire(w)
  <2>1. PICK e \in Employees \ gone :
          /\ req[w].at = "idle" /\ UNCHANGED <<rows, gone, applicable>>
          /\ Hold(w, [Idle EXCEPT !.op = "fire", !.at = "loaded", !.employee = e])
    BY <1>4 DEF LoadFire
  <2>2. [Idle EXCEPT !.op = "fire", !.at = "loaded", !.employee = e] \in Request
    BY IdleType, StructureAssumption DEF Request, Ops, Stages
  <2>3. [Idle EXCEPT !.op = "fire", !.at = "loaded", !.employee = e].off = {}
    BY IdleType DEF Request
  <2>4. [Idle EXCEPT !.op = "fire", !.at = "loaded", !.employee = e].employee \in Employees
    BY IdleType DEF Request
  <2> QED BY <2>1, <2>2, <2>3, <2>4, LoadKeeps
<1>5. CASE LoadApply(w)
  <2>1. PICK batch \in Batches, replace \in BOOLEAN :
          /\ req[w].at = "idle" /\ UNCHANGED <<rows, gone, applicable>>
          /\ Hold(w, [Idle EXCEPT !.op = "apply", !.at = "loaded", !.todo = batch, !.replace = replace])
    BY <1>5 DEF LoadApply
  <2>2. [Idle EXCEPT !.op = "apply", !.at = "loaded", !.todo = batch, !.replace = replace] \in Request
    BY IdleType, StructureAssumption DEF Request, Ops, Stages
  <2>3. [Idle EXCEPT !.op = "apply", !.at = "loaded", !.todo = batch, !.replace = replace].off = {}
    BY IdleType DEF Request
  <2>4. [Idle EXCEPT !.op = "apply", !.at = "loaded", !.todo = batch, !.replace = replace].op # "fire"
    BY IdleType DEF Request
  <2> QED BY <2>1, <2>2, <2>3, <2>4, LoadKeeps
<1> QED BY <1>1, <1>2, <1>3, <1>4, <1>5

-----------------------------------------------------------------------------
\* Nobody else's transaction has a row of e, and this one sees no active one: then
\* every row of e that counts is one this transaction has turned off.
LEMMA NoneLeft ==
  ASSUME IInv, NEW w \in Workers, NEW e \in Employees, NEW r \in Rows,
         owner[r] = e, Counts(r), ActiveFor(w, e) = {}, ~KeyLocked(w, e)
  PROVE  r \in req[w].off
<1>1. writer[r] \in Workers \cup {NoWorker}
  BY DEF IInv, TypeOK
<1>2. writer[r] \in {NoWorker, w}
  BY <1>1 DEF KeyLocked
<1> QED BY <1>2 DEF ActiveFor, Visible, Counts

\* An active structure is created: there was none.
LEMMA CreateKeeps ==
  ASSUME IInv, NEW w \in Workers, CommitCreate(w)
  PROVE  IInv'
<1>1. /\ req[w] \in Request /\ req[w].op = "create" /\ ~Refused(w) /\ Finish(w)
      /\ UNCHANGED <<gone, applicable>>
      /\ req[w].asked => ~KeyLocked(w, req[w].employee)
  BY DEF CommitCreate, Committing, IInv, TypeOK
<1>2. PICK new \in Rows : Inserted(new, req[w].employee, req[w].asked, NoWorker)
  BY DEF CommitCreate
<1>3. /\ req' \in [Workers -> Request] /\ req'[w] = Idle
      /\ \A v \in Workers \ {w} : /\ req'[v].off = req[v].off
                                  /\ req'[v].op = req[v].op /\ req'[v].at = req[v].at
                                  /\ req'[v].employee = req[v].employee
  BY <1>1, FinishFacts DEF IInv
<1>4. req[w].employee \in Employees \cup {NoEmployee} /\ req[w].asked \in BOOLEAN
  BY <1>1 DEF Request
<1>5. TypeOK'
  BY <1>1, <1>2, <1>3, <1>4 DEF IInv, TypeOK, Inserted
<1>6. \A r \in Rows : r \notin req[w].off /\ writer[r] # w
  BY <1>1 DEF IInv, Uncommitted, Applying
<1>7. Uncommitted' /\ Named'
  BY <1>2, <1>3, <1>6, IdleType, StructureAssumption
     DEF IInv, Uncommitted, Applying, Named, Inserted, TypeOK
<1>8. /\ owner[new] = NoEmployee
      /\ owner' = [owner EXCEPT ![new] = req[w].employee]
      /\ active' = [active EXCEPT ![new] = req[w].asked]
      /\ live' = [live EXCEPT ![new] = TRUE]
      /\ writer' = [writer EXCEPT ![new] = NoWorker]
  BY <1>2 DEF Inserted
<1>9. \A r \in Rows \ {new} : ~(Counts(r) /\ owner[r] = owner'[new] /\ Counts(new)')
  <2> SUFFICES ASSUME NEW r \in Rows \ {new}, Counts(r), owner[r] = owner'[new], Counts(new)'
               PROVE  FALSE
    OBVIOUS
  <2>1. req[w].employee \in Employees /\ req[w].asked /\ owner[r] = req[w].employee
    BY <1>4, <1>8 DEF Counts, IInv, TypeOK
  <2>2. ActiveFor(w, req[w].employee) = {}
    BY <2>1, <1>1 DEF Refused
  <2> QED BY <2>1, <2>2, <1>1, <1>6, NoneLeft
<1>10. \A r \in Rows \ {new} : /\ Counts(r)' <=> Counts(r)
                               /\ owner'[r] = owner[r] /\ writer'[r] = writer[r]
  BY <1>8 DEF Counts, IInv, TypeOK
<1>11. Exclusive'
  <2> SUFFICES ASSUME NEW r \in Rows, NEW s \in Rows, r # s, owner'[r] = owner'[s],
                      Counts(r)', Counts(s)'
               PROVE  \E v \in Workers : Replaces(v, r, s)' \/ Replaces(v, s, r)'
    BY DEF Exclusive
  <2>1. r # new /\ s # new
    BY <1>9, <1>10
  <2>2. PICK v \in Workers : Replaces(v, r, s) \/ Replaces(v, s, r)
    BY <2>1, <1>10 DEF IInv, Exclusive
  <2>3. v # w
    BY <2>2, <1>6 DEF Replaces
  <2> QED BY <2>1, <2>2, <2>3, <1>3, <1>10 DEF Replaces
<1> QED BY <1>5, <1>7, <1>11 DEF IInv

\* A structure is updated: if that turns it on, nobody else's counts for the employee.
LEMMA UpdateKeeps ==
  ASSUME IInv, NEW w \in Workers, CommitUpdate(w)
  PROVE  IInv'
<1>0. PICK one : one = req[w].row
  OBVIOUS
<1>1. /\ req[w] \in Request /\ req[w].op = "update" /\ ~Refused(w) /\ Finish(w)
      /\ req[w].asked /\ ~req[w].was => ~KeyLocked(w, owner[one])
      /\ active' = [active EXCEPT ![one] = Written(active[one], req[w].was, req[w].asked)]
      /\ UNCHANGED <<owner, live, writer, gone, applicable>>
  BY <1>0 DEF CommitUpdate, Committing, IInv, TypeOK
<1>2. req[w].was \in BOOLEAN /\ req[w].asked \in BOOLEAN
  BY <1>1 DEF Request
<1>3. /\ req' \in [Workers -> Request] /\ req'[w] = Idle
      /\ \A v \in Workers \ {w} : /\ req'[v].off = req[v].off
                                  /\ req'[v].op = req[v].op /\ req'[v].at = req[v].at
                                  /\ req'[v].employee = req[v].employee
  BY <1>1, FinishFacts DEF IInv
<1>4. TypeOK'
  <2>1. active' \in [Rows -> BOOLEAN]
    <3>1. CASE one \in Rows
      BY <3>1, <1>1, <1>2 DEF IInv, TypeOK, Written
    <3>2. CASE one \notin Rows
      BY <3>2, <1>1 DEF IInv, TypeOK
    <3> QED BY <3>1, <3>2
  <2> QED BY <2>1, <1>1, <1>3 DEF IInv, TypeOK
<1>5. \A r \in Rows : r \notin req[w].off /\ writer[r] # w
  BY <1>1 DEF IInv, Uncommitted, Applying
<1>6. Uncommitted' /\ Named'
  BY <1>1, <1>3, <1>5, IdleType DEF IInv, Uncommitted, Applying, Named
<1>7. \A r \in Rows \ {one} : Counts(r)' <=> Counts(r)
  BY <1>1 DEF Counts, IInv, TypeOK
<1>8. CASE \A r \in Rows : Counts(r)' => Counts(r)
  BY <1>8, <1>1, <1>4, CommitKeeps
<1>9. CASE one \in Rows /\ Counts(one)' /\ ~Counts(one)
  <2>0. /\ live[one] /\ owner[one] \in Employees /\ ~active[one]
        /\ Written(active[one], req[w].was, req[w].asked)
    BY <1>9, <1>1 DEF Counts, IInv, TypeOK
  <2>1. req[w].asked /\ ~req[w].was /\ live[one] /\ owner[one] \in Employees
    BY <2>0, <1>2 DEF Written
  <2>2. ActiveFor(w, owner[one]) \ {one} = {} /\ ~KeyLocked(w, owner[one])
    BY <2>1, <1>0, <1>1 DEF Refused
  <2>3. one \notin ActiveFor(w, owner[one])
    BY <2>0 DEF ActiveFor
  <2>4. \A r \in Rows : ~(owner[r] = owner[one] /\ Counts(r))
    BY <2>1, <2>2, <2>3, <1>5, NoneLeft
  <2>5. Exclusive'
    <3> SUFFICES ASSUME NEW r \in Rows, NEW s \in Rows, r # s, owner'[r] = owner'[s],
                        Counts(r)', Counts(s)'
                 PROVE  \E v \in Workers : Replaces(v, r, s)' \/ Replaces(v, s, r)'
      BY DEF Exclusive
    <3>1. r # one /\ s # one
      BY <2>4, <1>7, <1>1
    <3>2. PICK v \in Workers : Replaces(v, r, s) \/ Replaces(v, s, r)
      BY <3>1, <1>1, <1>7 DEF IInv, Exclusive
    <3>3. v # w
      BY <3>2, <1>5 DEF Replaces
    <3> QED BY <3>2, <3>3, <1>3, <1>1 DEF Replaces
  <2> QED BY <1>4, <1>6, <2>5 DEF IInv
<1> QED BY <1>7, <1>8, <1>9

\* A deletion, of a structure or of an employee with all of them, turns none on.
LEMMA DeletionsKeep ==
  ASSUME IInv, NEW w \in Workers, CommitDelete(w) \/ CommitFire(w)
  PROVE  IInv'
<1>1. CASE CommitDelete(w)
  <2> DEFINE one == req[w].row
  <2>1. /\ req[w] \in Request /\ req[w].op = "delete" /\ Finish(w)
        /\ active' = [active EXCEPT ![one] = Written(active[one], req[w].was, FALSE)]
        /\ live' = [live EXCEPT ![one] = FALSE]
        /\ UNCHANGED <<owner, writer, gone, applicable>>
    BY <1>1 DEF CommitDelete, Committing, IInv, TypeOK
  <2>2. active' \in [Rows -> BOOLEAN] /\ live' \in [Rows -> BOOLEAN]
    <3>1. CASE one \in Rows
      BY <3>1, <2>1 DEF IInv, TypeOK, Written
    <3>2. CASE one \notin Rows
      BY <3>2, <2>1 DEF IInv, TypeOK
    <3> QED BY <3>1, <3>2
  <2>3. req' \in [Workers -> Request]
    BY <2>1, FinishFacts DEF IInv
  <2>4. TypeOK'
    BY <2>1, <2>2, <2>3 DEF IInv, TypeOK
  <2>5. \A r \in Rows : Counts(r)' => Counts(r)
    BY <2>1 DEF Counts, IInv, TypeOK
  <2> QED BY <2>1, <2>4, <2>5, CommitKeeps
<1>2. CASE CommitFire(w)
  <2> DEFINE mine == {r \in Visible(w) : owner[r] = req[w].employee /\ live[r]}
  <2>1. /\ req[w] \in Request /\ req[w].op = "fire" /\ Finish(w)
        /\ req[w].at = "loaded"
        /\ gone' = gone \cup {req[w].employee}
        /\ active' = [r \in Rows |-> active[r] /\ r \notin mine]
        /\ live' = [r \in Rows |-> live[r] /\ r \notin mine]
        /\ UNCHANGED <<owner, writer, applicable>>
    BY <1>2 DEF CommitFire, Committing, IInv, TypeOK
  <2>2. active' \in [Rows -> BOOLEAN] /\ live' \in [Rows -> BOOLEAN]
    BY <2>1
  <2>3. req' \in [Workers -> Request]
    BY <2>1, FinishFacts DEF IInv
  <2>4. req[w].employee \in Employees
    BY <2>1 DEF IInv, Named
  <2>5. TypeOK'
    BY <2>1, <2>2, <2>3, <2>4 DEF IInv, TypeOK
  <2>6. \A r \in Rows : Counts(r)' => Counts(r)
    BY <2>1 DEF Counts
  <2> QED BY <2>1, <2>5, <2>6, CommitKeeps
<1> QED BY <1>1, <1>2

-----------------------------------------------------------------------------
\* The next employee is skipped: nothing else changes.
LEMMA SkipKeeps ==
  ASSUME IInv, NEW w \in Workers, Skip(w)
  PROVE  IInv'
<1> DEFINE held == [req[w] EXCEPT !.todo = Tail(@)]
<1>1. /\ req[w] \in Request /\ req[w].op = "apply" /\ req[w].at = "loaded"
      /\ req[w].todo # <<>> /\ Hold(w, held)
      /\ UNCHANGED <<rows, gone, applicable>>
  BY DEF Skip, Serving, IInv, TypeOK
<1>2. Tail(req[w].todo) \in Seq(Employees)
  BY <1>1 DEF Request
<1>3. held \in Request /\ held.off = req[w].off /\ held.op = "apply" /\ held.at = "loaded"
  BY <1>1, <1>2 DEF Request
<1> HIDE DEF held
<1>4. /\ req' \in [Workers -> Request] /\ req'[w] = held
      /\ \A v \in Workers \ {w} : req'[v] = req[v]
  BY <1>1, <1>3, HoldFacts DEF IInv
<1>5. TypeOK'
  BY <1>1, <1>4 DEF IInv, TypeOK, rows
<1>6. Uncommitted' /\ Named'
  BY <1>1, <1>3, <1>4 DEF IInv, Uncommitted, Applying, Named, rows
<1>7. Exclusive'
  BY <1>1, <1>3, <1>4 DEF IInv, Exclusive, Replaces, Counts, rows
<1> QED BY <1>5, <1>6, <1>7 DEF IInv

\* The active structure is turned off, for this transaction.
LEMMA RetireKeeps ==
  ASSUME IInv, NEW w \in Workers, Retire(w)
  PROVE  IInv'
<1> DEFINE e    == Head(req[w].todo)
           old  == ActiveFor(w, e)
           more == {r \in old : writer[r] = NoWorker}
           held == [req[w] EXCEPT !.at = "inserting", !.employee = e, !.todo = Tail(@),
                                  !.off = @ \cup more]
<1>1. /\ req[w] \in Request /\ req[w].op = "apply" /\ req[w].at = "loaded"
      /\ req[w].todo # <<>> /\ Hold(w, held)
      /\ active' = [r \in Rows |-> active[r] /\ ~(r \in old /\ writer[r] = w)]
      /\ UNCHANGED <<owner, live, writer, gone, applicable>>
  BY DEF Retire, Serving, IInv, TypeOK
<1>2. Tail(req[w].todo) \in Seq(Employees) /\ e \in Employees
  BY <1>1 DEF Request
<1>3. more \subseteq Rows /\ \A r \in more : writer[r] = NoWorker /\ owner[r] # NoEmployee
  BY DEF ActiveFor, Visible
<1> HIDE DEF e, old, more
<1>4. held \in Request /\ held.off = req[w].off \cup more
      /\ held.op = "apply" /\ held.at = "inserting"
  BY <1>1, <1>2, <1>3 DEF Request, Stages
<1> HIDE DEF held
<1>5. /\ req' \in [Workers -> Request] /\ req'[w] = held
      /\ \A v \in Workers \ {w} : req'[v] = req[v]
  BY <1>1, <1>4, HoldFacts DEF IInv
<1>6. TypeOK'
  BY <1>1, <1>5 DEF IInv, TypeOK
<1>7. Uncommitted' /\ Named'
  BY <1>1, <1>3, <1>4, <1>5 DEF IInv, Uncommitted, Applying, Named
<1>8. \A r \in Rows : Counts(r)' => Counts(r)
  BY <1>1 DEF Counts
<1>9. \A v \in Workers : req[v].off \subseteq req'[v].off
  BY <1>4, <1>5
<1>10. Exclusive'
  <2> SUFFICES ASSUME NEW r \in Rows, NEW s \in Rows, r # s, owner'[r] = owner'[s],
                      Counts(r)', Counts(s)'
               PROVE  \E v \in Workers : Replaces(v, r, s)' \/ Replaces(v, s, r)'
    BY DEF Exclusive
  <2>1. PICK v \in Workers : Replaces(v, r, s) \/ Replaces(v, s, r)
    BY <1>1, <1>8 DEF IInv, Exclusive
  <2> QED BY <2>1, <1>1, <1>9 DEF Replaces
<1> QED BY <1>6, <1>7, <1>10 DEF IInv

\* The new structure: whatever else counts for the employee has just been turned off.
LEMMA InsertKeeps ==
  ASSUME IInv, NEW w \in Workers, Insert(w)
  PROVE  IInv'
<1> DEFINE held == [req[w] EXCEPT !.at = "loaded", !.employee = NoEmployee]
<1>1. /\ req[w] \in Request /\ req[w].op = "apply" /\ req[w].at = "inserting"
      /\ ~Refused(w) /\ ~KeyLocked(w, req[w].employee)
      /\ Hold(w, held)
      /\ UNCHANGED <<gone, applicable>>
  BY DEF Insert, IInv, TypeOK
<1>2. PICK new \in Rows : Inserted(new, req[w].employee, TRUE, w)
  BY DEF Insert
<1>3. held \in Request /\ held.off = req[w].off /\ held.op = "apply" /\ held.at = "loaded"
  BY <1>1 DEF Request, Stages
<1> HIDE DEF held
<1>4. /\ req' \in [Workers -> Request] /\ req'[w] = held
      /\ \A v \in Workers \ {w} : req'[v] = req[v]
  BY <1>1, <1>3, HoldFacts DEF IInv
<1>5. req[w].employee \in Employees \cup {NoEmployee}
  BY <1>1 DEF Request
<1>6. /\ owner[new] = NoEmployee
      /\ owner' = [owner EXCEPT ![new] = req[w].employee]
      /\ active' = [active EXCEPT ![new] = TRUE]
      /\ live' = [live EXCEPT ![new] = TRUE]
      /\ writer' = [writer EXCEPT ![new] = w]
  BY <1>2 DEF Inserted
<1>7. TypeOK'
  BY <1>1, <1>4, <1>5, <1>6 DEF IInv, TypeOK
<1>8. /\ owner'[new] = req[w].employee /\ writer'[new] = w
      /\ \A r \in Rows \ {new} : /\ Counts(r)' <=> Counts(r)
                                 /\ owner'[r] = owner[r] /\ writer'[r] = writer[r]
  BY <1>6 DEF Counts, IInv, TypeOK
<1>9. \A v \in Workers : req'[v].off = req[v].off /\ new \notin req[v].off
  BY <1>3, <1>4, <1>6 DEF IInv, Uncommitted
<1>10. Uncommitted' /\ Named'
  <2>1. ASSUME NEW v \in Workers, NEW r \in Rows
        PROVE  /\ r \in req'[v].off => Applying(v)' /\ writer'[r] = NoWorker
                                        /\ owner'[r] # NoEmployee
               /\ writer'[r] = v => Applying(v)'
    BY <1>1, <1>3, <1>4, <1>8, <1>9 DEF IInv, Uncommitted, Applying
  <2>2. Named'
    BY <1>1, <1>3, <1>4 DEF IInv, Named
  <2> QED BY <2>1, <2>2 DEF Uncommitted
<1>11. \A r \in Rows \ {new} :
         Counts(r) /\ owner[r] = owner'[new] /\ Counts(new)' => r \in req[w].off
  <2> SUFFICES ASSUME NEW r \in Rows \ {new}, Counts(r), owner[r] = owner'[new], Counts(new)'
               PROVE  r \in req[w].off
    OBVIOUS
  <2>1. req[w].employee \in Employees /\ owner[r] = req[w].employee
    BY <1>5, <1>8 DEF Counts
  <2>2. ActiveFor(w, req[w].employee) = {}
    BY <1>1 DEF Refused
  <2> QED BY <2>1, <2>2, <1>1, NoneLeft
<1>12. Exclusive'
  <2> SUFFICES ASSUME NEW r \in Rows, NEW s \in Rows, r # s, owner'[r] = owner'[s],
                      Counts(r)', Counts(s)'
               PROVE  \E v \in Workers : Replaces(v, r, s)' \/ Replaces(v, s, r)'
    BY DEF Exclusive
  <2>1. CASE r = new
    <3>1. s \in req[w].off
      BY <2>1, <1>8, <1>11
    <3>2. Replaces(w, s, r)'
      BY <3>1, <2>1, <1>8, <1>9 DEF Replaces
    <3> QED BY <3>2
  <2>2. CASE s = new
    <3>1. r \in req[w].off
      BY <2>2, <1>8, <1>11
    <3>2. Replaces(w, r, s)'
      BY <3>1, <2>2, <1>8, <1>9 DEF Replaces
    <3> QED BY <3>2
  <2>3. CASE r # new /\ s # new
    <3>1. PICK v \in Workers : Replaces(v, r, s) \/ Replaces(v, s, r)
      BY <2>3, <1>8 DEF IInv, Exclusive
    <3> QED BY <3>1, <2>3, <1>8, <1>9 DEF Replaces
  <2> QED BY <2>1, <2>2, <2>3
<1> QED BY <1>7, <1>10, <1>12 DEF IInv

\* The batch commits: of each pair it had made, only the new row still counts.
LEMMA ApplyKeeps ==
  ASSUME IInv, NEW w \in Workers, CommitApply(w)
  PROVE  IInv'
<1>1. /\ Finish(w)
      /\ active' = [r \in Rows |-> active[r] /\ r \notin req[w].off]
      /\ writer' = [r \in Rows |-> IF writer[r] = w THEN NoWorker ELSE writer[r]]
      /\ UNCHANGED <<owner, live, gone, applicable>>
  BY DEF CommitApply
<1>2. /\ req' \in [Workers -> Request] /\ req'[w] = Idle
      /\ \A v \in Workers \ {w} : /\ req'[v].off = req[v].off
                                  /\ req'[v].op = req[v].op /\ req'[v].at = req[v].at
                                  /\ req'[v].employee = req[v].employee
  BY <1>1, FinishFacts DEF IInv
<1>3. TypeOK'
  BY <1>1, <1>2 DEF IInv, TypeOK
<1>4. Uncommitted' /\ Named'
  BY <1>1, <1>2, IdleType, StructureAssumption DEF IInv, Uncommitted, Applying, Named
<1>5. \A r \in Rows : Counts(r)' => Counts(r) /\ r \notin req[w].off
  BY <1>1 DEF Counts
<1>6. Exclusive'
  <2> SUFFICES ASSUME NEW r \in Rows, NEW s \in Rows, r # s, owner'[r] = owner'[s],
                      Counts(r)', Counts(s)'
               PROVE  \E v \in Workers : Replaces(v, r, s)' \/ Replaces(v, s, r)'
    BY DEF Exclusive
  <2>1. PICK v \in Workers : Replaces(v, r, s) \/ Replaces(v, s, r)
    BY <1>1, <1>5 DEF IInv, Exclusive
  <2>2. v # w
    BY <2>1, <1>5 DEF Replaces
  <2> QED BY <2>1, <2>2, <1>1, <1>2 DEF Replaces
<1> QED BY <1>3, <1>4, <1>6 DEF IInv

\* A transaction that dies takes its rows with it.
LEMMA RollbackKeeps ==
  ASSUME IInv, NEW w \in Workers, Rollback(w)
  PROVE  IInv'
<1>1. /\ Hold(w, Idle)
      /\ owner'  = [r \in Rows |-> IF writer[r] = w THEN NoEmployee ELSE owner[r]]
      /\ active' = [r \in Rows |-> active[r] /\ writer[r] # w]
      /\ live'   = [r \in Rows |-> live[r] /\ writer[r] # w]
      /\ writer' = [r \in Rows |-> IF writer[r] = w THEN NoWorker ELSE writer[r]]
      /\ UNCHANGED <<gone, applicable>>
  BY DEF Rollback
<1>2. /\ req' \in [Workers -> Request] /\ req'[w] = Idle
      /\ \A v \in Workers \ {w} : req'[v] = req[v]
  BY <1>1, IdleType, HoldFacts DEF IInv
<1>3. TypeOK'
  BY <1>1, <1>2 DEF IInv, TypeOK
<1>4. Uncommitted' /\ Named'
  BY <1>1, <1>2, IdleType, StructureAssumption DEF IInv, Uncommitted, Applying, Named
<1>5. \A r \in Rows : Counts(r)' => Counts(r) /\ writer[r] # w /\ owner'[r] = owner[r]
  BY <1>1 DEF Counts
<1>6. Exclusive'
  <2> SUFFICES ASSUME NEW r \in Rows, NEW s \in Rows, r # s, owner'[r] = owner'[s],
                      Counts(r)', Counts(s)'
               PROVE  \E v \in Workers : Replaces(v, r, s)' \/ Replaces(v, s, r)'
    BY DEF Exclusive
  <2>1. PICK v \in Workers : Replaces(v, r, s) \/ Replaces(v, s, r)
    BY <1>5 DEF IInv, Exclusive
  <2>2. v # w
    BY <2>1, <1>5 DEF Replaces
  <2> QED BY <2>1, <2>2, <1>1, <1>2, <1>5 DEF Replaces
<1> QED BY <1>3, <1>4, <1>6 DEF IInv

-----------------------------------------------------------------------------
LEMMA InitIInv == Init => IInv
<1> SUFFICES ASSUME Init PROVE IInv
  OBVIOUS
<1>1. TypeOK
  BY IdleType DEF Init, TypeOK
<1>2. Named /\ Uncommitted /\ Exclusive
  BY IdleType, StructureAssumption DEF Init, Named, Uncommitted, Exclusive, Counts
<1> QED BY <1>1, <1>2 DEF IInv

LEMMA NextIInv == IInv /\ [Next]_vars => IInv'
<1> SUFFICES ASSUME IInv, [Next]_vars PROVE IInv'
  OBVIOUS
<1>1. ASSUME NEW w \in Workers,
             \/ LoadCreate(w) \/ LoadUpdate(w) \/ LoadDelete(w) \/ LoadFire(w) \/ LoadApply(w)
      PROVE  IInv'
  BY <1>1, LoadsKeep
<1>2. ASSUME NEW w \in Workers, CommitCreate(w) PROVE IInv'
  BY <1>2, CreateKeeps
<1>3. ASSUME NEW w \in Workers, CommitUpdate(w) PROVE IInv'
  BY <1>3, UpdateKeeps
<1>4. ASSUME NEW w \in Workers, CommitDelete(w) \/ CommitFire(w) PROVE IInv'
  BY <1>4, DeletionsKeep
<1>5. ASSUME NEW w \in Workers, Skip(w) PROVE IInv'
  BY <1>5, SkipKeeps
<1>6. ASSUME NEW w \in Workers, Retire(w) PROVE IInv'
  BY <1>6, RetireKeeps
<1>7. ASSUME NEW w \in Workers, Insert(w) PROVE IInv'
  BY <1>7, InsertKeeps
<1>8. ASSUME NEW w \in Workers, CommitApply(w) PROVE IInv'
  BY <1>8, ApplyKeeps
<1>9. ASSUME NEW w \in Workers, Rollback(w) PROVE IInv'
  BY <1>9, RollbackKeeps
<1>10. CASE DeleteTemplate
  <2>1. applicable' = FALSE /\ UNCHANGED <<owner, active, live, writer, gone, req>>
    BY <1>10 DEF DeleteTemplate, rows
  <2>2. TypeOK'
    BY <2>1 DEF IInv, TypeOK
  <2>3. Named' /\ Uncommitted'
    BY <2>1 DEF IInv, Named, Uncommitted, Applying
  <2>4. Exclusive'
    BY <2>1 DEF IInv, Exclusive, Replaces, Counts
  <2> QED BY <2>2, <2>3, <2>4 DEF IInv
<1>11. CASE UNCHANGED vars
  BY <1>11 DEF vars, IInv, TypeOK, Named, Uncommitted, Applying, Exclusive, Replaces,
               Counts, rows
<1> QED BY <1>1, <1>2, <1>3, <1>4, <1>5, <1>6, <1>7, <1>8, <1>9, <1>10, <1>11 DEF Next

\* Two rows that everybody sees were not made by a transaction in flight.
LEMMA IInvOneActive == IInv => OneActive
  BY StructureAssumption DEF IInv, TypeOK, Exclusive, Replaces, Counts, OneActive, Paying

\* Rows, requests and what is deleted keep their types, and the rows a transaction has
\* inserted or turned off belong to a template being applied.
THEOREM StructuresWellFormed == Spec => [](TypeOK /\ Uncommitted)
<1>1. IInv => TypeOK /\ Uncommitted
  BY DEF IInv
<1> QED BY <1>1, InitIInv, NextIInv, PTL DEF Spec

\* Under any interleaving of creations, edits, deletions and batches of any number of
\* requests, an employee has at most one active structure to be paid by.
THEOREM OneActiveStructure == Spec => []OneActive
  BY InitIInv, NextIInv, IInvOneActive, PTL DEF Spec

-----------------------------------------------------------------------------
(***************************************************************************)
(* A template applied to a list of employees takes nobody's structure away *)
(* without giving another one.  A row that a transaction has turned off is *)
(* matched by one that it has inserted, but for the employee whose row it  *)
(* is about to insert; and nobody else reaches its uncommitted rows.       *)
(***************************************************************************)
\* Transaction v has, or is about to insert, another row for the employee of row r.
Matched(v, r) ==
  \/ \E s \in Rows : writer[s] = v /\ owner[s] = owner[r] /\ Counts(s)
  \/ req[v].at = "inserting" /\ req[v].employee = owner[r]

Replaced == \A v \in Workers : \A r \in req[v].off : Matched(v, r)

\* An update or a deletion of one structure is about a committed row.
OfCommitted(v) ==
  req[v].row \in Rows /\ owner[req[v].row] # NoEmployee /\ writer[req[v].row] = NoWorker

Targeted ==
  \A v \in Workers : req[v].op \in {"update", "delete"} /\ req[v].at # "idle" => OfCommitted(v)

KInv == IInv /\ Replaced /\ Targeted

-----------------------------------------------------------------------------
\* What others are doing, as far as the invariant looks at it.
SameRequest(v) ==
  /\ req'[v].off = req[v].off /\ req'[v].op = req[v].op /\ req'[v].at = req[v].at
  /\ req'[v].employee = req[v].employee /\ req'[v].row = req[v].row

LEMMA FinishOthers ==
  ASSUME TypeOK, NEW w \in Workers, Finish(w)
  PROVE  req'[w] = Idle /\ \A v \in Workers \ {w} : SameRequest(v)
<1>1. ASSUME NEW v \in Workers \ {w} PROVE SameRequest(v)
  <2>1. req'[v] = [req[v] EXCEPT !.met = req[v].at # "idle"] /\ req[v] \in Request
    BY DEF Finish, TypeOK
  <2> QED BY <2>1 DEF Request, SameRequest
<1> QED BY <1>1 DEF Finish

LEMMA HoldOthers ==
  ASSUME TypeOK, NEW w \in Workers, NEW held, Hold(w, held)
  PROVE  req'[w] = held /\ \A v \in Workers \ {w} : SameRequest(v)
  BY DEF TypeOK, Hold, SameRequest

\* A row that is committed stays so; and those another transaction has inserted are
\* out of reach.  This holds of every step of w.
Respects(w) ==
  \A r \in Rows :
    /\ owner[r] # NoEmployee /\ writer[r] = NoWorker =>
         owner'[r] = owner[r] /\ writer'[r] = NoWorker
    /\ writer[r] \in Workers \ {w} /\ Counts(r) =>
         owner'[r] = owner[r] /\ writer'[r] = writer[r] /\ Counts(r)'

\* Then only what w itself has turned off, or is about, is left to look at.
LEMMA OnlyOwn ==
  ASSUME KInv, NEW w \in Workers, \A v \in Workers \ {w} : SameRequest(v), Respects(w),
         \A r \in req'[w].off : Matched(w, r)',
         req'[w].op \in {"update", "delete"} /\ req'[w].at # "idle" => OfCommitted(w)'
  PROVE  Replaced' /\ Targeted'
<1>1. ASSUME NEW v \in Workers \ {w}, NEW r \in req'[v].off PROVE Matched(v, r)'
  <2>1. /\ r \in req[v].off /\ req'[v].at = req[v].at
        /\ req'[v].employee = req[v].employee
    BY <1>1 DEF SameRequest
  <2>2. r \in Rows /\ owner[r] # NoEmployee /\ writer[r] = NoWorker
    BY <2>1 DEF KInv, IInv, TypeOK, Request, Uncommitted
  <2>3. owner'[r] = owner[r]
    BY <2>2 DEF Respects
  <2>4. Matched(v, r)
    BY <2>1 DEF KInv, Replaced
  <2>5. CASE \E s \in Rows : writer[s] = v /\ owner[s] = owner[r] /\ Counts(s)
    <3>1. PICK s \in Rows : writer[s] = v /\ owner[s] = owner[r] /\ Counts(s)
      BY <2>5
    <3>2. owner'[s] = owner[s] /\ writer'[s] = v /\ Counts(s)'
      BY <3>1 DEF Respects
    <3> QED BY <3>1, <3>2, <2>3 DEF Matched
  <2>6. CASE req[v].at = "inserting" /\ req[v].employee = owner[r]
    BY <2>6, <2>1, <2>3 DEF Matched
  <2> QED BY <2>4, <2>5, <2>6 DEF Matched
<1>2. ASSUME NEW v \in Workers \ {w}, req'[v].op \in {"update", "delete"}, req'[v].at # "idle"
      PROVE  OfCommitted(v)'
  <2>1. OfCommitted(v) /\ req'[v].row = req[v].row
    BY <1>2 DEF SameRequest, KInv, Targeted
  <2> QED BY <2>1 DEF OfCommitted, Respects
<1> QED BY <1>1, <1>2 DEF Replaced, Targeted

\* A request that has begun nothing has no rows and no locks.
LEMMA NothingYet ==
  ASSUME KInv, NEW w \in Workers, ~Applying(w)
  PROVE  \A r \in Rows : r \notin req[w].off /\ writer[r] # w
  BY DEF KInv, IInv, Uncommitted

-----------------------------------------------------------------------------
LEMMA LoadsMatch ==
  ASSUME KInv, NEW w \in Workers,
         LoadCreate(w) \/ LoadUpdate(w) \/ LoadDelete(w) \/ LoadFire(w) \/ LoadApply(w)
  PROVE  Replaced' /\ Targeted'
<1>1. req[w].at = "idle" /\ UNCHANGED <<owner, active, live, writer>>
  BY DEF LoadCreate, LoadUpdate, LoadDelete, LoadFire, LoadApply, rows
<1>2. Respects(w)
  BY <1>1 DEF Respects, Counts
<1>3. \A r \in Rows : writer[r] # w
  BY <1>1, NothingYet DEF Applying
<1>4. TypeOK
  BY DEF KInv, IInv
<1>5. ASSUME NEW held \in Request, Hold(w, held), held.off = {},
             held.op \in {"update", "delete"} => held.row \in Visible(w)
      PROVE  Replaced' /\ Targeted'
  <2>1. req'[w] = held /\ \A v \in Workers \ {w} : SameRequest(v)
    BY <1>4, <1>5, HoldOthers
  <2>2. req'[w].op \in {"update", "delete"} => OfCommitted(w)'
    BY <2>1, <1>1, <1>3, <1>5 DEF OfCommitted, Visible
  <2> QED BY <2>1, <2>2, <1>2, <1>5, OnlyOwn
<1>6. CASE LoadCreate(w)
  <2>1. PICK e \in Employees, asked \in BOOLEAN :
          Hold(w, [Idle EXCEPT !.op = "create", !.at = "loaded", !.employee = e, !.asked = asked])
    BY <1>6 DEF LoadCreate
  <2> DEFINE held == [Idle EXCEPT !.op = "create", !.at = "loaded", !.employee = e, !.asked = asked]
  <2>2. held \in Request /\ held.off = {} /\ held.op = "create"
    BY IdleType, StructureAssumption DEF Request, Ops, Stages
  <2> HIDE DEF held
  <2> QED BY <2>1, <2>2, <1>5 DEF held
<1>7. CASE LoadUpdate(w)
  <2>1. PICK r \in Visible(w), asked \in BOOLEAN :
          Hold(w, [Idle EXCEPT !.op = "update", !.at = "loaded", !.row = r, !.was = active[r], !.asked = asked])
    BY <1>7 DEF LoadUpdate
  <2> DEFINE held == [Idle EXCEPT !.op = "update", !.at = "loaded", !.row = r, !.was = active[r], !.asked = asked]
  <2>2. held \in Request
    BY <1>4, IdleType, StructureAssumption DEF Request, Ops, Stages, Visible, TypeOK
  <2>3. held.off = {} /\ held.row = r
    BY IdleType DEF Request
  <2> HIDE DEF held
  <2> QED BY <2>1, <2>2, <2>3, <1>5 DEF held
<1>8. CASE LoadDelete(w)
  <2>1. PICK r \in Visible(w) :
          Hold(w, [Idle EXCEPT !.op = "delete", !.at = "loaded", !.row = r, !.was = active[r]])
    BY <1>8 DEF LoadDelete
  <2> DEFINE held == [Idle EXCEPT !.op = "delete", !.at = "loaded", !.row = r, !.was = active[r]]
  <2>2. held \in Request
    BY <1>4, IdleType, StructureAssumption DEF Request, Ops, Stages, Visible, TypeOK
  <2>3. held.off = {} /\ held.row = r
    BY IdleType DEF Request
  <2> HIDE DEF held
  <2> QED BY <2>1, <2>2, <2>3, <1>5 DEF held
<1>9. CASE LoadFire(w)
  <2>1. PICK e \in Employees :
          Hold(w, [Idle EXCEPT !.op = "fire", !.at = "loaded", !.employee = e])
    BY <1>9 DEF LoadFire
  <2> DEFINE held == [Idle EXCEPT !.op = "fire", !.at = "loaded", !.employee = e]
  <2>2. held \in Request /\ held.off = {} /\ held.op = "fire"
    BY IdleType, StructureAssumption DEF Request, Ops, Stages
  <2> HIDE DEF held
  <2> QED BY <2>1, <2>2, <1>5 DEF held
<1>10. CASE LoadApply(w)
  <2>1. PICK batch \in Batches, replace \in BOOLEAN :
          Hold(w, [Idle EXCEPT !.op = "apply", !.at = "loaded", !.todo = batch, !.replace = replace])
    BY <1>10 DEF LoadApply
  <2> DEFINE held == [Idle EXCEPT !.op = "apply", !.at = "loaded", !.todo = batch, !.replace = replace]
  <2>2. held \in Request /\ held.off = {} /\ held.op = "apply"
    BY IdleType, StructureAssumption DEF Request, Ops, Stages
  <2> HIDE DEF held
  <2> QED BY <2>1, <2>2, <1>5 DEF held
<1> QED BY <1>6, <1>7, <1>8, <1>9, <1>10

\* The commits of one structure and of an employee reach committed rows only.
LEMMA CommitsMatch ==
  ASSUME KInv, NEW w \in Workers,
         CommitCreate(w) \/ CommitUpdate(w) \/ CommitDelete(w) \/ CommitFire(w)
  PROVE  Replaced' /\ Targeted'
<1>0. TypeOK
  BY DEF KInv, IInv
<1>1. Finish(w) /\ req[w].op \in {"create", "update", "delete", "fire"} /\ req[w].at = "loaded"
  BY DEF CommitCreate, CommitUpdate, CommitDelete, CommitFire, Committing
<1>2. req'[w] = Idle /\ \A v \in Workers \ {w} : SameRequest(v)
  BY <1>0, <1>1, FinishOthers
<1>3. \A r \in Rows : r \notin req[w].off /\ writer[r] # w
  BY <1>1, NothingYet DEF Applying
<1>4. CASE CommitCreate(w)
  <2>1. PICK new \in Rows : Inserted(new, req[w].employee, req[w].asked, NoWorker)
    BY <1>4 DEF CommitCreate
  <2>2. Respects(w)
    BY <2>1, <1>0 DEF Inserted, Respects, Counts, TypeOK
  <2> QED BY <2>2, <1>2, IdleType, OnlyOwn
<1>5. CASE CommitUpdate(w)
  <2>0. PICK one : one = req[w].row
    OBVIOUS
  <2>1. writer[one] = NoWorker
    BY <2>0, <1>1, <1>5 DEF KInv, Targeted, OfCommitted, CommitUpdate, Committing
  <2>2. /\ active' = [active EXCEPT ![one] = Written(active[one], req[w].was, req[w].asked)]
        /\ UNCHANGED <<owner, live, writer>>
    BY <2>0, <1>5 DEF CommitUpdate
  <2>3. Respects(w)
    BY <2>1, <2>2, <1>0, StructureAssumption DEF Respects, Counts, TypeOK
  <2> QED BY <2>3, <1>2, IdleType, OnlyOwn
<1>6. CASE CommitDelete(w)
  <2>0. PICK one : one = req[w].row
    OBVIOUS
  <2>1. writer[one] = NoWorker
    BY <2>0, <1>1, <1>6 DEF KInv, Targeted, OfCommitted, CommitDelete, Committing
  <2>2. /\ active' = [active EXCEPT ![one] = Written(active[one], req[w].was, FALSE)]
        /\ live' = [live EXCEPT ![one] = FALSE]
        /\ UNCHANGED <<owner, writer>>
    BY <2>0, <1>6 DEF CommitDelete
  <2>3. Respects(w)
    BY <2>1, <2>2, <1>0, StructureAssumption DEF Respects, Counts, TypeOK
  <2> QED BY <2>3, <1>2, IdleType, OnlyOwn
<1>7. CASE CommitFire(w)
  <2> DEFINE mine == {r \in Visible(w) : owner[r] = req[w].employee /\ live[r]}
  <2>1. /\ active' = [r \in Rows |-> active[r] /\ r \notin mine]
        /\ live' = [r \in Rows |-> live[r] /\ r \notin mine]
        /\ UNCHANGED <<owner, writer>>
    BY <1>7 DEF CommitFire
  <2>2. \A r \in mine : writer[r] = NoWorker
    BY <1>3 DEF Visible
  <2> HIDE DEF mine
  <2>3. Respects(w)
    BY <2>1, <2>2, StructureAssumption DEF Respects, Counts
  <2> QED BY <2>3, <1>2, IdleType, OnlyOwn
<1> QED BY <1>4, <1>5, <1>6, <1>7

-----------------------------------------------------------------------------
LEMMA SkipMatches ==
  ASSUME KInv, NEW w \in Workers, Skip(w)
  PROVE  Replaced' /\ Targeted'
<1> DEFINE held == [req[w] EXCEPT !.todo = Tail(@)]
<1>1. /\ TypeOK /\ req[w] \in Request /\ req[w].op = "apply" /\ Hold(w, held)
      /\ UNCHANGED <<owner, active, live, writer>>
  BY DEF Skip, Serving, KInv, IInv, TypeOK, rows
<1>2. /\ held.off = req[w].off /\ held.op = "apply" /\ held.at = req[w].at
      /\ held.employee = req[w].employee
  BY <1>1 DEF Request
<1> HIDE DEF held
<1>3. req'[w] = held /\ \A v \in Workers \ {w} : SameRequest(v)
  BY <1>1, HoldOthers
<1>4. Respects(w)
  BY <1>1 DEF Respects, Counts
<1>5. \A r \in req'[w].off : Matched(w, r)'
  BY <1>1, <1>2, <1>3 DEF KInv, Replaced, Matched, Counts
<1> QED BY <1>2, <1>3, <1>4, <1>5, OnlyOwn

\* What is turned off is of the employee who is served next.
LEMMA RetireMatches ==
  ASSUME KInv, NEW w \in Workers, Retire(w)
  PROVE  Replaced' /\ Targeted'
<1> DEFINE e    == Head(req[w].todo)
           old  == ActiveFor(w, e)
           more == {r \in old : writer[r] = NoWorker}
           held == [req[w] EXCEPT !.at = "inserting", !.employee = e, !.todo = Tail(@),
                                  !.off = @ \cup more]
<1>1. /\ TypeOK /\ req[w] \in Request /\ req[w].op = "apply" /\ req[w].at = "loaded"
      /\ Hold(w, held)
      /\ active' = [r \in Rows |-> active[r] /\ ~(r \in old /\ writer[r] = w)]
      /\ UNCHANGED <<owner, live, writer>>
  BY DEF Retire, Serving, KInv, IInv, TypeOK
<1>2. \A r \in old : r \in Rows /\ owner[r] = e
  BY DEF ActiveFor, Visible
<1>3. /\ held.off = req[w].off \cup more /\ held.op = "apply" /\ held.at = "inserting"
      /\ held.employee = e
  BY <1>1 DEF Request
<1>4. \A r \in more : r \in old
  OBVIOUS
<1> HIDE DEF e, old, more, held
<1>5. req'[w] = held /\ \A v \in Workers \ {w} : SameRequest(v)
  BY <1>1, HoldOthers
<1>6. Respects(w)
  BY <1>1 DEF Respects, Counts
<1>7. ASSUME NEW r \in req'[w].off PROVE Matched(w, r)'
  <2>1. CASE owner[r] = e
    BY <2>1, <1>1, <1>3, <1>5 DEF Matched
  <2>2. CASE owner[r] # e
    <3>1. r \in req[w].off
      BY <2>2, <1>2, <1>3, <1>4, <1>5
    <3>2. PICK s \in Rows : writer[s] = w /\ owner[s] = owner[r] /\ Counts(s)
      BY <3>1, <1>1 DEF KInv, Replaced, Matched
    <3>3. s \notin old
      BY <3>2, <2>2, <1>2
    <3> QED BY <3>2, <3>3, <1>1 DEF Matched, Counts
  <2> QED BY <2>1, <2>2
<1> QED BY <1>3, <1>5, <1>6, <1>7, OnlyOwn

\* And is matched by the row inserted for him.
LEMMA InsertMatches ==
  ASSUME KInv, NEW w \in Workers, Insert(w)
  PROVE  Replaced' /\ Targeted'
<1> DEFINE held == [req[w] EXCEPT !.at = "loaded", !.employee = NoEmployee]
<1>1. /\ TypeOK /\ req[w] \in Request /\ req[w].op = "apply" /\ Hold(w, held)
  BY DEF Insert, KInv, IInv, TypeOK
<1>2. held.off = req[w].off /\ held.op = "apply"
  BY <1>1 DEF Request
<1> HIDE DEF held
<1>3. PICK new \in Rows : Inserted(new, req[w].employee, TRUE, w)
  BY DEF Insert
<1>4. /\ owner[new] = NoEmployee
      /\ owner'[new] = req[w].employee /\ writer'[new] = w /\ active'[new] /\ live'[new]
      /\ \A r \in Rows \ {new} : /\ owner'[r] = owner[r] /\ writer'[r] = writer[r]
                                 /\ active'[r] = active[r] /\ live'[r] = live[r]
  BY <1>1, <1>3 DEF Inserted, TypeOK
<1>5. req'[w] = held /\ \A v \in Workers \ {w} : SameRequest(v)
  BY <1>1, HoldOthers
<1>6. Respects(w)
  BY <1>4 DEF Respects, Counts
<1>7. ASSUME NEW r \in req'[w].off PROVE Matched(w, r)'
  <2>1. r \in req[w].off /\ r \in Rows /\ owner[r] # NoEmployee /\ Matched(w, r)
    BY <1>1, <1>2, <1>5 DEF KInv, IInv, Replaced, Uncommitted, Request
  <2>2. owner'[r] = owner[r]
    BY <2>1, <1>4
  <2>3. CASE req[w].employee = owner[r]
    BY <2>1, <2>2, <2>3, <1>4 DEF Matched, Counts
  <2>4. CASE req[w].employee # owner[r]
    <3>1. PICK s \in Rows : writer[s] = w /\ owner[s] = owner[r] /\ Counts(s)
      BY <2>1, <2>4 DEF Matched
    <3>2. s # new
      BY <3>1, <1>4 DEF Counts
    <3> QED BY <3>1, <3>2, <2>2, <1>4 DEF Matched, Counts
  <2> QED BY <2>3, <2>4
<1> QED BY <1>2, <1>5, <1>6, <1>7, OnlyOwn

\* The end of a transaction, either way, does not reach those of others.
LEMMA EndsMatch ==
  ASSUME KInv, NEW w \in Workers, CommitApply(w) \/ Rollback(w)
  PROVE  Replaced' /\ Targeted'
<1>0. TypeOK /\ \A r \in req[w].off : writer[r] = NoWorker
  BY DEF KInv, IInv, Uncommitted, TypeOK, Request
<1>1. req'[w] = Idle /\ \A v \in Workers \ {w} : SameRequest(v)
  BY <1>0, FinishOthers, HoldOthers DEF CommitApply, Rollback
<1>2. Respects(w)
  <2>1. CASE CommitApply(w)
    BY <2>1, <1>0, StructureAssumption DEF CommitApply, Respects, Counts
  <2>2. CASE Rollback(w)
    BY <2>2, <1>0, StructureAssumption DEF Rollback, Respects, Counts
  <2> QED BY <2>1, <2>2
<1> QED BY <1>1, <1>2, IdleType, OnlyOwn

LEMMA InitKInv == Init => KInv
  BY InitIInv, IdleType DEF Init, KInv, Replaced, Targeted

LEMMA NextKInv == KInv /\ [Next]_vars => KInv'
<1> SUFFICES ASSUME KInv, [Next]_vars PROVE KInv'
  OBVIOUS
<1>1. IInv'
  BY NextIInv DEF KInv
<1>2. ASSUME NEW w \in Workers,
             \/ LoadCreate(w) \/ LoadUpdate(w) \/ LoadDelete(w) \/ LoadFire(w) \/ LoadApply(w)
             \/ CommitCreate(w) \/ CommitUpdate(w) \/ CommitDelete(w) \/ CommitFire(w)
             \/ Skip(w) \/ Retire(w) \/ Insert(w) \/ CommitApply(w) \/ Rollback(w)
      PROVE  Replaced' /\ Targeted'
  BY <1>2, LoadsMatch, CommitsMatch, SkipMatches, RetireMatches, InsertMatches, EndsMatch
<1>3. ASSUME UNCHANGED <<rows, req>> PROVE Replaced' /\ Targeted'
  BY <1>3 DEF rows, KInv, Replaced, Matched, Counts, Targeted, OfCommitted
<1>4. UNCHANGED vars \/ DeleteTemplate => UNCHANGED <<rows, req>>
  BY DEF vars, DeleteTemplate
<1> QED BY <1>1, <1>2, <1>3, <1>4 DEF KInv, Next

-----------------------------------------------------------------------------
\* The only steps that take an employee's last committed structure away.
Ends(w) ==
  req[w].at # "idle" /\ req'[w].at = "idle" /\ req[w].op \in {"update", "delete", "fire"}

LEMMA StepKeepsPay ==
  ASSUME KInv, Next, NEW e \in Employees, NEW r \in Paying(e),
         \A w \in Workers : ~Ends(w)
  PROVE  Paying(e)' # {}
<1>0. /\ TypeOK /\ r \in Rows /\ owner[r] = e /\ e # NoEmployee
      /\ active[r] /\ live[r] /\ writer[r] = NoWorker
  BY StructureAssumption DEF KInv, IInv, Paying
<1>1. CASE UNCHANGED rows
  BY <1>0, <1>1 DEF rows, Paying
<1>2. DeleteTemplate => UNCHANGED rows
  BY DEF DeleteTemplate
<1>3. ASSUME NEW w \in Workers,
             \/ LoadCreate(w) \/ LoadUpdate(w) \/ LoadDelete(w) \/ LoadFire(w) \/ LoadApply(w)
             \/ Skip(w)
      PROVE  UNCHANGED rows
  BY <1>3 DEF LoadCreate, LoadUpdate, LoadDelete, LoadFire, LoadApply, Skip
<1>4. ASSUME NEW w \in Workers, CommitUpdate(w) \/ CommitDelete(w) \/ CommitFire(w)
      PROVE  FALSE
  <2>1. Finish(w) /\ req[w].op \in {"update", "delete", "fire"} /\ req[w].at = "loaded"
    BY <1>4 DEF CommitUpdate, CommitDelete, CommitFire, Committing
  <2>2. req'[w] = Idle
    BY <2>1, <1>0, FinishOthers
  <2> QED BY <2>1, <2>2, IdleType DEF Ends
<1>5. ASSUME NEW w \in Workers, CommitCreate(w) \/ Insert(w)
      PROVE  Paying(e)' # {}
  <2>1. PICK new \in Rows, by \in Workers \cup {NoWorker}, on \in BOOLEAN :
          Inserted(new, req[w].employee, on, by)
    <3>1. CASE CommitCreate(w)
      BY <3>1, <1>0 DEF CommitCreate, TypeOK, Request
    <3>2. CASE Insert(w)
      BY <3>2 DEF Insert
    <3> QED BY <1>5, <3>1, <3>2
  <2>2. r # new
    BY <2>1, <1>0 DEF Inserted
  <2> QED BY <2>1, <2>2, <1>0 DEF Inserted, Paying, TypeOK
<1>6. ASSUME NEW w \in Workers, Retire(w)
      PROVE  Paying(e)' # {}
  BY <1>6, <1>0, StructureAssumption DEF Retire, Paying
<1>7. ASSUME NEW w \in Workers, Rollback(w)
      PROVE  Paying(e)' # {}
  BY <1>7, <1>0, StructureAssumption DEF Rollback, Paying
<1>8. ASSUME NEW w \in Workers, CommitApply(w)
      PROVE  Paying(e)' # {}
  <2>1. /\ active' = [s \in Rows |-> active[s] /\ s \notin req[w].off]
        /\ writer' = [s \in Rows |-> IF writer[s] = w THEN NoWorker ELSE writer[s]]
        /\ UNCHANGED <<owner, live>> /\ req[w].at = "loaded"
    BY <1>8 DEF CommitApply, Committing
  <2>2. CASE r \notin req[w].off
    BY <2>1, <2>2, <1>0 DEF Paying
  <2>3. CASE r \in req[w].off
    <3>1. PICK s \in Rows : writer[s] = w /\ owner[s] = owner[r] /\ Counts(s)
      BY <2>1, <2>3 DEF KInv, Replaced, Matched
    <3>2. s \notin req[w].off
      BY <3>1, StructureAssumption DEF KInv, IInv, Uncommitted
    <3> QED BY <2>1, <3>1, <3>2, <1>0 DEF Paying, Counts
  <2> QED BY <2>2, <2>3
<1> QED BY <1>1, <1>2, <1>3, <1>4, <1>5, <1>6, <1>7, <1>8 DEF Next

\* An employee who has a committed active structure loses the last one only to an
\* update, a deletion or the end of the employment: a batch of template assignments,
\* half served, committed or failed, never leaves one without.
THEOREM BatchKeepsPay == Spec => ReplacementKeepsPay
<1>1. KInv /\ [Next]_vars =>
        [\A e \in Employees : Paying(e) # {} /\ Paying(e)' = {} =>
           \E w \in Workers : /\ req[w].at # "idle" /\ req'[w].at = "idle"
                              /\ req[w].op \in {"update", "delete", "fire"}]_vars
  BY StepKeepsPay DEF Ends
<1> QED BY <1>1, InitKInv, NextKInv, PTL DEF Spec, ReplacementKeepsPay

-----------------------------------------------------------------------------
(***************************************************************************)
(* The checks of the handlers cover the index.  LoneNeverFails is          *)
(* inductive beside KInv: until somebody else commits, no row comes into   *)
(* the view of a request but those it inserts itself.                      *)
(***************************************************************************)
\* The index counts row r in the view of w.
Seen(w, r) == Counts(r) /\ writer[r] \in {NoWorker, w} /\ r \notin req[w].off

\* The rows that would make the write of w a second active one.
Clashes(w, r) ==
  /\ Seen(w, r)
  /\ \/ req[w].op = "create" /\ req[w].asked /\ owner[r] = req[w].employee
     \/ /\ req[w].op = "update" /\ req[w].asked /\ ~req[w].was /\ live[req[w].row]
        /\ owner[r] = owner[req[w].row] /\ r # req[w].row
     \/ req[w].op = "apply" /\ req[w].at = "inserting" /\ owner[r] = req[w].employee

LEMMA RefusedMeans == ASSUME NEW w PROVE Refused(w) <=> \E r \in Rows : Clashes(w, r)
<1>1. CASE req[w].op = "create"
  BY <1>1 DEF Refused, Clashes, Seen, ActiveFor, Visible, Counts
<1>2. CASE req[w].op = "update"
  BY <1>2 DEF Refused, Clashes, Seen, ActiveFor, Visible, Counts
<1>3. CASE req[w].op = "apply"
  BY <1>3 DEF Refused, Clashes, Seen, ActiveFor, Visible, Counts
<1>4. CASE req[w].op \notin {"create", "update", "apply"}
  BY <1>4 DEF Refused, Clashes
<1> QED BY <1>1, <1>2, <1>3, <1>4

Lone == \A w \in Workers : req[w].at # "idle" /\ ~req[w].met => \A r \in Rows : ~Clashes(w, r)

\* A step of w that is not a commit, seen by another request: what w does to the rows
\* adds none to the other's view, and leaves the committed ones where they are.
Discreet(w) ==
  \A r \in Rows :
    /\ owner[r] # NoEmployee /\ writer[r] = NoWorker =>
         owner'[r] = owner[r] /\ (live'[r] => live[r])
    /\ writer'[r] # w /\ Counts(r)' =>
         writer[r] = writer'[r] /\ owner[r] = owner'[r] /\ Counts(r)

LEMMA OthersUndisturbed ==
  ASSUME KInv, Lone, NEW w \in Workers, NEW held, Hold(w, held), Discreet(w),
         req'[w].at # "idle" => \A r \in Rows : ~Clashes(w, r)'
  PROVE  Lone'
<1> SUFFICES ASSUME NEW v \in Workers \ {w}, req'[v].at # "idle", ~req'[v].met,
                    NEW r \in Rows, Clashes(v, r)'
             PROVE  FALSE
  BY DEF Lone
<1>1. req'[v] = req[v] /\ NoWorker \notin Workers
  BY StructureAssumption DEF Hold, KInv, IInv, TypeOK
<1>2. Seen(v, r)'
  BY DEF Clashes
<1>3. writer'[r] # w /\ Counts(r)'
  BY <1>1, <1>2 DEF Seen
<1>4. writer[r] = writer'[r] /\ owner[r] = owner'[r] /\ Counts(r)
  BY <1>3 DEF Discreet
<1>5. Seen(v, r)
  BY <1>1, <1>2, <1>4 DEF Seen
<1>6. req[v].op = "update" =>
        owner'[req[v].row] = owner[req[v].row] /\ (live'[req[v].row] => live[req[v].row])
  BY <1>1 DEF KInv, Targeted, OfCommitted, Discreet
<1>7. Clashes(v, r)
  BY <1>1, <1>4, <1>5, <1>6 DEF Clashes
<1> QED BY <1>1, <1>7 DEF Lone

\* After a commit, whoever is in flight has met one.
LEMMA CommitsMeet ==
  ASSUME KInv, NEW w \in Workers, Finish(w)
  PROVE  Lone'
<1>1. req'[w].at = "idle"
  BY FinishFacts, IdleType DEF KInv, IInv
<1>2. ASSUME NEW v \in Workers \ {w} PROVE req'[v].at = req[v].at /\ req'[v].met = (req[v].at # "idle")
  <2>1. req'[v] = [req[v] EXCEPT !.met = req[v].at # "idle"] /\ req[v] \in Request
    BY DEF Finish, KInv, IInv, TypeOK
  <2> QED BY <2>1 DEF Request
<1> QED BY <1>1, <1>2 DEF Lone

\* What a load has checked is what the index would refuse.
LEMMA LoadsChecked ==
  ASSUME KInv, Lone, NEW w \in Workers,
         LoadCreate(w) \/ LoadUpdate(w) \/ LoadDelete(w) \/ LoadFire(w) \/ LoadApply(w)
  PROVE  Lone'
<1>0. UNCHANGED <<owner, active, live, writer>> /\ req \in [Workers -> Request]
  BY DEF LoadCreate, LoadUpdate, LoadDelete, LoadFire, LoadApply, rows, KInv, IInv, TypeOK
<1>1. Discreet(w)
  BY <1>0 DEF Discreet, Counts
<1>2. CASE LoadCreate(w)
  <2>1. PICK e \in Employees, asked \in BOOLEAN :
          /\ req[w].at = "idle" /\ (asked => ActiveFor(w, e) = {})
          /\ Hold(w, [Idle EXCEPT !.op = "create", !.at = "loaded", !.employee = e,
                                  !.asked = asked])
    BY <1>2 DEF LoadCreate
  <2>2. /\ req'[w].op = "create" /\ req'[w].asked = asked /\ req'[w].employee = e
        /\ req'[w].off = {}
    BY <2>1, <1>0 DEF Hold, Idle
  <2>3. \A r \in Rows : r \notin req[w].off
    BY <2>1, NothingYet DEF Applying
  <2>4. \A r \in Rows : ~Clashes(w, r)'
    BY <2>1, <2>2, <2>3, <1>0 DEF Clashes, Seen, Counts, ActiveFor, Visible
  <2> QED BY <2>1, <2>4, <1>1, OthersUndisturbed
<1>3. CASE LoadUpdate(w)
  <2>1. PICK one \in Visible(w), asked \in BOOLEAN :
          /\ req[w].at = "idle"
          /\ (asked /\ ~active[one] => ActiveFor(w, owner[one]) \ {one} = {})
          /\ Hold(w, [Idle EXCEPT !.op = "update", !.at = "loaded", !.row = one,
                                  !.was = active[one], !.asked = asked])
    BY <1>3 DEF LoadUpdate
  <2>2. /\ req'[w].op = "update" /\ req'[w].asked = asked /\ req'[w].row = one
        /\ req'[w].was = active[one] /\ req'[w].off = {}
    BY <2>1, <1>0 DEF Hold, Idle
  <2>3. \A r \in Rows : r \notin req[w].off
    BY <2>1, NothingYet DEF Applying
  <2>4. \A r \in Rows : ~Clashes(w, r)'
    BY <2>1, <2>2, <2>3, <1>0 DEF Clashes, Seen, Counts, ActiveFor, Visible
  <2> QED BY <2>1, <2>4, <1>1, OthersUndisturbed
<1>4. CASE LoadDelete(w) \/ LoadFire(w) \/ LoadApply(w)
  <2>0. PICK held : Hold(w, held)
    BY <1>4, Zenon DEF LoadDelete, LoadFire, LoadApply
  <2>1. req'[w].op \in {"delete", "fire", "apply"} /\ req'[w].at = "loaded"
    <3>1. CASE LoadDelete(w)
      <4>1. PICK r \in Visible(w) :
              Hold(w, [Idle EXCEPT !.op = "delete", !.at = "loaded", !.row = r, !.was = active[r]])
        BY <3>1 DEF LoadDelete
      <4> QED BY <4>1, <1>0 DEF Hold, Idle
    <3>2. CASE LoadFire(w)
      BY <3>2, <1>0 DEF LoadFire, Hold, Idle
    <3>3. CASE LoadApply(w)
      BY <3>3, <1>0 DEF LoadApply, Hold, Idle
    <3> QED BY <1>4, <3>1, <3>2, <3>3
  <2>2. \A r \in Rows : ~Clashes(w, r)'
    BY <2>1, <1>0 DEF Clashes
  <2> QED BY <2>0, <2>2, <1>1, OthersUndisturbed
<1> QED BY <1>2, <1>3, <1>4

\* The rows that Retire saw are turned off for good or in w's view.
LEMMA RetireClears ==
  ASSUME KInv, Lone, NEW w \in Workers, Retire(w)
  PROVE  Lone'
<1> DEFINE e    == Head(req[w].todo)
           old  == ActiveFor(w, e)
           more == {r \in old : writer[r] = NoWorker}
           held == [req[w] EXCEPT !.at = "inserting", !.employee = e, !.todo = Tail(@),
                                  !.off = @ \cup more]
<1>1. /\ TypeOK /\ req[w] \in Request /\ req[w].op = "apply" /\ Hold(w, held)
      /\ active' = [r \in Rows |-> active[r] /\ ~(r \in old /\ writer[r] = w)]
      /\ UNCHANGED <<owner, live, writer>>
  BY DEF Retire, Serving, KInv, IInv, TypeOK
<1>2. /\ held.off = req[w].off \cup more /\ held.op = "apply" /\ held.at = "inserting"
      /\ held.employee = e
  BY <1>1 DEF Request
<1>3. \A r \in Rows : Seen(w, r) /\ owner[r] = e => r \in old
  BY DEF Seen, Counts, ActiveFor, Visible
<1>4. \A r \in old : writer[r] = NoWorker => r \in more
  OBVIOUS
<1> HIDE DEF e, old, more, held
<1>5. req'[w] = held
  BY <1>1 DEF Hold, TypeOK
<1>6. Discreet(w)
  BY <1>1 DEF Discreet, Counts
<1>7. ASSUME NEW r \in Rows, Clashes(w, r)' PROVE FALSE
  <2>1. Seen(w, r)' /\ owner[r] = e
    BY <1>7, <1>1, <1>2, <1>5 DEF Clashes
  <2>2. Seen(w, r) /\ active'[r] /\ r \notin more
    BY <2>1, <1>1, <1>2, <1>5 DEF Seen, Counts
  <2>3. r \in old /\ writer[r] \in {NoWorker, w}
    BY <2>1, <2>2, <1>3 DEF Seen
  <2> QED BY <2>2, <2>3, <1>1, <1>4
<1> QED BY <1>1, <1>6, <1>7, OthersUndisturbed

LEMMA FlushesClear ==
  ASSUME KInv, Lone, NEW w \in Workers, Skip(w) \/ Insert(w) \/ Rollback(w)
  PROVE  Lone'
<1>0. TypeOK /\ req[w] \in Request /\ w # NoWorker
  BY StructureAssumption DEF KInv, IInv, TypeOK
<1>1. CASE Skip(w)
  <2> DEFINE held == [req[w] EXCEPT !.todo = Tail(@)]
  <2>1. /\ Hold(w, held) /\ req[w].op = "apply" /\ req[w].at = "loaded"
        /\ UNCHANGED <<owner, active, live, writer>>
    BY <1>1 DEF Skip, Serving, rows
  <2>2. held.op = "apply" /\ held.at = "loaded"
    BY <2>1, <1>0 DEF Request
  <2> HIDE DEF held
  <2>3. req'[w] = held /\ Discreet(w)
    BY <2>1, <1>0 DEF Hold, TypeOK, Discreet, Counts
  <2>4. \A r \in Rows : ~Clashes(w, r)'
    BY <2>2, <2>3 DEF Clashes
  <2> QED BY <2>1, <2>3, <2>4, OthersUndisturbed
<1>2. CASE Insert(w)
  <2> DEFINE held == [req[w] EXCEPT !.at = "loaded", !.employee = NoEmployee]
  <2>1. Hold(w, held) /\ req[w].op = "apply"
    BY <1>2 DEF Insert
  <2>2. held.op = "apply" /\ held.at = "loaded"
    BY <2>1, <1>0 DEF Request
  <2> HIDE DEF held
  <2>3. PICK new \in Rows : Inserted(new, req[w].employee, TRUE, w)
    BY <1>2 DEF Insert
  <2>4. Discreet(w)
    BY <2>3, <1>0 DEF Inserted, TypeOK, Discreet, Counts
  <2>5. req'[w] = held
    BY <2>1, <1>0 DEF Hold, TypeOK
  <2>6. \A r \in Rows : ~Clashes(w, r)'
    BY <2>2, <2>5 DEF Clashes
  <2> QED BY <2>1, <2>4, <2>6, OthersUndisturbed
<1>3. CASE Rollback(w)
  <2>1. Hold(w, Idle) /\ Discreet(w)
    BY <1>3, <1>0 DEF Rollback, Discreet, Counts
  <2>2. req'[w].at = "idle"
    BY <2>1, <1>0, IdleType DEF Hold, TypeOK
  <2> QED BY <2>1, <2>2, OthersUndisturbed
<1> QED BY <1>1, <1>2, <1>3

LEMMA NextLone == KInv /\ Lone /\ [Next]_vars => Lone'
<1> SUFFICES ASSUME KInv, Lone, [Next]_vars PROVE Lone'
  OBVIOUS
<1>1. ASSUME NEW w \in Workers,
             \/ LoadCreate(w) \/ LoadUpdate(w) \/ LoadDelete(w) \/ LoadFire(w) \/ LoadApply(w)
             \/ Skip(w) \/ Retire(w) \/ Insert(w) \/ Rollback(w)
      PROVE  Lone'
  BY <1>1, LoadsChecked, RetireClears, FlushesClear
<1>2. ASSUME NEW w \in Workers,
             \/ CommitCreate(w) \/ CommitUpdate(w) \/ CommitDelete(w) \/ CommitFire(w)
             \/ CommitApply(w)
      PROVE  Lone'
  <2>1. Finish(w)
    BY <1>2 DEF CommitCreate, CommitUpdate, CommitDelete, CommitFire, CommitApply
  <2> QED BY <2>1, CommitsMeet
<1>3. CASE UNCHANGED <<rows, req>>
  BY <1>3 DEF rows, Lone, Clashes, Seen, Counts
<1>4. UNCHANGED vars \/ DeleteTemplate => UNCHANGED <<rows, req>>
  BY DEF vars, DeleteTemplate
<1> QED BY <1>1, <1>2, <1>3, <1>4 DEF Next

\* A request that no other commit overlaps is refused by a check of its handler or
\* served: the partial unique index never fails it, for any number of employees, rows
\* and of requests in flight that are still to commit.
THEOREM LoneStructuresServed == Spec => []LoneNeverFails
<1>1. Init => Lone
  BY IdleType DEF Init, Lone
<1>2. Lone => LoneNeverFails
  BY RefusedMeans DEF Lone, LoneNeverFails
<1> QED BY <1>1, <1>2, InitKInv, NextKInv, NextLone, PTL DEF Spec
=============================================================================
