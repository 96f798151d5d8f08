-------------------------- MODULE FiscalYearProofs --------------------------
(***************************************************************************)
(* Closing and reopening a year, for any requests, periods, accounts and   *)
(* dates: the two alternate, a closing that closes the periods leaves none *)
(* open, the result of the year is carried to retained earnings, and a     *)
(* reopening undoes its closing.                                           *)
(***************************************************************************)
EXTENDS FiscalYear, Sums

\* Where a request to close or reopen stands between taking the year's row
\* and its end.
Inside == {"revenue", "expense", "reverse", "guards", "check", "insert",
           "periods", "write_periods", "rows", "write_rows", "finish"}
OfPeriods == {"period", "status", "toggle", "row"}

OnYear(s) == Op(s) \in {"close", "reopen"} /\ pc[s] \in Inside

\* A transaction has its fields, whatever is in them.
Shaped(t) ==
  t = [sum |-> t.sum, date |-> t.date, ins |-> t.ins, entry |-> t.entry,
       rows |-> t.rows, wasClosed |-> t.wasClosed]

\* What has to be known of the types; sums are not looked at.
Tables ==
  /\ req \in [Sessions -> Requests] /\ pc \in [Sessions -> Steps]
  /\ tx = [s \in Sessions |-> tx[s]] /\ \A s \in Sessions : Shaped(tx[s])
  /\ rowLock \in [Periods -> Sessions \cup {NoSession}]
  /\ year.status \in {"open", "closed"}

\* Requests for the year take no step of those for a period.
Course(s) == Op(s) \in {"close", "reopen"} => pc[s] \notin OfPeriods

\* Whoever is inside holds the row, and the year is as it was found.
Held(s) == OnYear(s) => yearLock = s /\ YearGuard(s)

\* A closing that closes the periods holds every lock row before it ends.
RowsTaken(s) ==
  Op(s) = "close" =>
    /\ At(s, "write_rows") => tx[s].rows = Periods
    /\ At(s, "finish") /\ req[s].periods => \A p \in Periods : rowLock[p] = s

IInv == /\ Tables /\ CloseReopenAlternate
        /\ \A s \in Sessions : Course(s) /\ Held(s) /\ RowsTaken(s)

LEMMA Fields ==
  ASSUME NEW t, Shaped(t), NEW v
  PROVE  /\ Shaped([t EXCEPT !.sum = v])  /\ Shaped([t EXCEPT !.date = v])
         /\ Shaped([t EXCEPT !.ins = v])  /\ Shaped([t EXCEPT !.entry = v])
         /\ Shaped([t EXCEPT !.rows = v]) /\ Shaped([t EXCEPT !.wasClosed = v])
         /\ [t EXCEPT !.rows = v].rows = v
  BY DEF Shaped

LEMMA EmptyShaped == Shaped(EmptyTx)
  BY DEF Shaped, EmptyTx

LEMMA InitInv == Init => IInv
<1> SUFFICES ASSUME Init PROVE IInv
  OBVIOUS
<1>1. \A s \in Sessions : req[s] \in Requests /\ req[s] \in RequestType
  BY FiscalYearAssumption DEF Init, FiscalYearAssumption
<1>2. \A s \in Sessions : pc[s] = FirstStep(req[s]) /\ pc[s] \in {"probe", "period", "check", "row"}
  BY <1>1 DEF Init, FirstStep
<1>3. \A s \in Sessions : Op(s) \in {"close", "reopen"} => pc[s] = "probe"
  BY <1>1 DEF Init, FirstStep, Op
<1>4. Tables
  <2>1. pc \in [Sessions -> Steps]
    BY <1>2 DEF Init, Steps
  <2>2. ASSUME NEW s \in Sessions PROVE Shaped(tx[s])
    BY EmptyShaped, Fields DEF Init
  <2> QED BY <2>1, <2>2 DEF Init, Tables
<1>5. \A s \in Sessions : Course(s) /\ Held(s) /\ RowsTaken(s)
  BY <1>3 DEF Course, Held, RowsTaken, OnYear, Inside, OfPeriods, At
<1>6. CloseReopenAlternate
  <2>1. Done("close") = {} /\ Done("reopen") = {}
    BY <1>2 DEF Done
  <2>2. year.status = "open" /\ Cardinality({}) = 0
    BY FS_EmptySet DEF Init
  <2> QED BY <2>1, <2>2 DEF CloseReopenAlternate
<1> QED BY <1>4, <1>5, <1>6 DEF IInv

(***************************************************************************)
(* The steps                                                               *)
(***************************************************************************)
\* What a step of s leaves of req, pc and tx.
LEMMA Moves ==
  ASSUME IInv, NEW s \in Sessions, Step(s)
  PROVE  /\ req' = req
         /\ \E step \in Steps : pc' = [pc EXCEPT ![s] = step]
         /\ \E t : tx' = [tx EXCEPT ![s] = t] /\ Shaped(t)
<1>1. req' = req
  BY DEF Step, Probe, LockYear, SumRevenue, SumExpense, Reverse, Guards, CheckPeriod,
         Insert, FindPeriods, WritePeriods, FindRows, WriteRows, ReadPeriod, ReadStatus,
         Toggle, WriteRow, Commit, Abort, Committed
<1>2. \E step \in Steps : pc' = [pc EXCEPT ![s] = step]
  BY DEF Step, Probe, LockYear, SumRevenue, SumExpense, Reverse, Guards, CheckPeriod,
         Insert, FindPeriods, WritePeriods, FindRows, WriteRows, ReadPeriod, ReadStatus,
         Toggle, WriteRow, Commit, Abort, Go, CallReturns, Steps
<1>3. Shaped(tx[s]) /\ tx = [tx EXCEPT ![s] = tx[s]]
  BY DEF IInv, Tables
<1>4. \E t : tx' = [tx EXCEPT ![s] = t] /\ Shaped(t)
  <2>1. CASE UNCHANGED tx
    BY <1>3, <2>1
  <2>2. CASE Abort(s)
    BY <2>2, EmptyShaped DEF Abort
  <2>3. CASE SumRevenue(s)
    <3> DEFINE v == [a \in Results |-> IF a \in Revenue THEN YearSum(a) ELSE 0]
               t == [tx[s] EXCEPT !.sum = v]
    <3>1. tx' = [tx EXCEPT ![s] = t]
      BY <2>3 DEF SumRevenue
    <3>2. Shaped(t)
      <4> HIDE DEF v
      <4> QED BY <1>3, Fields
    <3> QED BY <3>1, <3>2
  <2>4. CASE SumExpense(s)
    <3> DEFINE v == Summed(s)
               t == [tx[s] EXCEPT !.sum = v]
    <3>1. tx' = [tx EXCEPT ![s] = t]
      BY <2>4 DEF SumExpense
    <3>2. Shaped(t)
      <4> HIDE DEF v
      <4> QED BY <1>3, Fields
    <3> QED BY <3>1, <3>2
  <2>5. CASE Reverse(s)
    <3> DEFINE v == today
               t == [tx[s] EXCEPT !.date = v]
    <3>1. tx' = [tx EXCEPT ![s] = t]
      BY <2>5 DEF Reverse
    <3>2. Shaped(t)
      <4> HIDE DEF v
      <4> QED BY <1>3, Fields
    <3> QED BY <3>1, <3>2
  <2>6. CASE Guards(s) /\ ~UNCHANGED tx
    <3>1. PICK e : tx' = [tx EXCEPT ![s] = [tx[s] EXCEPT !.entry = e]]
      BY <2>6 DEF Guards
    <3>2. Shaped([tx[s] EXCEPT !.entry = e])
      BY <1>3, Fields
    <3> QED BY <3>1, <3>2
  <2>7. CASE Insert(s)
    <3> DEFINE v == NewEntry(s)
               u == [tx[s] EXCEPT !.ins = v]
               t == [u EXCEPT !.entry = s]
    <3>1. tx' = [tx EXCEPT ![s] = t]
      BY <1>3, <2>7 DEF Insert
    <3>2. Shaped(u)
      <4> HIDE DEF v
      <4> QED BY <1>3, Fields
    <3>3. Shaped(t)
      <4> HIDE DEF u
      <4> QED BY <3>2, Fields
    <3> QED BY <3>1, <3>3
  <2>8. CASE FindPeriods(s)
    <3> DEFINE v == PeriodsOf(s)
               t == [tx[s] EXCEPT !.rows = v]
    <3>1. tx' = [tx EXCEPT ![s] = t]
      BY <2>8 DEF FindPeriods
    <3>2. Shaped(t)
      <4> HIDE DEF v
      <4> QED BY <1>3, Fields
    <3> QED BY <3>1, <3>2
  <2>9. CASE FindRows(s)
    <3> DEFINE v == RowsOf(s)
               t == [tx[s] EXCEPT !.rows = v]
    <3>1. tx' = [tx EXCEPT ![s] = t]
      BY <2>9 DEF FindRows
    <3>2. Shaped(t)
      <4> HIDE DEF v
      <4> QED BY <1>3, Fields
    <3> QED BY <3>1, <3>2
  <2>10. CASE ReadPeriod(s)
    <3> DEFINE v == closed[req[s].period]
               t == [tx[s] EXCEPT !.wasClosed = v]
    <3>1. tx' = [tx EXCEPT ![s] = t]
      BY <2>10 DEF ReadPeriod
    <3>2. Shaped(t)
      <4> HIDE DEF v
      <4> QED BY <1>3, Fields
    <3> QED BY <3>1, <3>2
  <2>11. \/ UNCHANGED tx \/ Abort(s) \/ SumRevenue(s) \/ SumExpense(s) \/ Reverse(s)
         \/ Guards(s) \/ Insert(s) \/ FindPeriods(s) \/ FindRows(s) \/ ReadPeriod(s)
    BY DEF Step, Probe, LockYear, CheckPeriod, WritePeriods, WriteRows, ReadStatus,
           Toggle, WriteRow, Commit
  <2> QED BY <2>1, <2>2, <2>3, <2>4, <2>5, <2>6, <2>7, <2>8, <2>9, <2>10, <2>11
<1> QED BY <1>1, <1>2, <1>4

\* Only the end of a request changes the year and its status, only five steps
\* the lock rows' holders.
LEMMA Frames ==
  ASSUME IInv, NEW s \in Sessions, Step(s)
  PROVE  /\ Commit(s) \/ year' = year
         /\ LockYear(s) \/ Commit(s) \/ Abort(s) \/ yearLock' = yearLock
         /\ WriteRows(s) \/ WriteRow(s) \/ Commit(s) \/ Abort(s) \/ rowLock' = rowLock
  BY DEF Step, Probe, LockYear, SumRevenue, SumExpense, Reverse, Guards, CheckPeriod,
         Insert, FindPeriods, WritePeriods, FindRows, WriteRows, ReadPeriod, ReadStatus,
         Toggle, WriteRow, Commit, Abort, Committed, Locks

LEMMA TablesStep ==
  ASSUME IInv, NEW s \in Sessions, Step(s)
  PROVE  Tables'
<1>1. req' \in [Sessions -> Requests] /\ pc' \in [Sessions -> Steps]
  BY Moves DEF IInv, Tables
<1>2. tx' = [q \in Sessions |-> tx'[q]] /\ \A q \in Sessions : Shaped(tx'[q])
  <2>1. PICK t : tx' = [tx EXCEPT ![s] = t] /\ Shaped(t)
    BY Moves
  <2> QED BY <2>1 DEF IInv, Tables
<1>3. rowLock' \in [Periods -> Sessions \cup {NoSession}]
  <2>1. CASE rowLock' = rowLock
    BY <2>1 DEF IInv, Tables
  <2>2. CASE Commit(s) \/ Abort(s)
    BY <2>2 DEF Commit, Abort, ReleaseLocks, Drop, IInv, Tables
  <2>3. CASE WriteRows(s)
    BY <2>3 DEF WriteRows, IInv, Tables
  <2>4. CASE WriteRow(s)
    BY <2>4 DEF WriteRow, IInv, Tables
  <2> QED BY <2>1, <2>2, <2>3, <2>4, Frames
<1>4. year'.status \in {"open", "closed"}
  <2>1. CASE year' = year
    BY <2>1 DEF IInv, Tables
  <2>2. CASE Commit(s) /\ Op(s) = "close"
    BY <2>2 DEF Commit
  <2>3. CASE Commit(s) /\ Op(s) = "reopen"
    BY <2>3 DEF Commit
  <2>4. CASE Commit(s) /\ Op(s) \notin {"close", "reopen"}
    BY <2>4 DEF Commit, IInv, Tables
  <2> QED BY <2>1, <2>2, <2>3, <2>4, Frames
<1> QED BY <1>1, <1>2, <1>3, <1>4 DEF Tables, Shaped

LEMMA CourseStep ==
  ASSUME IInv, NEW s \in Sessions, Step(s), NEW q \in Sessions
  PROVE  Course(q)'
<1>1. PICK step \in Steps : pc' = [pc EXCEPT ![s] = step]
  BY Moves
<1>2. Op(q)' = Op(q) /\ Course(q)
  BY Moves DEF Op, IInv
<1>3. CASE q # s
  BY <1>1, <1>2, <1>3 DEF Course, IInv, Tables
<1>4. CASE q = s
  <2>1. SUFFICES ASSUME Op(s) \in {"close", "reopen"}, pc'[s] \in OfPeriods
                 PROVE  FALSE
    BY <1>2, <1>4 DEF Course
  <2>2. pc[s] \notin OfPeriods
    BY <1>2, <1>4, <2>1 DEF Course
  <2> QED BY <2>1, <2>2
          DEF Step, Probe, LockYear, SumRevenue, SumExpense, Reverse, Guards, CheckPeriod,
              Insert, FindPeriods, WritePeriods, FindRows, WriteRows, ReadPeriod,
              ReadStatus, Toggle, WriteRow, Commit, Abort, Go, At, CallReturns,
              OfPeriods, IInv, Tables
<1> QED BY <1>3, <1>4

\* A request gets inside by taking the year's row, and no other way.
LEMMA Entering ==
  ASSUME IInv, NEW s \in Sessions, Step(s), OnYear(s)'
  PROVE  OnYear(s) \/ LockYear(s)
<1>1. Op(s)' = Op(s) /\ Op(s) \in {"close", "reopen"} /\ pc[s] \notin OfPeriods
  BY Moves DEF Op, IInv, OnYear, Course
<1>2. pc'[s] \in Inside
  BY DEF OnYear
<1> SUFFICES ASSUME pc[s] \notin Inside, ~LockYear(s) PROVE FALSE
  BY <1>1 DEF OnYear
<1> QED BY <1>1, <1>2
        DEF Step, Probe, LockYear, SumRevenue, SumExpense, Reverse, Guards, CheckPeriod,
            Insert, FindPeriods, WritePeriods, FindRows, WriteRows, ReadPeriod,
            ReadStatus, Toggle, WriteRow, Commit, Abort, Go, At, OfPeriods,
            Inside, IInv, Tables

LEMMA HeldStep ==
  ASSUME IInv, NEW s \in Sessions, Step(s), NEW q \in Sessions
  PROVE  Held(q)'
<1> SUFFICES ASSUME OnYear(q)' PROVE yearLock' = q /\ YearGuard(q)'
  BY DEF Held
<1>1. PICK step \in Steps : pc' = [pc EXCEPT ![s] = step]
  BY Moves
<1>2. Op(q)' = Op(q) /\ s # NoSession /\ q # NoSession
  BY Moves, FiscalYearAssumption DEF Op, FiscalYearAssumption
<1>3. CASE q = s
  <2>1. ~Commit(s) /\ ~Abort(s)
    BY <1>3 DEF Commit, Abort, Go, OnYear, Inside, IInv, Tables
  <2>2. year' = year
    BY <2>1, Frames
  <2>3. CASE LockYear(s)
    BY <1>2, <1>3, <2>2, <2>3 DEF LockYear, YearGuard
  <2>4. CASE ~LockYear(s)
    <3>1. OnYear(s)
      BY <1>3, <2>4, Entering
    <3> QED BY <1>2, <1>3, <2>1, <2>2, <2>4, <3>1, Frames DEF IInv, Held, YearGuard
  <2> QED BY <2>3, <2>4
<1>4. CASE q # s
  <2>1. OnYear(q) /\ yearLock = q /\ YearGuard(q)
    BY <1>1, <1>2, <1>4 DEF OnYear, IInv, Held, Tables
  <2>2. ~LockYear(s)
    BY <1>2, <1>4, <2>1 DEF LockYear, YearFree
  <2>3. yearLock' = q
    <3>1. CASE Commit(s) \/ Abort(s)
      BY <1>4, <2>1, <3>1 DEF Commit, Abort, ReleaseLocks
    <3>2. CASE yearLock' = yearLock
      BY <2>1, <3>2
    <3> QED BY <2>2, <3>1, <3>2, Frames
  <2>4. year' = year
    <3>1. CASE Commit(s)
      <4>1. ~OnYear(s)
        BY <1>4, <2>1 DEF IInv, Held
      <4>2. Op(s) \notin {"close", "reopen"}
        BY <3>1, <4>1 DEF Commit, At, OnYear, Inside
      <4> QED BY <3>1, <4>2 DEF Commit
    <3> QED BY <3>1, Frames
  <2> QED BY <1>2, <2>1, <2>3, <2>4 DEF YearGuard
<1> QED BY <1>3, <1>4

LEMMA RowsStep ==
  ASSUME IInv, NEW s \in Sessions, Step(s), NEW q \in Sessions
  PROVE  RowsTaken(q)'
<1>1. PICK step \in Steps : pc' = [pc EXCEPT ![s] = step]
  BY Moves
<1>2. req' = req /\ Op(q)' = Op(q) /\ q # NoSession
  BY Moves, FiscalYearAssumption DEF Op, FiscalYearAssumption
<1> SUFFICES ASSUME Op(q) = "close"
             PROVE  /\ pc'[q] = "write_rows" => tx'[q].rows = Periods
                    /\ pc'[q] = "finish" /\ req[q].periods => \A p \in Periods : rowLock'[p] = q
  BY <1>2 DEF RowsTaken, At
<1>3. RowsTaken(q) /\ Course(q)
  BY DEF IInv
<1>4. CASE q = s
  <2>1. ASSUME pc'[s] = "write_rows" PROVE tx'[s].rows = Periods
    <3>1. FindRows(s)
      BY <2>1 DEF Step, Probe, LockYear, SumRevenue, SumExpense, Reverse, Guards,
         CheckPeriod, Insert, FindPeriods, WritePeriods, FindRows, WriteRows, ReadPeriod,
         ReadStatus, Toggle, WriteRow, Commit, Abort, Go, CallReturns, IInv, Tables
    <3>2. tx'[s] = [tx[s] EXCEPT !.rows = RowsOf(s)]
      BY <3>1 DEF FindRows, IInv, Tables
    <3>3. tx'[s].rows = RowsOf(s)
      BY <3>2, Fields DEF IInv, Tables
    <3> QED BY <1>4, <3>3 DEF RowsOf
  <2>2. ASSUME pc'[s] = "finish", req[s].periods, NEW p \in Periods PROVE rowLock'[p] = s
    <3>1. CallReturns(s) = "periods" /\ pc[s] # "row"
      BY <1>3, <1>4, <2>2 DEF CallReturns, Course, OfPeriods
    <3>2. WriteRows(s)
      BY <2>2, <3>1 DEF Step, Probe, LockYear, SumRevenue, SumExpense, Reverse, Guards,
         CheckPeriod, Insert, FindPeriods, WritePeriods, FindRows, WriteRows, ReadPeriod,
         ReadStatus, Toggle, WriteRow, Commit, Abort, Go, At, IInv, Tables
    <3>3. tx[s].rows = Periods /\ RowsOf(s) = Periods
      BY <1>3, <1>4, <3>2 DEF RowsTaken, WriteRows, RowsOf
    <3> QED BY <3>2, <3>3 DEF WriteRows
  <2> QED BY <1>4, <2>1, <2>2
<1>5. CASE q # s
  <2>1. pc'[q] = pc[q] /\ tx'[q] = tx[q]
    BY <1>1, <1>5, Moves DEF IInv, Tables
  <2>2. ASSUME pc[q] = "finish", req[q].periods, NEW p \in Periods PROVE rowLock'[p] = q
    <3>1. rowLock[p] = q
      BY <1>3, <2>2 DEF RowsTaken, At
    <3>2. CASE WriteRows(s)
      BY <1>2, <1>5, <3>1, <3>2 DEF WriteRows
    <3>3. CASE WriteRow(s)
      BY <1>2, <1>5, <3>1, <3>3 DEF WriteRow, IInv, Tables
    <3>4. CASE Commit(s) \/ Abort(s)
      BY <1>5, <3>1, <3>4 DEF Commit, Abort, ReleaseLocks, Drop
    <3>5. CASE rowLock' = rowLock
      BY <3>1, <3>5
    <3> QED BY <3>2, <3>3, <3>4, <3>5, Frames
  <2> QED BY <1>3, <2>1, <2>2 DEF RowsTaken, At
<1> QED BY <1>4, <1>5

(***************************************************************************)
(* Counting                                                                *)
(***************************************************************************)
\* A commit adds one request to those done, and nothing else does.
LEMMA Ends ==
  ASSUME IInv, NEW s \in Sessions, Step(s), NEW op
  PROVE  /\ IsFiniteSet(Done(op)) /\ Cardinality(Done(op)) \in Nat
         /\ Commit(s) /\ Op(s) = op => Cardinality(Done(op)') = Cardinality(Done(op)) + 1
         /\ ~(Commit(s) /\ Op(s) = op) => Done(op)' = Done(op)
<1>1. PICK step \in Steps : pc' = [pc EXCEPT ![s] = step]
  BY Moves
<1>2. \A q \in Sessions : Op(q)' = Op(q)
  BY Moves DEF Op
<1>3. IsFiniteSet(Done(op)) /\ Cardinality(Done(op)) \in Nat
  <2>1. Done(op) \subseteq Sessions /\ IsFiniteSet(Sessions)
    BY FiscalYearAssumption DEF Done, FiscalYearAssumption
  <2>2. IsFiniteSet(Done(op))
    BY <2>1, FS_Subset
  <2> QED BY <2>2, FS_CardinalityType
<1>4. CASE Commit(s)
  <2>1. pc[s] = "finish" /\ pc'[s] = "ok"
    BY <1>4 DEF Commit, At, Go, IInv, Tables
  <2>2. s \notin Done(op)
    BY <2>1 DEF Done
  <2>3. Done(op)' = IF Op(s) = op THEN Done(op) \cup {s} ELSE Done(op)
    BY <1>1, <1>2, <2>1 DEF Done, IInv, Tables
  <2>4. Cardinality(Done(op) \cup {s}) = Cardinality(Done(op)) + 1
    BY <1>3, <2>2, FS_AddElement
  <2> QED BY <1>3, <1>4, <2>3, <2>4
<1>5. CASE ~Commit(s)
  <2>1. pc[s] # "ok" /\ pc'[s] # "ok"
    BY <1>5 DEF Step, Probe, LockYear, SumRevenue, SumExpense, Reverse, Guards, CheckPeriod,
         Insert, FindPeriods, WritePeriods, FindRows, WriteRows, ReadPeriod, ReadStatus,
         Toggle, WriteRow, Abort, Running, Go, At, CallReturns, IInv, Tables
  <2>2. Done(op)' = Done(op)
    BY <1>1, <1>2, <2>1 DEF Done, IInv, Tables
  <2> QED BY <1>3, <1>5, <2>2
<1> QED BY <1>4, <1>5

LEMMA CountStep ==
  ASSUME IInv, NEW s \in Sessions, Step(s)
  PROVE  CloseReopenAlternate'
<1> DEFINE c == Cardinality(Done("close"))
           r == Cardinality(Done("reopen"))
           n == IF year.status = "closed" THEN 1 ELSE 0
<1>1. c \in Nat /\ r \in Nat /\ c = r + n
  BY Ends DEF IInv, CloseReopenAlternate
<1>2. CASE Commit(s) /\ Op(s) = "close"
  <2>1. c' = c + 1 /\ r' = r
    BY <1>2, Ends
  <2>2. year.status = "open" /\ year'.status = "closed"
    BY <1>2 DEF Commit, At, IInv, Held, OnYear, Inside, YearGuard
  <2>3. n = 0 /\ n' = 1
    BY <2>2
  <2> QED BY <1>1, <2>1, <2>3 DEF CloseReopenAlternate
<1>3. CASE Commit(s) /\ Op(s) = "reopen"
  <2>1. c' = c /\ r' = r + 1
    BY <1>3, Ends
  <2>2. year.status = "closed" /\ year'.status = "open"
    BY <1>3 DEF Commit, At, IInv, Held, OnYear, Inside, YearGuard
  <2>3. n = 1 /\ n' = 0
    BY <2>2
  <2> QED BY <1>1, <2>1, <2>3 DEF CloseReopenAlternate
<1>4. CASE ~(Commit(s) /\ Op(s) \in {"close", "reopen"})
  <2>1. c' = c /\ r' = r
    BY <1>4, Ends
  <2>2. year' = year
    BY <1>4, Frames DEF Commit
  <2> QED BY <1>1, <2>1, <2>2 DEF CloseReopenAlternate
<1> QED BY <1>2, <1>3, <1>4

LEMMA NextInv == IInv /\ [Next]_vars => IInv'
<1> SUFFICES ASSUME IInv, [Next]_vars PROVE IInv'
  OBVIOUS
<1>1. CASE \E s \in Sessions : Step(s)
  BY <1>1, TablesStep, CourseStep, HeldStep, RowsStep, CountStep DEF IInv
<1>2. CASE Tick \/ UNCHANGED vars
  <2>1. UNCHANGED <<year, rowLock, yearLock, req, pc, tx>>
    BY <1>2 DEF Tick, Locks, vars
  <2>2. Tables' /\ CloseReopenAlternate'
    BY <2>1 DEF IInv, Tables, CloseReopenAlternate, Done, Op
  <2>3. \A s \in Sessions : Course(s)' /\ Held(s)' /\ RowsTaken(s)'
    BY <2>1 DEF IInv, Course, Held, RowsTaken, OnYear, YearGuard, Op, At
  <2> QED BY <2>2, <2>3 DEF IInv
<1> QED BY <1>1, <1>2 DEF Next

LEMMA Invariance == Spec => []IInv
  BY InitInv, NextInv, PTL DEF Spec

(***************************************************************************)
(* What it means                                                           *)
(***************************************************************************)
\* Closings and reopenings of a year alternate, whatever requests for it
\* overlap: fiscal.py reads the status under FOR UPDATE and holds the row to
\* the end, so that nobody changes it in between.
THEOREM ClosedThenReopened == Spec => []CloseReopenAlternate
<1>1. IInv => CloseReopenAlternate
  BY DEF IInv
<1> QED BY <1>1, Invariance, PTL

\* A closing that closes the periods leaves no date of the year open, whatever
\* toggles, locks and unlocks overlap it: it holds every period's lock row
\* when it commits.
THEOREM NoPeriodLeftOpen == Spec => CloseShutsPeriods
<1>1. ASSUME IInv, [Next]_vars
      PROVE  [~year.shut /\ year'.shut => \A d \in YearDates : ~OpenOn(d)']_vars
  <2>1. SUFFICES ASSUME ~year.shut, year'.shut, NEW d \in YearDates PROVE ~OpenOn(d)'
    OBVIOUS
  <2>2. PICK s \in Sessions : Commit(s)
    BY <1>1, <2>1, Frames DEF Next, Tick, vars
  <2>3. Op(s) = "close" /\ req[s].periods /\ pc[s] = "finish"
    <3>1. CASE Op(s) = "close"
      BY <2>1, <2>2, <3>1 DEF Commit, At
    <3>2. CASE Op(s) = "reopen"
      BY <2>1, <2>2, <3>2 DEF Commit
    <3>3. CASE Op(s) \notin {"close", "reopen"}
      BY <2>1, <2>2, <3>3 DEF Commit
    <3> QED BY <3>1, <3>2, <3>3
  <2>4. \A p \in Periods : rowLock[p] = s
    BY <1>1, <2>3 DEF IInv, RowsTaken, At
  <2>5. Shuts(s)
    BY <2>3 DEF Shuts
  <2>6. \A p \in Periods : lockRow'[p] = "locked"
    BY <2>2, <2>4, <2>5 DEF Commit
  <2>7. PICK p \in Periods : d \in DatesOf[p]
    BY <2>1 DEF YearDates
  <2> QED BY <2>6, <2>7 DEF OpenOn
<1> QED BY <1>1, Invariance, PTL DEF Spec, CloseShutsPeriods

(***************************************************************************)
(* Types                                                                   *)
(***************************************************************************)
Tx == [ sum : [Results -> Int], date : Dates, ins : Entry \cup {NoEntry},
        entry : Sessions \cup {NoSession}, rows : SUBSET Periods,
        wasClosed : BOOLEAN ]

YearEntries == {e \in Entries : je[e].ofYear}

\* Where a request stands once its call of create_journal_entry returned.
After == {"periods", "write_periods", "rows", "write_rows", "finish", "ok"}

\* The steps of each operation.
Route(s) ==
  /\ Op(s) = "post" => pc[s] \in {"check", "insert", "finish", "ok", "refused"}
  /\ Op(s) \in {"toggle", "lock", "unlock"} =>
       pc[s] \in OfPeriods \cup {"finish", "ok", "refused"}
  /\ Op(s) \in {"lock", "unlock"} => pc[s] \notin {"period", "status", "toggle"}
  /\ Op(s) = "close" => pc[s] # "reverse"
  /\ Op(s) = "close" /\ pc[s] \in {"periods", "write_periods", "rows", "write_rows"}
       => req[s].periods
  /\ Op(s) = "reopen" => pc[s] \notin {"revenue", "expense"}

\* What an entry says of the request that made it.
Made(s, e) == /\ e.ofYear <=> Op(s) # "post"
              /\ e.key = Key(s)

Written(s) ==
  /\ tx[s].ins # NoEntry => /\ pc[s] \in After /\ tx[s].entry = s
                            /\ Made(s, tx[s].ins) /\ tx[s].ins.status = "posted"
                            /\ Op(s) \in {"close", "reopen", "post"}
  /\ OnYear(s) /\ pc[s] \in After =>
       \/ tx[s].entry \in YearEntries
       \/ tx[s].entry = s /\ tx[s].ins # NoEntry
  /\ je[s] # NoEntry => /\ pc[s] = "ok" /\ Made(s, je[s])
                        /\ Op(s) = "post" => je[s].status = "posted"

Locked(s) ==
  /\ \A p \in Periods : periodLock[p] = s =>
       /\ Op(s) \in {"close", "reopen", "toggle"}
       /\ pc[s] \in {"rows", "write_rows", "row", "finish"}
       /\ Op(s) = "toggle" => p = req[s].period
       /\ Op(s) = "close" => req[s].periods
  /\ Op(s) = "toggle" /\ pc[s] = "finish" => rowLock[req[s].period] = s

Closing == IF year.status = "closed" THEN year.closing \in YearEntries
                                     ELSE year.closing = NoSession

JInv == /\ IInv /\ TypeOK /\ Closing
        /\ \A s \in Sessions : Route(s) /\ Written(s) /\ Locked(s)

LEMMA Asked ==
  ASSUME req \in [Sessions -> Requests], NEW s \in Sessions
  PROVE  /\ req[s] \in RequestType
         /\ Op(s) \in {"close", "reopen", "toggle", "lock", "unlock", "post"}
         /\ Op(s) \in {"close", "reopen"} => req[s].key \in Keys \cup {NoKey}
         /\ Op(s) = "close" => req[s].periods \in BOOLEAN
         /\ Op(s) \in {"toggle", "lock", "unlock"} => req[s].period \in Periods
         /\ Op(s) = "post" => req[s].date \in Dates /\ req[s].lines \in Lines
         /\ Key(s) \in Keys \cup {NoKey}
<1>1. req[s] \in RequestType
  BY FiscalYearAssumption DEF FiscalYearAssumption
<1>2. Op(s) = req[s].op
  BY DEF Op
<1>3. /\ Op(s) \in {"close", "reopen", "toggle", "lock", "unlock", "post"}
      /\ Op(s) \in {"close", "reopen"} => req[s].key \in Keys \cup {NoKey}
      /\ Op(s) = "close" => req[s].periods \in BOOLEAN
      /\ Op(s) \in {"toggle", "lock", "unlock"} => req[s].period \in Periods
      /\ Op(s) = "post" => req[s].date \in Dates /\ req[s].lines \in Lines
  BY <1>1, <1>2 DEF RequestType
<1> QED BY <1>1, <1>3 DEF Key

LEMMA Bounds ==
  /\ EndDate \in Dates /\ YearDates \subseteq Dates /\ Dates \subseteq Int
  /\ IsFiniteSet(Results) /\ IsFiniteSet(Accounts) /\ IsFiniteSet(Sessions)
  /\ NoSession \notin Sessions
<1>1. YearDates \subseteq Dates
  BY FiscalYearAssumption DEF FiscalYearAssumption, YearDates
<1>2. IsFiniteSet({Retained, Cash})
  <2>1. IsFiniteSet({Retained})
    BY FS_Singleton
  <2>2. IsFiniteSet({Retained} \cup {Cash})
    BY <2>1, FS_AddElement
  <2>3. {Retained} \cup {Cash} = {Retained, Cash}
    OBVIOUS
  <2> QED BY <2>2, <2>3
<1>3. IsFiniteSet(Accounts)
  BY <1>2, FiscalYearAssumption, FS_Union DEF FiscalYearAssumption, Accounts
<1> QED BY <1>1, <1>3, FiscalYearAssumption DEF FiscalYearAssumption

LEMMA EmptyTyped == EmptyTx \in Tx /\ EmptyTx.ins = NoEntry
  BY Bounds DEF EmptyTx, Tx

LEMMA InitJ == Init => JInv
<1> SUFFICES ASSUME Init PROVE JInv
  OBVIOUS
<1>1. req \in [Sessions -> Requests]
  BY DEF Init
<1>2. \A s \in Sessions : pc[s] = FirstStep(req[s]) /\ je[s] = NoEntry
  BY DEF Init
<1>3. \A s \in Sessions : tx[s] \in Tx /\ tx[s].ins = NoEntry
  <2> TAKE s \in Sessions
  <2>1. CASE Op(s) = "post"
    <3>1. req[s].date \in Dates
      BY <1>1, <2>1, Asked
    <3>2. tx[s] = [EmptyTx EXCEPT !.date = req[s].date]
      BY <2>1 DEF Init
    <3> QED BY <3>1, <3>2, EmptyTyped DEF Tx
  <2>2. CASE Op(s) # "post"
    BY <2>2, EmptyTyped DEF Init
  <2> QED BY <2>1, <2>2
<1>4. \A s \in Sessions : Route(s)
  <2> TAKE s \in Sessions
  <2>1. pc[s] = FirstStep(req[s]) /\ Op(s) = req[s].op
    BY <1>2 DEF Op
  <2>2. Op(s) \in {"close", "reopen", "toggle", "lock", "unlock", "post"}
    BY <1>1, Asked
  <2> QED BY <2>1, <2>2 DEF Route, FirstStep, OfPeriods
<1>5. \A s \in Sessions : pc[s] \in {"probe", "period", "check", "row"}
  BY <1>2 DEF FirstStep
<1>6. \A s \in Sessions : Written(s) /\ Locked(s)
  BY <1>2, <1>3, <1>5, Bounds DEF Written, Locked, After, Init
<1>7. Entries = {} /\ year.closing = NoSession /\ year.status = "open"
  BY <1>2 DEF Entries, Init
<1>8. TypeOK
  <2>1. pc \in [Sessions -> Steps]
    BY <1>5 DEF Init, Steps
  <2>2. tx \in [Sessions -> Tx]
    BY <1>3 DEF Init
  <2>3. je \in [Sessions -> Entry \cup {NoEntry}]
    BY DEF Init
  <2>4. /\ year \in [ status : {"open", "closed"}, shut : BOOLEAN,
                      closing : Sessions \cup {NoSession} ]
        /\ year.status = "closed" <=> year.closing \in Entries
    BY <1>7 DEF Init
  <2>5. /\ closed \in [Periods -> BOOLEAN]
        /\ lockRow \in [Periods -> {"absent", "locked", "unlocked"}]
        /\ \A p \in Periods : closed[p] => lockRow[p] # "absent"
    BY DEF Init
  <2>6. /\ today \in Dates
        /\ yearLock \in Sessions \cup {NoSession}
        /\ numLock \in Sessions \cup {NoSession}
        /\ periodLock \in [Periods -> Sessions \cup {NoSession}]
        /\ rowLock \in [Periods -> Sessions \cup {NoSession}]
        /\ unread \subseteq Sessions
    BY Bounds DEF Init
  <2> QED BY <1>1, <2>1, <2>2, <2>3, <2>4, <2>5, <2>6 DEF TypeOK, Tx
<1> QED BY <1>4, <1>6, <1>7, <1>8, InitInv DEF JInv, Closing

\* Accounts have one kind.
LEMMA Kinds ==
  /\ Revenue \cap Expense = {} /\ Results = Revenue \cup Expense
  /\ Retained \notin Results /\ Cash \notin Results /\ Retained # Cash
  /\ Accounts = Results \cup {Retained, Cash}
  BY FiscalYearAssumption DEF FiscalYearAssumption, Results, Accounts

\* The closing entry by kind of account.
LEMMA ClosingByKind ==
  ASSUME NEW sum \in [Results -> Int]
  PROVE  /\ ClosingLines(sum) \in Lines
         /\ \A a \in Revenue : ClosingLines(sum)[a] = Abs(sum[a])
         /\ \A a \in Expense : ClosingLines(sum)[a] = -Abs(sum[a])
         /\ ClosingLines(sum)[Retained] = SumFunctionOnSet(sum, Results)
         /\ ClosingLines(sum)[Cash] = 0
<1>1. \A a \in Results : sum[a] \in Int /\ Abs(sum[a]) \in Int
  BY DEF Abs
<1>2. SumFunctionOnSet(sum, Results) \in Int
  BY <1>1, Bounds, SumType
<1> DEFINE line(a) == CASE a \in Revenue -> Abs(sum[a])
                        [] a \in Expense -> -Abs(sum[a])
                        [] a = Retained  -> SumFunctionOnSet(sum, Results)
                        [] OTHER         -> 0
<1>3. ClosingLines(sum) = [a \in Accounts |-> line(a)]
  BY DEF ClosingLines
<1>4. \A a \in Revenue : a \in Accounts /\ line(a) = Abs(sum[a])
  BY Kinds
<1>5. \A a \in Expense : a \in Accounts /\ line(a) = -Abs(sum[a])
  BY Kinds
<1>6. Retained \in Accounts /\ line(Retained) = SumFunctionOnSet(sum, Results)
  BY Kinds
<1>7. Cash \in Accounts /\ line(Cash) = 0
  BY Kinds
<1> HIDE DEF line
<1>8. \A a \in Accounts : line(a) \in Int
  <2>1. \A a \in Revenue : line(a) \in Int
    BY <1>1, <1>4, Kinds
  <2>2. \A a \in Expense : line(a) \in Int
    BY <1>1, <1>5, Kinds
  <2> QED BY <2>1, <2>2, <1>2, <1>6, <1>7, Kinds
<1> QED BY <1>3, <1>4, <1>5, <1>6, <1>7, <1>8 DEF Lines

LEMMA ReversedTyped ==
  ASSUME NEW lines \in Lines
  PROVE  Reversed(lines) \in Lines /\ \A a \in Accounts : Reversed(lines)[a] = -lines[a]
  BY DEF Reversed, Lines

LEMMA Typing ==
  ASSUME JInv, NEW s \in Sessions
  PROVE  /\ tx \in [Sessions -> Tx] /\ tx[s] \in Tx
         /\ pc \in [Sessions -> Steps] /\ req \in [Sessions -> Requests]
         /\ je \in [Sessions -> Entry \cup {NoEntry}]
         /\ Route(s) /\ Written(s) /\ Locked(s)
  BY DEF JInv, TypeOK, Tx

LEMMA Posting ==
  ASSUME JInv, NEW s \in Sessions, pc[s] \in {"guards", "insert"}
  PROVE  /\ NewEntry(s) \in Entry
         /\ NewEntry(s).status = "posted" /\ NewEntry(s).date = tx[s].date
         /\ Made(s, NewEntry(s))
         /\ Op(s) \in {"close", "reopen", "post"}
         /\ Op(s) = "close" => NewEntry(s).lines = ClosingLines(tx[s].sum)
         /\ Op(s) = "reopen" => NewEntry(s).lines = Reversed(je[year.closing].lines)
<1>1. /\ tx[s] \in Tx /\ Route(s) /\ req \in [Sessions -> Requests]
      /\ Op(s) \in {"close", "reopen", "post"}
  <2>1. Op(s) \in {"close", "reopen", "toggle", "lock", "unlock", "post"}
    BY Typing, Asked
  <2> QED BY <2>1, Typing DEF Route, OfPeriods
<1>2. /\ NewEntry(s).status = "posted" /\ NewEntry(s).date = tx[s].date
      /\ NewEntry(s).key = Key(s) /\ NewEntry(s).ofYear = (Op(s) # "post")
  BY DEF NewEntry
<1>3. Key(s) \in Keys \cup {NoKey} /\ tx[s].date \in Dates
  BY <1>1, Asked DEF Tx
<1>4. CASE Op(s) = "close"
  <2>1. NewEntry(s).lines = ClosingLines(tx[s].sum)
    BY <1>4 DEF NewEntry
  <2>2. ClosingLines(tx[s].sum) \in Lines
    BY <1>1, ClosingByKind DEF Tx
  <2>3. NewEntry(s) \in Entry
    BY <1>2, <1>3, <1>4, <2>1, <2>2 DEF NewEntry, Entry
  <2> QED BY <1>2, <1>4, <2>1, <2>3 DEF Made
<1>5. CASE Op(s) = "reopen"
  <2>1. NewEntry(s).lines = Reversed(je[year.closing].lines)
    BY <1>5 DEF NewEntry
  <2>2. year.status = "closed"
    BY <1>5 DEF JInv, IInv, Held, OnYear, Inside, YearGuard
  <2>3. year.closing \in Sessions /\ je[year.closing] \in Entry
    BY <2>2, Typing DEF JInv, Closing, YearEntries, Entries
  <2>4. Reversed(je[year.closing].lines) \in Lines
    BY <2>3, ReversedTyped DEF Entry
  <2>5. NewEntry(s) \in Entry
    BY <1>2, <1>3, <1>5, <2>1, <2>4 DEF NewEntry, Entry
  <2> QED BY <1>2, <1>5, <2>1, <2>5 DEF Made
<1>6. CASE Op(s) = "post"
  <2>1. NewEntry(s).lines = req[s].lines
    BY <1>6 DEF NewEntry
  <2>2. req[s].lines \in Lines
    BY <1>1, <1>6, Asked
  <2>3. NewEntry(s) \in Entry
    BY <1>2, <1>3, <1>6, <2>1, <2>2 DEF NewEntry, Entry
  <2> QED BY <1>2, <1>6, <2>1, <2>3 DEF Made
<1> QED BY <1>1, <1>4, <1>5, <1>6

\* A sum over the year is a number.
LEMMA Summing ==
  ASSUME JInv
  PROVE  \A a \in Results : YearSum(a) \in Int
<1> TAKE a \in Results
<1> DEFINE S == {e \in Entries : je[e].status = "posted" /\ je[e].date \in YearDates}
<1>1. IsFiniteSet(S)
  <2>1. S \subseteq Sessions
    BY DEF Entries
  <2> QED BY <2>1, Bounds, FS_Subset
<1>2. \A e \in S : OnAccount(a)[e] \in Int
  <2> TAKE e \in S
  <2>1. e \in Entries /\ je[e] \in Entry
    BY Typing DEF Entries
  <2>2. je[e].lines \in Lines /\ a \in Accounts
    BY <2>1, Kinds DEF Entry
  <2> QED BY <2>1, <2>2 DEF OnAccount, Lines
<1>3. SumFunctionOnSet(OnAccount(a), S) \in Int
  <2> HIDE DEF S
  <2> QED BY <1>1, <1>2, SumType
<1>4. Opening[a] \in Int
  BY FiscalYearAssumption DEF FiscalYearAssumption
<1> QED BY <1>3, <1>4 DEF YearSum

\* What else only some steps change.
LEMMA Leaves ==
  ASSUME NEW s \in Sessions, Step(s)
  PROVE  /\ Commit(s) \/ UNCHANGED <<year, closed, lockRow, je>>
         /\ today' = today
         /\ SumRevenue(s) \/ unread' = unread
         /\ WritePeriods(s) \/ Toggle(s) \/ Commit(s) \/ Abort(s) \/ periodLock' = periodLock
         /\ Insert(s) \/ Commit(s) \/ Abort(s) \/ numLock' = numLock
         /\ \/ Abort(s) \/ SumRevenue(s) \/ SumExpense(s) \/ Reverse(s) \/ Guards(s)
            \/ Insert(s) \/ FindPeriods(s) \/ FindRows(s) \/ ReadPeriod(s) \/ tx' = tx
  BY DEF Step, Probe, LockYear, SumRevenue, SumExpense, Reverse, Guards, CheckPeriod,
         Insert, FindPeriods, WritePeriods, FindRows, WriteRows, ReadPeriod, ReadStatus,
         Toggle, WriteRow, Commit, Abort, Committed, Locks

\* One step moves one request.
LEMMA Alone ==
  ASSUME JInv, NEW s \in Sessions, Step(s)
  PROVE  /\ \E step \in Steps : pc' = [pc EXCEPT ![s] = step]
         /\ \A q \in Sessions \ {s} : pc'[q] = pc[q] /\ tx'[q] = tx[q]
         /\ \A q \in Sessions : Op(q)' = Op(q) /\ Key(q)' = Key(q)
         /\ req' = req
<1>1. IInv
  BY DEF JInv
<1>2. req' = req
  BY <1>1, Moves
<1>3. PICK step \in Steps : pc' = [pc EXCEPT ![s] = step]
  BY <1>1, Moves
<1>4. \A q \in Sessions \ {s} : tx'[q] = tx[q]
  BY <1>1, Moves, Typing
<1>5. \A q \in Sessions : Op(q)' = Op(q) /\ Key(q)' = Key(q)
  BY <1>2 DEF Op, Key
<1> QED BY <1>2, <1>3, <1>4, <1>5, Typing

\* What each step makes of the transaction.
LEMMA TxStep ==
  ASSUME JInv, NEW s \in Sessions, Step(s)
  PROVE  /\ tx' \in [Sessions -> Tx]
         /\ tx'[s].ins = IF Insert(s) THEN NewEntry(s)
                         ELSE IF Abort(s) THEN NoEntry ELSE tx[s].ins
         /\ tx'[s].entry = s \/ ~Insert(s)
         /\ Guards(s) \/ Insert(s) \/ Abort(s) \/ tx'[s].entry = tx[s].entry
<1>1. tx \in [Sessions -> Tx] /\ tx[s] \in Tx
  BY Typing
<1>2. Abort(s) => pc'[s] = "refused"
  BY Typing DEF Abort, Go
<1>3. Insert(s) => pc'[s] # "refused"
  BY Typing DEF Insert, Go, CallReturns
<1>4. CASE tx' = tx /\ ~Insert(s) /\ ~Abort(s)
  BY <1>1, <1>4
<1>5. CASE Abort(s)
  BY <1>1, <1>2, <1>3, <1>5, EmptyTyped DEF Abort
<1>6. CASE Insert(s)
  <2>1. pc[s] = "insert"
    BY <1>6 DEF Insert, At
  <2>2. NewEntry(s) \in Entry
    BY <2>1, Posting
  <2>3. tx' = [tx EXCEPT ![s] = [tx[s] EXCEPT !.ins = NewEntry(s), !.entry = s]]
    BY <1>1, <1>6 DEF Insert
  <2> QED BY <1>1, <1>6, <2>2, <2>3 DEF Tx
<1>7. CASE SumRevenue(s)
  <2> DEFINE v == [a \in Results |-> IF a \in Revenue THEN YearSum(a) ELSE 0]
  <2>1. v \in [Results -> Int]
    BY Summing
  <2>2. tx' = [tx EXCEPT ![s] = [tx[s] EXCEPT !.sum = v]] /\ pc[s] = "revenue"
    BY <1>1, <1>7 DEF SumRevenue, At
  <2> HIDE DEF v
  <2>3. ~Insert(s) /\ ~Abort(s)
    BY <1>2, <1>7, <2>2, Typing DEF Insert, At, SumRevenue, Go
  <2> QED BY <1>1, <2>1, <2>2, <2>3 DEF Tx
<1>8. CASE SumExpense(s)
  <2>1. Summed(s) \in [Results -> Int]
    BY <1>1, Summing DEF Summed, Tx
  <2>2. tx' = [tx EXCEPT ![s] = [tx[s] EXCEPT !.sum = Summed(s)]] /\ pc[s] = "expense"
    BY <1>1, <1>8 DEF SumExpense, At
  <2>3. ~Insert(s) /\ ~Abort(s)
    BY <1>2, <1>8, <2>2, Typing DEF Insert, At, SumExpense, Go
  <2> QED BY <1>1, <2>1, <2>2, <2>3 DEF Tx
<1>9. CASE Reverse(s)
  <2>1. today \in Dates
    BY DEF JInv, TypeOK
  <2>2. tx' = [tx EXCEPT ![s] = [tx[s] EXCEPT !.date = today]] /\ pc[s] = "reverse"
    BY <1>1, <1>9 DEF Reverse, At
  <2>3. ~Insert(s) /\ ~Abort(s)
    BY <1>2, <1>9, <2>2, Typing DEF Insert, At, Reverse, Go
  <2> QED BY <1>1, <2>1, <2>2, <2>3 DEF Tx
<1>10. CASE Guards(s)
  <2>1. ~Insert(s) /\ ~Abort(s)
    BY <1>2, <1>10, Typing DEF Insert, At, Guards, Go, CallReturns
  <2>2. CASE tx' = tx
    BY <1>1, <2>1, <2>2
  <2>3. CASE tx' # tx
    <3>1. PICK e \in Sessions : tx' = [tx EXCEPT ![s] = [tx[s] EXCEPT !.entry = e]]
      BY <1>1, <1>10, <2>3 DEF Guards, WithKey, OfYear, Entries
    <3> QED BY <1>1, <1>10, <2>1, <3>1 DEF Tx
  <2> QED BY <2>2, <2>3
<1>11. CASE FindPeriods(s)
  <2>1. PeriodsOf(s) \subseteq Periods
    BY DEF PeriodsOf
  <2>2. tx' = [tx EXCEPT ![s] = [tx[s] EXCEPT !.rows = PeriodsOf(s)]] /\ pc[s] = "periods"
    BY <1>1, <1>11 DEF FindPeriods, At
  <2>3. ~Insert(s) /\ ~Abort(s)
    BY <1>2, <1>11, <2>2, Typing DEF Insert, At, FindPeriods, Go
  <2> QED BY <1>1, <2>1, <2>2, <2>3 DEF Tx
<1>12. CASE FindRows(s)
  <2>1. RowsOf(s) \subseteq Periods
    BY DEF RowsOf, LockedRows
  <2>2. tx' = [tx EXCEPT ![s] = [tx[s] EXCEPT !.rows = RowsOf(s)]] /\ pc[s] = "rows"
    BY <1>1, <1>12 DEF FindRows, At
  <2>3. ~Insert(s) /\ ~Abort(s)
    BY <1>2, <1>12, <2>2, Typing DEF Insert, At, FindRows, Go
  <2> QED BY <1>1, <2>1, <2>2, <2>3 DEF Tx
<1>13. CASE ReadPeriod(s)
  <2>1. Op(s) = "toggle"
    <3>1. pc[s] = "period"
      BY <1>13 DEF ReadPeriod, At
    <3>2. Op(s) \in {"close", "reopen", "toggle", "lock", "unlock", "post"}
      BY Typing, Asked
    <3> QED BY <3>1, <3>2, Typing DEF Route, JInv, IInv, Course, OfPeriods
  <2>2. closed[req[s].period] \in BOOLEAN
    BY <2>1, Typing, Asked DEF JInv, TypeOK
  <2>3. tx' = [tx EXCEPT ![s] = [tx[s] EXCEPT !.wasClosed = closed[req[s].period]]]
        /\ pc[s] = "period"
    BY <1>1, <1>13 DEF ReadPeriod, At
  <2>4. ~Insert(s) /\ ~Abort(s)
    BY <1>2, <1>13, <2>3, Typing DEF Insert, At, ReadPeriod, Go
  <2> QED BY <1>1, <2>2, <2>3, <2>4 DEF Tx
<1> QED BY <1>4, <1>5, <1>6, <1>7, <1>8, <1>9, <1>10, <1>11, <1>12, <1>13, Leaves

LEMMA RouteStep ==
  ASSUME JInv, NEW s \in Sessions, Step(s), NEW q \in Sessions
  PROVE  Route(q)'
<1>1. PICK step \in Steps : pc' = [pc EXCEPT ![s] = step]
  BY Alone
<1>2. Op(q)' = Op(q) /\ req' = req /\ Route(q) /\ pc \in [Sessions -> Steps]
  BY Alone, Typing
<1>3. CASE q # s
  BY <1>1, <1>2, <1>3 DEF Route
<1>4. CASE q = s
  <2>1. Op(s) \in {"close", "reopen", "toggle", "lock", "unlock", "post"}
    BY Typing, Asked
  <2>2. CASE Op(s) \in {"close", "reopen"}
    BY <1>2, <1>4, <2>2
       DEF Route, Step, Probe, LockYear, SumRevenue, SumExpense, Reverse, Guards,
           CheckPeriod, Insert, FindPeriods, WritePeriods, FindRows, WriteRows, ReadPeriod,
           ReadStatus, Toggle, WriteRow, Commit, Abort, Go, At, CallReturns, OfPeriods,
           Running
  <2>3. CASE Op(s) = "post"
    BY <1>2, <1>4, <2>3
       DEF Route, Step, Probe, LockYear, SumRevenue, SumExpense, Reverse, Guards,
           CheckPeriod, Insert, FindPeriods, WritePeriods, FindRows, WriteRows, ReadPeriod,
           ReadStatus, Toggle, WriteRow, Commit, Abort, Go, At, CallReturns, OfPeriods,
           Running
  <2>4. CASE Op(s) \in {"toggle", "lock", "unlock"}
    BY <1>2, <1>4, <2>4
       DEF Route, Step, Probe, LockYear, SumRevenue, SumExpense, Reverse, Guards,
           CheckPeriod, Insert, FindPeriods, WritePeriods, FindRows, WriteRows, ReadPeriod,
           ReadStatus, Toggle, WriteRow, Commit, Abort, Go, At, CallReturns, OfPeriods,
           Running
  <2> QED BY <2>1, <2>2, <2>3, <2>4
<1> QED BY <1>3, <1>4

\* Only a request under way takes a step.
LEMMA Going ==
  ASSUME NEW s \in Sessions, Step(s)
  PROVE  /\ pc[s] \notin {"ok", "replayed", "refused"}
         /\ pc[s] # "finish" => Commit(s) \/ Abort(s) \/ ~Commit(s)
         /\ Commit(s) => pc[s] = "finish"
         /\ pc[s] = "finish" => Commit(s) \/ Abort(s)
  BY DEF Step, Probe, LockYear, SumRevenue, SumExpense, Reverse, Guards, CheckPeriod,
         Insert, FindPeriods, WritePeriods, FindRows, WriteRows, ReadPeriod, ReadStatus,
         Toggle, WriteRow, Commit, Abort, Running, At

\* A commit adds its entry and, when it reopens the year, voids another.
LEMMA Posted ==
  ASSUME JInv, NEW s \in Sessions, Commit(s)
  PROVE  /\ je[s] = NoEntry /\ je'[s] = tx[s].ins /\ pc[s] = "finish" /\ pc'[s] = "ok"
         /\ je' = [e \in Sessions |-> je'[e]]
         /\ \A e \in Sessions \ {s} :
              je'[e] = IF Op(s) = "reopen" /\ e = year.closing
                       THEN [je[e] EXCEPT !.status = "void"] ELSE je[e]
         /\ Op(s) = "reopen" => year.status = "closed" /\ year.closing \in YearEntries \ {s}
<1>1. pc[s] = "finish" /\ pc'[s] = "ok" /\ je[s] = NoEntry
  BY Typing DEF Commit, At, Go, Written
<1>2. je' = [e \in Sessions |-> IF e = s THEN tx[s].ins
                                ELSE IF Op(s) = "reopen" /\ e = year.closing
                                     THEN [je[e] EXCEPT !.status = "void"] ELSE je[e]]
  BY DEF Commit
<1>3. ASSUME Op(s) = "reopen" PROVE year.status = "closed" /\ year.closing \in YearEntries \ {s}
  <2>1. year.status = "closed"
    BY <1>1, <1>3 DEF JInv, IInv, Held, OnYear, Inside, YearGuard
  <2>2. year.closing \in YearEntries
    BY <2>1 DEF JInv, Closing
  <2> QED BY <1>1, <2>1, <2>2 DEF YearEntries, Entries
<1> QED BY <1>1, <1>2, <1>3

LEMMA Kept ==
  ASSUME JInv, NEW s \in Sessions, Step(s)
  PROVE  /\ je' \in [Sessions -> Entry \cup {NoEntry}]
         /\ \A e \in Entries : /\ e \in Entries' /\ e # s
                               /\ je'[e].ofYear = je[e].ofYear /\ je'[e].key = je[e].key
                               /\ je'[e].date = je[e].date /\ je'[e].lines = je[e].lines
                               /\ je'[e].status = je[e].status \/ e \in YearEntries
         /\ YearEntries \subseteq YearEntries'
<1>1. CASE Commit(s)
  <2>1. ASSUME NEW e \in Entries
        PROVE  /\ je'[e] \in Entry /\ e # s
               /\ je'[e].ofYear = je[e].ofYear /\ je'[e].key = je[e].key
               /\ je'[e].date = je[e].date /\ je'[e].lines = je[e].lines
               /\ je'[e].status = je[e].status \/ e \in YearEntries
    <3>1. je[e] \in Entry /\ e \in Sessions \ {s}
      BY <1>1, <2>1, Posted, Typing DEF Entries
    <3>2. CASE Op(s) = "reopen" /\ e = year.closing
      <4>1. je'[e] = [je[e] EXCEPT !.status = "void"] /\ e \in YearEntries
        BY <1>1, <3>1, <3>2, Posted
      <4> QED BY <3>1, <4>1 DEF Entry
    <3>3. CASE ~(Op(s) = "reopen" /\ e = year.closing)
      <4>1. je'[e] = je[e]
        BY <1>1, <3>1, <3>3, Posted
      <4> QED BY <3>1, <4>1
    <3> QED BY <3>2, <3>3
  <2>2. \A e \in Entries : e \in Entries'
    BY <2>1, NoEntryAssumption DEF Entries, NoEntryAssumption
  <2>3. tx[s].ins \in Entry \cup {NoEntry}
    BY Typing DEF Tx
  <2>4. ASSUME NEW e \in Sessions PROVE je'[e] \in Entry \cup {NoEntry}
    <3>1. CASE e = s
      BY <1>1, <2>3, <3>1, Posted
    <3>2. CASE e # s /\ je[e] # NoEntry
      BY <2>1, <3>2 DEF Entries
    <3>3. CASE e # s /\ je[e] = NoEntry
      <4>1. ~(Op(s) = "reopen" /\ e = year.closing)
        BY <1>1, <3>3, Posted DEF YearEntries, Entries
      <4> QED BY <1>1, <3>3, <4>1, Posted
    <3> QED BY <3>1, <3>2, <3>3
  <2>5. je' \in [Sessions -> Entry \cup {NoEntry}]
    BY <1>1, <2>4, Posted
  <2>6. YearEntries \subseteq YearEntries'
    BY <2>1, <2>2 DEF YearEntries
  <2> QED BY <2>1, <2>2, <2>5, <2>6
<1>2. CASE ~Commit(s)
  <2>1. je' = je
    BY <1>2, Leaves
  <2>2. \A e \in Entries : e # s
    BY Going, Typing DEF Entries, Written
  <2> QED BY <2>1, <2>2, Typing DEF Entries, YearEntries
<1> QED BY <1>1, <1>2

\* The step that ends the call of create_journal_entry.
LEMMA Returning ==
  ASSUME JInv, NEW s \in Sessions, Step(s), OnYear(s)', pc'[s] \in After
  PROVE  Guards(s) \/ Insert(s) \/ (pc[s] \in After /\ OnYear(s))
<1>1. /\ pc \in [Sessions -> Steps] /\ Op(s) \in {"close", "reopen"} /\ Course(s)
  BY Typing, Alone DEF OnYear, JInv, IInv
<1>2. pc'[s] \in {"periods", "write_periods", "rows", "write_rows", "finish"}
  BY DEF OnYear, Inside, After
<1>3. pc[s] \notin OfPeriods
  BY <1>1 DEF Course
<1> QED BY <1>1, <1>2, <1>3
        DEF Step, Probe, LockYear, SumRevenue, SumExpense, Reverse, Guards,
            CheckPeriod, Insert, FindPeriods, WritePeriods, FindRows, WriteRows, ReadPeriod,
            ReadStatus, Toggle, WriteRow, Commit, Abort, Go, At, OfPeriods, OnYear, Inside,
            After

\* A guard hands a request of the year an entry of the year.
LEMMA Hits ==
  ASSUME JInv, NEW s \in Sessions
  PROVE  WithKey(Key(s)) \subseteq YearEntries /\ \A d : OfYear(d) \subseteq YearEntries
<1>1. ASSUME NEW e \in WithKey(Key(s)) PROVE e \in YearEntries
  <2>1. e \in Entries /\ Key(s) # NoKey /\ je[e].key = Key(s)
    BY DEF WithKey
  <2>2. e \in Sessions /\ Made(e, je[e])
    BY <2>1, Typing DEF Entries, Written
  <2>3. Op(e) # "post"
    BY <2>1, <2>2 DEF Made, Key
  <2> QED BY <2>1, <2>2, <2>3 DEF Made, YearEntries
<1> QED BY <1>1 DEF OfYear, YearEntries

LEMMA WrittenStep ==
  ASSUME JInv, NEW s \in Sessions, Step(s), NEW q \in Sessions
  PROVE  Written(q)'
<1>1. /\ Op(q)' = Op(q) /\ Key(q)' = Key(q) /\ Written(q)
  BY Alone, Typing
<1>2. CASE q # s
  <2>1. pc'[q] = pc[q] /\ tx'[q] = tx[q]
    BY <1>2, Alone
  <2>2. tx'[q].ins # NoEntry => /\ pc'[q] \in After /\ tx'[q].entry = q
                                /\ Made(q, tx'[q].ins) /\ tx'[q].ins.status = "posted"
                                /\ Op(q) \in {"close", "reopen", "post"}
    BY <1>1, <2>1 DEF Written, Made
  <2>3. OnYear(q)' /\ pc'[q] \in After =>
          tx'[q].entry \in YearEntries' \/ (tx'[q].entry = q /\ tx'[q].ins # NoEntry)
    BY <1>1, <2>1, Kept DEF Written, OnYear
  <2>4. ASSUME je'[q] # NoEntry
        PROVE  /\ pc'[q] = "ok" /\ Made(q, je'[q])
               /\ Op(q)' = "post" => je'[q].status = "posted"
    <3>1. q \in Entries
      <4>1. CASE Commit(s) /\ je[q] = NoEntry
        <5>1. ~(Op(s) = "reopen" /\ q = year.closing)
          BY <4>1, Posted DEF YearEntries, Entries
        <5> QED BY <1>2, <2>4, <4>1, <5>1, Posted
      <4>2. CASE ~Commit(s)
        BY <2>4, <4>2, Leaves DEF Entries
      <4> QED BY <4>1, <4>2 DEF Entries
    <3>2. /\ pc[q] = "ok" /\ Made(q, je[q])
          /\ Op(q) = "post" => je[q].status = "posted"
      BY <1>1, <3>1 DEF Written, Entries
    <3>3. /\ je'[q].ofYear = je[q].ofYear /\ je'[q].key = je[q].key
          /\ je'[q].status = je[q].status \/ q \in YearEntries
      BY <3>1, Kept
    <3>4. q \in YearEntries => Op(q) # "post"
      <4>1. q \in YearEntries => je[q].ofYear
        BY DEF YearEntries
      <4>2. je[q].ofYear <=> Op(q) # "post"
        BY <3>2 DEF Made
      <4> QED BY <4>1, <4>2
    <3>5. Made(q, je'[q])
      <4>1. /\ je[q].ofYear <=> Op(q) # "post"
            /\ je[q].key = Key(q)
        BY <3>2 DEF Made
      <4>2. je'[q].ofYear <=> Op(q) # "post"
        BY <3>3, <4>1, Zenon
      <4> QED BY <3>3, <4>1, <4>2 DEF Made
    <3> QED BY <1>1, <2>1, <3>2, <3>3, <3>4, <3>5
  <2> QED BY <1>1, <2>2, <2>3, <2>4 DEF Written, Made
<1>3. CASE q = s
  <2>1. tx'[s].ins # NoEntry => /\ pc'[s] \in After /\ tx'[s].entry = s
                                /\ Made(s, tx'[s].ins) /\ tx'[s].ins.status = "posted"
                                /\ Op(s) \in {"close", "reopen", "post"}
    <3>1. CASE Insert(s)
      <4>1. pc[s] = "insert"
        BY <3>1 DEF Insert, At
      <4>2. pc'[s] \in After
        BY <3>1, Typing DEF Insert, Go, CallReturns, After
      <4> QED BY <1>1, <1>3, <3>1, <4>1, <4>2, TxStep, Posting
    <3>2. CASE Abort(s) /\ ~Insert(s)
      BY <3>2, TxStep
    <3>3. CASE ~Abort(s) /\ ~Insert(s)
      <4>1. SUFFICES ASSUME tx'[s].ins # NoEntry
                     PROVE  /\ pc'[s] \in After /\ tx'[s].entry = s
                            /\ Made(s, tx'[s].ins) /\ tx'[s].ins.status = "posted"
                            /\ Op(s) \in {"close", "reopen", "post"}
        OBVIOUS
      <4>2. tx'[s].ins = tx[s].ins
        BY <3>3, TxStep
      <4>3. /\ pc[s] \in After /\ tx[s].entry = s
            /\ Made(s, tx[s].ins) /\ tx[s].ins.status = "posted"
            /\ Op(s) \in {"close", "reopen", "post"}
        BY <1>1, <1>3, <4>1, <4>2 DEF Written
      <4>4. pc[s] # "guards"
        BY <4>3 DEF After
      <4>5. tx'[s].entry = s
        BY <3>3, <4>3, <4>4, TxStep DEF Guards, At
      <4>6. pc'[s] \in After
        BY <3>3, <4>3, Typing
           DEF Step, Probe, LockYear, SumRevenue, SumExpense, Reverse, Guards,
               CheckPeriod, Insert, FindPeriods, WritePeriods, FindRows, WriteRows,
               ReadPeriod, ReadStatus, Toggle, WriteRow, Commit, Go, At, After
      <4> QED BY <1>1, <1>3, <4>2, <4>3, <4>5, <4>6
    <3> QED BY <3>1, <3>2, <3>3
  <2>2. ASSUME OnYear(s)', pc'[s] \in After
        PROVE  tx'[s].entry \in YearEntries' \/ (tx'[s].entry = s /\ tx'[s].ins # NoEntry)
    <3>1. CASE Insert(s)
      <4>1. NewEntry(s) \in Entry
        BY <3>1, Posting DEF Insert, At
      <4> QED BY <3>1, <4>1, TxStep, NoEntryAssumption DEF NoEntryAssumption
    <3>2. CASE Guards(s)
      <4>2. PICK e \in WithKey(Key(s)) \cup OfYear(tx[s].date) :
                   tx' = [tx EXCEPT ![s].entry = e]
        BY <3>2, <2>2, Typing DEF Guards, Go, After
      <4>3. e \in YearEntries /\ tx'[s].entry = e
        BY <4>2, Hits, Typing DEF Tx
      <4> QED BY <4>3, Kept
    <3>3. CASE ~Insert(s) /\ ~Guards(s)
      <4>1. pc[s] \in After /\ OnYear(s)
        BY <2>2, <3>3, Returning
      <4>2. ~Abort(s)
        BY <2>2, Typing DEF Abort, Go, After
      <4>3. tx'[s].entry = tx[s].entry /\ tx'[s].ins = tx[s].ins
        BY <3>3, <4>2, TxStep
      <4> QED BY <1>1, <1>3, <4>1, <4>3, Kept DEF Written
    <3> QED BY <3>1, <3>2, <3>3
  <2>3. ASSUME je'[s] # NoEntry
        PROVE  /\ pc'[s] = "ok" /\ Made(s, je'[s])
               /\ Op(s)' = "post" => je'[s].status = "posted"
    <3>1. Commit(s)
      BY <2>3, Leaves, Going, <1>1, <1>3 DEF Written
    <3> QED BY <1>1, <1>3, <2>3, <3>1, Posted DEF Written
  <2> QED BY <1>1, <1>3, <2>1, <2>2, <2>3 DEF Written, Made
<1> QED BY <1>2, <1>3

\* A request's own locks are taken and given back by its own steps.
LEMMA OthersLocks ==
  ASSUME JInv, NEW s \in Sessions, Step(s), NEW q \in Sessions \ {s}, NEW p \in Periods
  PROVE  /\ periodLock'[p] = q <=> periodLock[p] = q
         /\ rowLock[p] = q => rowLock'[p] = q
<1>1. /\ periodLock \in [Periods -> Sessions \cup {NoSession}]
      /\ rowLock \in [Periods -> Sessions \cup {NoSession}]
      /\ q # NoSession /\ IInv
  BY Bounds DEF JInv, TypeOK
<1>2. periodLock'[p] = q <=> periodLock[p] = q
  <2>1. CASE WritePeriods(s)
    BY <1>1, <2>1 DEF WritePeriods
  <2>2. CASE Toggle(s)
    BY <1>1, <2>2 DEF Toggle
  <2>3. CASE Commit(s) \/ Abort(s)
    BY <1>1, <2>3 DEF Commit, Abort, ReleaseLocks, Drop
  <2>4. CASE periodLock' = periodLock
    BY <2>4
  <2> QED BY <2>1, <2>2, <2>3, <2>4, Leaves
<1>3. rowLock[p] = q => rowLock'[p] = q
  <2>1. CASE WriteRows(s)
    BY <1>1, <2>1 DEF WriteRows
  <2>2. CASE WriteRow(s)
    BY <1>1, <2>2 DEF WriteRow
  <2>3. CASE Commit(s) \/ Abort(s)
    BY <1>1, <2>3 DEF Commit, Abort, ReleaseLocks, Drop
  <2>4. CASE rowLock' = rowLock
    BY <2>4
  <2> QED BY <1>1, <2>1, <2>2, <2>3, <2>4, Frames
<1> QED BY <1>2, <1>3

LEMMA LockedStep ==
  ASSUME JInv, NEW s \in Sessions, Step(s), NEW q \in Sessions
  PROVE  Locked(q)'
<1>1. /\ Op(q)' = Op(q) /\ req' = req /\ Locked(q) /\ Route(q)
      /\ pc \in [Sessions -> Steps] /\ req \in [Sessions -> Requests]
      /\ periodLock \in [Periods -> Sessions \cup {NoSession}]
      /\ rowLock \in [Periods -> Sessions \cup {NoSession}]
      /\ Op(q) \in {"close", "reopen", "toggle", "lock", "unlock", "post"}
      /\ q # NoSession
  BY Alone, Typing, Asked, Bounds DEF JInv, TypeOK
<1> DEFINE Holds(p) == /\ Op(q) \in {"close", "reopen", "toggle"}
                       /\ pc'[q] \in {"rows", "write_rows", "row", "finish"}
                       /\ Op(q) = "toggle" => p = req[q].period
                       /\ Op(q) = "close" => req[q].periods
<1> SUFFICES /\ \A p \in Periods : periodLock'[p] = q => Holds(p)
             /\ Op(q) = "toggle" /\ pc'[q] = "finish" => rowLock'[req[q].period] = q
  BY <1>1 DEF Locked
<1>2. CASE q # s
  <2>1. pc'[q] = pc[q]
    BY <1>2, Alone
  <2>2. Op(q) = "toggle" => req[q].period \in Periods
    BY <1>1, Asked
  <2> QED BY <1>1, <1>2, <2>1, <2>2, OthersLocks DEF Locked
<1>3. CASE q = s
  <2>1. ASSUME NEW p \in Periods, periodLock'[p] = s PROVE Holds(p)
    <3>1. CASE WritePeriods(s)
      <4>1. pc[s] = "write_periods" /\ pc'[s] = "rows"
        BY <1>1, <1>3, <3>1 DEF WritePeriods, At, Go
      <4>2. Op(s) \in {"close", "reopen"}
        BY <1>1, <1>3, <4>1 DEF Route, OfPeriods
      <4> QED BY <1>1, <1>3, <4>1, <4>2 DEF Route
    <3>2. CASE Toggle(s)
      <4>1. pc[s] = "toggle" /\ pc'[s] = "row"
        BY <1>1, <1>3, <3>2 DEF Toggle, At, Go
      <4>2. Op(s) = "toggle"
        BY <1>1, <1>3, <4>1 DEF Route, JInv, IInv, Course, OfPeriods
      <4>3. p = req[s].period
        BY <1>1, <1>3, <2>1, <3>2, <4>1 DEF Toggle, Locked
      <4> QED BY <1>3, <4>1, <4>2, <4>3
    <3>3. CASE Commit(s) \/ Abort(s)
      BY <1>1, <1>3, <2>1, <3>3 DEF Commit, Abort, ReleaseLocks, Drop
    <3>4. CASE periodLock' = periodLock /\ ~Commit(s) /\ ~Abort(s)
      <4>1. /\ Op(s) \in {"close", "reopen", "toggle"}
            /\ pc[s] \in {"rows", "write_rows", "row", "finish"}
            /\ Op(s) = "toggle" => p = req[s].period
            /\ Op(s) = "close" => req[s].periods
        BY <1>1, <1>3, <2>1, <3>4 DEF Locked
      <4>2. pc'[s] \in {"rows", "write_rows", "row", "finish"}
        BY <1>1, <1>3, <3>4, <4>1
           DEF Step, Probe, LockYear, SumRevenue, SumExpense, Reverse, Guards,
               CheckPeriod, Insert, FindPeriods, WritePeriods, FindRows, WriteRows,
               ReadPeriod, ReadStatus, Toggle, WriteRow, Go, At
      <4> QED BY <1>3, <4>1, <4>2
    <3> QED BY <3>1, <3>2, <3>3, <3>4, Leaves
  <2>2. ASSUME Op(s) = "toggle", pc'[s] = "finish" PROVE rowLock'[req[s].period] = s
    <3>1. pc[s] \in OfPeriods
      <4>1. pc[s] \in OfPeriods \cup {"finish", "ok", "refused"}
        BY <1>1, <1>3, <2>2 DEF Route
      <4>2. pc[s] # "finish"
        BY <1>1, <1>3, <2>2, Going DEF Commit, Abort, Go
      <4> QED BY <4>1, <4>2, Going
    <3>2. WriteRow(s)
      BY <1>1, <1>3, <2>2, <3>1
         DEF Step, Probe, LockYear, SumRevenue, SumExpense, Reverse, Guards, CheckPeriod,
             Insert, FindPeriods, WritePeriods, FindRows, WriteRows, ReadPeriod,
             ReadStatus, Toggle, Commit, Abort, Go, At, OfPeriods
    <3>3. req[s].period \in Periods
      BY <1>1, <1>3, <2>2, Asked
    <3> QED BY <1>1, <3>2, <3>3 DEF WriteRow
  <2> QED BY <1>3, <2>1, <2>2
<1> QED BY <1>2, <1>3

LEMMA ClosingStep ==
  ASSUME JInv, NEW s \in Sessions, Step(s)
  PROVE  /\ Closing'
         /\ year' \in [ status : {"open", "closed"}, shut : BOOLEAN,
                        closing : Sessions \cup {NoSession} ]
<1>1. /\ year \in [ status : {"open", "closed"}, shut : BOOLEAN,
                    closing : Sessions \cup {NoSession} ]
      /\ Closing /\ req \in [Sessions -> Requests] /\ tx[s] \in Tx /\ Written(s)
      /\ Op(s) \in {"close", "reopen", "toggle", "lock", "unlock", "post"}
  BY Typing, Asked DEF JInv, TypeOK
<1>2. CASE year' = year
  BY <1>1, <1>2, Kept DEF Closing
<1>3. CASE Commit(s) /\ Op(s) = "close"
  <2>1. year' = [status |-> "closed", shut |-> req[s].periods, closing |-> tx[s].entry]
    BY <1>3 DEF Commit
  <2>2. req[s].periods \in BOOLEAN /\ tx[s].entry \in Sessions \cup {NoSession}
    BY <1>1, <1>3, Asked DEF Tx
  <2>3. pc[s] = "finish" /\ OnYear(s) /\ pc[s] \in After
    BY <1>3, Posted DEF OnYear, Inside, After
  <2>4. CASE tx[s].entry \in YearEntries
    BY <2>1, <2>2, <2>4, Kept DEF Closing
  <2>5. CASE tx[s].entry = s /\ tx[s].ins # NoEntry
    <3>1. je'[s] = tx[s].ins /\ Made(s, tx[s].ins)
      BY <1>1, <1>3, <2>5, Posted DEF Written
    <3>2. s \in YearEntries'
      BY <1>3, <2>5, <3>1 DEF YearEntries, Entries, Made
    <3> QED BY <2>1, <2>2, <2>5, <3>2 DEF Closing
  <2> QED BY <1>1, <2>3, <2>4, <2>5 DEF Written
<1>4. CASE Commit(s) /\ Op(s) = "reopen"
  <2>1. year' = [status |-> "open", shut |-> FALSE, closing |-> NoSession]
    BY <1>4 DEF Commit
  <2> QED BY <2>1 DEF Closing
<1>5. CASE Commit(s) /\ Op(s) \notin {"close", "reopen"}
  <2>1. year' = year
    BY <1>5 DEF Commit
  <2> QED BY <1>2, <2>1
<1> QED BY <1>2, <1>3, <1>4, <1>5, Leaves

\* A closed period always has its lock row.
LEMMA PeriodsStep ==
  ASSUME JInv, NEW s \in Sessions, Step(s)
  PROVE  /\ closed' \in [Periods -> BOOLEAN]
         /\ lockRow' \in [Periods -> {"absent", "locked", "unlocked"}]
         /\ \A p \in Periods : closed'[p] => lockRow'[p] # "absent"
<1>1. /\ closed \in [Periods -> BOOLEAN]
      /\ lockRow \in [Periods -> {"absent", "locked", "unlocked"}]
      /\ \A p \in Periods : closed[p] => lockRow[p] # "absent"
      /\ req \in [Sessions -> Requests] /\ tx[s] \in Tx /\ Locked(s)
  BY Typing DEF JInv, TypeOK
<1>2. CASE ~Commit(s)
  BY <1>1, <1>2, Leaves
<1>3. CASE Commit(s)
  <2>1. Shuts(s) \in BOOLEAN
    BY DEF Shuts
  <2>2. closed' = [p \in Periods |-> IF periodLock[p] = s THEN Shuts(s) ELSE closed[p]]
    BY <1>3 DEF Commit
  <2>3. lockRow' = [p \in Periods |-> IF rowLock[p] # s THEN lockRow[p]
                                      ELSE IF Shuts(s) THEN "locked" ELSE "unlocked"]
    BY <1>3 DEF Commit
  <2>4. ASSUME NEW p \in Periods, closed'[p] PROVE lockRow'[p] # "absent"
    <3>1. CASE rowLock[p] = s
      BY <2>3, <3>1
    <3>2. CASE periodLock[p] # s
      BY <1>1, <2>2, <2>3, <2>4, <3>2
    <3>3. CASE periodLock[p] = s
      <4>1. Shuts(s) /\ pc[s] = "finish"
        BY <1>3, <2>2, <2>4, <3>3, Posted
      <4>2. /\ Op(s) \in {"close", "toggle"}
            /\ Op(s) = "toggle" => p = req[s].period
            /\ Op(s) = "close" => req[s].periods
        BY <1>1, <3>3, <4>1 DEF Locked, Shuts
      <4>3. CASE Op(s) = "close"
        BY <3>1, <4>1, <4>2, <4>3 DEF JInv, IInv, RowsTaken, At
      <4>4. CASE Op(s) = "toggle"
        BY <1>1, <3>1, <4>1, <4>2, <4>4 DEF Locked
      <4> QED BY <4>2, <4>3, <4>4
    <3> QED BY <3>2, <3>3
  <2> QED BY <1>1, <2>1, <2>2, <2>3, <2>4
<1> QED BY <1>2, <1>3

LEMMA TypeStep ==
  ASSUME JInv, NEW s \in Sessions, Step(s)
  PROVE  TypeOK'
<1>1. TypeOK
  BY DEF JInv
<1>2. /\ req' \in [Sessions -> Requests] /\ pc' \in [Sessions -> Steps]
      /\ today' \in Dates /\ unread' \subseteq Sessions
  <2>1. req' = req /\ today' = today
    BY Alone, Leaves
  <2>2. pc' \in [Sessions -> Steps]
    BY Alone, Typing
  <2>3. SumRevenue(s) => unread' \subseteq Sessions
    BY DEF SumRevenue
  <2> QED BY <1>1, <2>1, <2>2, <2>3, Leaves DEF TypeOK
<1>3. /\ yearLock' \in Sessions \cup {NoSession}
      /\ numLock' \in Sessions \cup {NoSession}
  <2>1. IInv
    BY DEF JInv
  <2>2. Commit(s) \/ Abort(s) => /\ yearLock' \in Sessions \cup {NoSession}
                                 /\ numLock' \in Sessions \cup {NoSession}
    BY <1>1 DEF Commit, Abort, ReleaseLocks, TypeOK
  <2>3. LockYear(s) => yearLock' = s
    BY DEF LockYear
  <2>4. Insert(s) => numLock' = s
    BY DEF Insert
  <2> QED BY <1>1, <2>1, <2>2, <2>3, <2>4, Frames, Leaves DEF TypeOK
<1>4. /\ periodLock' \in [Periods -> Sessions \cup {NoSession}]
      /\ rowLock' \in [Periods -> Sessions \cup {NoSession}]
  <2>1. IInv
    BY DEF JInv
  <2>2. Commit(s) \/ Abort(s) => /\ periodLock' \in [Periods -> Sessions \cup {NoSession}]
                                 /\ rowLock' \in [Periods -> Sessions \cup {NoSession}]
    BY <1>1 DEF Commit, Abort, ReleaseLocks, Drop, TypeOK
  <2>3. WritePeriods(s) \/ Toggle(s) => periodLock' \in [Periods -> Sessions \cup {NoSession}]
    BY <1>1 DEF WritePeriods, Toggle, TypeOK
  <2>4. WriteRows(s) \/ WriteRow(s) => rowLock' \in [Periods -> Sessions \cup {NoSession}]
    BY <1>1 DEF WriteRows, WriteRow, TypeOK
  <2> QED BY <1>1, <2>1, <2>2, <2>3, <2>4, Frames, Leaves DEF TypeOK
<1>5. year'.status = "closed" <=> year'.closing \in Entries'
  <2>1. NoSession \notin Entries' /\ YearEntries' \subseteq Entries'
    BY Bounds DEF Entries, YearEntries
  <2>2. year'.status \in {"open", "closed"}
    BY ClosingStep
  <2> QED BY <2>1, <2>2, ClosingStep DEF Closing
<1> QED BY <1>2, <1>3, <1>4, <1>5, Kept, TxStep, ClosingStep, PeriodsStep DEF TypeOK, Tx

LEMMA NextJ == JInv /\ [Next]_vars => JInv'
<1> SUFFICES ASSUME JInv, [Next]_vars PROVE JInv'
  OBVIOUS
<1>0. IInv'
  BY NextInv DEF JInv
<1>1. CASE \E s \in Sessions : Step(s)
  <2>1. PICK s \in Sessions : Step(s)
    BY <1>1
  <2>2. TypeOK' /\ Closing'
    BY <2>1, TypeStep, ClosingStep
  <2>3. \A q \in Sessions : Route(q)' /\ Written(q)' /\ Locked(q)'
    BY <2>1, RouteStep, WrittenStep, LockedStep
  <2> QED BY <1>0, <2>2, <2>3 DEF JInv
<1>2. CASE Tick \/ UNCHANGED vars
  <2>1. /\ UNCHANGED <<year, closed, lockRow, je, yearLock, periodLock, rowLock, numLock,
                       req, pc, tx, unread>>
        /\ today' \in Dates
    BY <1>2 DEF Tick, Locks, vars, JInv, TypeOK
  <2>2. Entries' = Entries /\ YearEntries' = YearEntries
    BY <2>1 DEF Entries, YearEntries
  <2>3. TypeOK' /\ Closing'
    BY <2>1, <2>2 DEF JInv, TypeOK, Closing
  <2>4. ASSUME NEW q \in Sessions PROVE Route(q)' /\ Written(q)' /\ Locked(q)'
    <3>1. Op(q)' = Op(q) /\ Key(q)' = Key(q) /\ OnYear(q)' = OnYear(q)
      BY <2>1 DEF Op, Key, OnYear
    <3>2. Route(q) /\ Written(q) /\ Locked(q)
      BY Typing
    <3>3. Route(q)' /\ Locked(q)'
      BY <2>1, <3>1, <3>2 DEF Route, Locked
    <3>4. Written(q)'
      BY <2>1, <2>2, <3>1, <3>2 DEF Written, Made
    <3> QED BY <3>3, <3>4
  <2> QED BY <1>0, <2>3, <2>4 DEF JInv
<1> QED BY <1>1, <1>2 DEF Next

LEMMA InvarianceJ == Spec => []JInv
  BY InitJ, NextJ, PTL DEF Spec

\* Every variable keeps its type; a year is closed if and only if it has the
\* closing entry it names; and a closed period has its lock row, which
\* toggle_fiscal_period relies on.
THEOREM TypeCorrect == Spec => []TypeOK
<1>1. JInv => TypeOK
  BY DEF JInv
<1> QED BY <1>1, InvarianceJ, PTL

(***************************************************************************)
(* The result                                                              *)
(***************************************************************************)
\* What was posted to an account in the year, closing entries left out.
Posts == {e \in Entries : Op(e) = "post" /\ je[e].date \in YearDates}
Booked(a) == Opening[a] + SumFunctionOnSet(OnAccount(a), Posts)

\* x made the year's first closing entry or is about to.
Bears(x) ==
  /\ Op(x) = "close"
  /\ \/ OnYear(x) /\ pc[x] # "revenue" /\ Done("close") = {}
     \/ year.status = "closed" /\ Done("close") = {x}

\* What x summed is what was posted, unless somebody it did not read posted.
Summary(x) ==
  Bears(x) =>
    /\ Sessions \ Entries \subseteq unread
    /\ unread \cap Done("post") = {} =>
         \A a \in Results : a \in Revenue \/ pc[x] # "expense"
                            => tx[x].sum[a] = Booked(a)

\* What the first closing is about to post.
Draft(x) ==
  Op(x) = "close" =>
    /\ tx[x].date = EndDate
    /\ OnYear(x) /\ Done("close") = {} =>
         /\ pc[x] \in {"check", "insert"} \cup After => Balanced(ClosingLines(tx[x].sum))
         /\ pc[x] \in After => /\ tx[x].ins # NoEntry /\ tx[x].ins.date = EndDate
                               /\ tx[x].ins.lines = ClosingLines(tx[x].sum)

\* What the first reopening is about to post.
Undo(x) ==
  \A c \in Sessions :
    /\ Op(x) = "reopen" /\ OnYear(x) /\ pc[x] \in After
    /\ Done("close") = {c} /\ tx[x].date # EndDate
    => tx[x].ins # NoEntry /\ tx[x].ins.lines = Reversed(je[c].lines)

Unclosed == Done("close") = {} => YearEntries = {}

ClosedOnce(c) ==
  Done("close") = {c} /\ year.status = "closed" =>
    /\ year.closing = c /\ YearEntries = {c}
    /\ je[c].date = EndDate /\ je[c].status = "posted"
    /\ je[c].lines = ClosingLines(tx[c].sum) /\ Balanced(je[c].lines)

Undone(c) ==
  /\ Done("close") = {c} /\ year.status = "open"
  /\ \A q \in Done("reopen") : tx[q].date # EndDate
  => \E r \in Sessions : /\ r # c /\ YearEntries = {c, r} /\ Op(r) = "reopen"
                         /\ je[c].status = "void"
                         /\ je[r].lines = Reversed(je[c].lines)

KInv == /\ JInv /\ Unclosed
        /\ \A s \in Sessions : /\ Summary(s) /\ Draft(s) /\ Undo(s)
                               /\ ClosedOnce(s) /\ Undone(s)

\* A commit adds its request to those done, and nothing else does.
LEMMA DoneStep ==
  ASSUME JInv, NEW s \in Sessions, Step(s), NEW op
  PROVE  /\ Done(op)' = IF Commit(s) /\ Op(s) = op THEN Done(op) \cup {s} ELSE Done(op)
         /\ s \notin Done(op)
<1>1. PICK step \in Steps : pc' = [pc EXCEPT ![s] = step]
  BY Alone
<1>2. (\A q \in Sessions : Op(q)' = Op(q)) /\ pc \in [Sessions -> Steps]
  BY Alone, Typing
<1>3. pc[s] # "ok"
  BY Going
<1>4. s \notin Done(op)
  BY <1>3 DEF Done
<1>5. CASE Commit(s)
  <2>1. pc'[s] = "ok"
    BY <1>5, Posted
  <2> QED BY <1>1, <1>2, <1>4, <1>5, <2>1 DEF Done
<1>6. CASE ~Commit(s)
  <2>1. pc'[s] # "ok"
    BY <1>2, <1>3, <1>6
       DEF Step, Probe, LockYear, SumRevenue, SumExpense, Reverse, Guards, CheckPeriod,
           Insert, FindPeriods, WritePeriods, FindRows, WriteRows, ReadPeriod, ReadStatus,
           Toggle, WriteRow, Abort, Running, Go, At, CallReturns
  <2> QED BY <1>1, <1>2, <1>3, <1>4, <1>6, <2>1 DEF Done
<1> QED BY <1>5, <1>6

\* One request at a time is past the year's row.
LEMMA Exclusive ==
  ASSUME JInv, NEW s \in Sessions, NEW q \in Sessions, OnYear(s), OnYear(q)
  PROVE  s = q
  BY DEF JInv, IInv, Held

\* A commit of the year's operations is one of its holder.
LEMMA YearCommit ==
  ASSUME JInv, NEW s \in Sessions, Commit(s), Op(s) \in {"close", "reopen"}
  PROVE  /\ OnYear(s) /\ pc[s] = "finish" /\ pc[s] \in After /\ YearGuard(s)
         /\ tx' = tx
         /\ Op(s) = "close" => /\ year.status = "open" /\ year'.status = "closed"
                               /\ year'.closing = tx[s].entry
         /\ Op(s) = "reopen" => year.status = "closed" /\ year'.status = "open"
<1>1. pc[s] = "finish"
  BY Posted
<1>2. OnYear(s) /\ pc[s] \in After
  BY <1>1 DEF OnYear, Inside, After
<1>3. YearGuard(s)
  BY <1>2 DEF JInv, IInv, Held
<1>4. Op(s) = "close" => year' = [status |-> "closed", shut |-> req[s].periods,
                                  closing |-> tx[s].entry]
  BY DEF Commit
<1>5. Op(s) = "reopen" => year' = [status |-> "open", shut |-> FALSE,
                                   closing |-> NoSession]
  BY DEF Commit
<1>6. tx' = tx
  BY DEF Commit
<1> QED BY <1>1, <1>2, <1>3, <1>4, <1>5, <1>6 DEF YearGuard

LEMMA YearKept ==
  ASSUME JInv, NEW s \in Sessions, Step(s), ~(Commit(s) /\ Op(s) \in {"close", "reopen"})
  PROVE  year' = year
<1>1. CASE Commit(s)
  BY <1>1 DEF Commit
<1>2. CASE ~Commit(s)
  BY <1>2, Leaves
<1> QED BY <1>1, <1>2

\* Entries come with the commit of their request.
LEMMA Entrants ==
  ASSUME JInv, NEW s \in Sessions, Step(s)
  PROVE  /\ Entries' \subseteq Entries \cup {s}
         /\ s \in Entries' => Commit(s) /\ je'[s] = tx[s].ins /\ tx[s].ins # NoEntry
         /\ s \notin Entries
         /\ ~(Commit(s) /\ Op(s) = "reopen") => \A e \in Entries : je'[e] = je[e]
<1>1. CASE ~Commit(s)
  <2>1. je' = je /\ s \notin Entries
    BY <1>1, Leaves, Kept
  <2> QED BY <1>1, <2>1 DEF Entries
<1>2. CASE Commit(s)
  <2>1. ASSUME NEW e \in Entries', e # s PROVE e \in Entries
    <3>1. e \in Sessions /\ je'[e] # NoEntry
      BY <2>1 DEF Entries
    <3>2. CASE Op(s) = "reopen" /\ e = year.closing
      BY <1>2, <3>2, Posted DEF YearEntries
    <3>3. CASE ~(Op(s) = "reopen" /\ e = year.closing)
      <4>1. je'[e] = je[e]
        BY <1>2, <2>1, <3>1, <3>3, Posted
      <4> QED BY <3>1, <4>1 DEF Entries
    <3> QED BY <3>2, <3>3
  <2>2. s \in Entries' => je'[s] = tx[s].ins /\ tx[s].ins # NoEntry
    BY <1>2, Posted DEF Entries
  <2>3. s \notin Entries
    BY <1>2, Posted DEF Entries
  <2>4. ASSUME Op(s) # "reopen", NEW e \in Entries PROVE je'[e] = je[e]
    <3>1. e \in Sessions \ {s}
      BY <2>3 DEF Entries
    <3> QED BY <1>2, <2>4, <3>1, Posted
  <2> QED BY <1>2, <2>1, <2>2, <2>3, <2>4
<1> QED BY <1>1, <1>2

LEMMA YearEntrants ==
  ASSUME JInv, NEW s \in Sessions, Step(s)
  PROVE  YearEntries' = IF /\ Commit(s) /\ Op(s) \in {"close", "reopen"}
                           /\ tx[s].ins # NoEntry
                        THEN YearEntries \cup {s} ELSE YearEntries
<1>1. /\ Written(s)
      /\ Op(s) \in {"close", "reopen", "toggle", "lock", "unlock", "post"}
  BY Typing, Asked
<1>2. \A e \in YearEntries' \ {s} : e \in YearEntries
  <2> TAKE e \in YearEntries' \ {s}
  <2>1. e \in Entries' /\ je'[e].ofYear
    BY DEF YearEntries
  <2>2. e \in Entries
    BY <2>1, Entrants
  <2>3. je'[e].ofYear = je[e].ofYear
    BY <2>2, Kept
  <2>4. je[e].ofYear
    BY <2>1, <2>3, Zenon
  <2> QED BY <2>2, <2>4 DEF YearEntries
<1>3. s \notin YearEntries
  BY Entrants DEF YearEntries
<1>4. s \in YearEntries' => Commit(s) /\ tx[s].ins # NoEntry /\ Op(s) \in {"close", "reopen"}
  <2>1. SUFFICES ASSUME s \in YearEntries'
                 PROVE  Commit(s) /\ tx[s].ins # NoEntry /\ Op(s) \in {"close", "reopen"}
    OBVIOUS
  <2>2. s \in Entries' /\ je'[s].ofYear
    BY <2>1 DEF YearEntries
  <2>3. Commit(s) /\ je'[s] = tx[s].ins /\ tx[s].ins # NoEntry
    BY <2>2, Entrants
  <2>4. Made(s, tx[s].ins)
    BY <1>1, <2>3 DEF Written
  <2>5. Op(s) # "post" /\ pc[s] \in After
    BY <1>1, <2>2, <2>3, <2>4 DEF Made, Written
  <2>6. Op(s) \notin {"toggle", "lock", "unlock"}
    BY <1>1, <2>3 DEF Written
  <2> QED BY <1>1, <2>3, <2>5, <2>6
<1>5. ASSUME Commit(s), tx[s].ins # NoEntry, Op(s) \in {"close", "reopen"}
      PROVE  s \in YearEntries'
  <2>1. je'[s] = tx[s].ins /\ Made(s, tx[s].ins)
    BY <1>1, <1>5, Posted DEF Written
  <2>2. je'[s].ofYear
    BY <1>5, <2>1 DEF Made
  <2> QED BY <1>5, <2>1, <2>2 DEF YearEntries, Entries
<1>6. YearEntries \subseteq YearEntries'
  BY Kept
<1> QED BY <1>2, <1>3, <1>4, <1>5, <1>6

\* Sums and dates change only where they are read.
LEMMA Readings ==
  ASSUME JInv, NEW s \in Sessions, Step(s)
  PROVE  /\ SumRevenue(s) => tx'[s].sum = [a \in Results |-> IF a \in Revenue
                                                             THEN YearSum(a) ELSE 0]
         /\ SumExpense(s) => tx'[s].sum = Summed(s)
         /\ ~SumRevenue(s) /\ ~SumExpense(s) /\ ~Abort(s) => tx'[s].sum = tx[s].sum
         /\ Abort(s) => tx'[s].date = EndDate
         /\ ~Reverse(s) /\ ~Abort(s) => tx'[s].date = tx[s].date
<1>1. tx \in [Sessions -> Tx] /\ tx[s] \in Tx
  BY Typing
<1>2. Abort(s) => tx'[s].date = EndDate
  BY <1>1 DEF Abort, EmptyTx
<1>3. ASSUME SumRevenue(s)
      PROVE  /\ tx'[s].sum = [a \in Results |-> IF a \in Revenue THEN YearSum(a) ELSE 0]
             /\ tx'[s].date = tx[s].date
  <2> DEFINE v == [a \in Results |-> IF a \in Revenue THEN YearSum(a) ELSE 0]
  <2>1. tx' = [tx EXCEPT ![s] = [tx[s] EXCEPT !.sum = v]]
    BY <1>1, <1>3 DEF SumRevenue
  <2> HIDE DEF v
  <2>2. tx'[s].sum = v /\ tx'[s].date = tx[s].date
    BY <1>1, <2>1 DEF Tx
  <2> QED BY <2>2 DEF v
<1>4. ASSUME SumExpense(s) PROVE tx'[s].sum = Summed(s) /\ tx'[s].date = tx[s].date
  <2>1. tx' = [tx EXCEPT ![s] = [tx[s] EXCEPT !.sum = Summed(s)]]
    BY <1>1, <1>4 DEF SumExpense
  <2> QED BY <1>1, <2>1 DEF Tx
<1>5. Reverse(s) => tx'[s].sum = tx[s].sum
  BY <1>1 DEF Reverse, Tx
<1>6. Guards(s) \/ Insert(s) => tx'[s].sum = tx[s].sum /\ tx'[s].date = tx[s].date
  BY <1>1 DEF Guards, Insert, Tx
<1>7. FindPeriods(s) \/ FindRows(s) \/ ReadPeriod(s)
        => tx'[s].sum = tx[s].sum /\ tx'[s].date = tx[s].date
  BY <1>1 DEF FindPeriods, FindRows, ReadPeriod, Tx
<1> QED BY <1>2, <1>3, <1>4, <1>5, <1>6, <1>7, Leaves

\* How a request of the year comes to stand where it stands.
LEMMA Coming ==
  ASSUME JInv, NEW s \in Sessions, Step(s), OnYear(s)'
  PROVE  /\ ~Abort(s) /\ ~Commit(s)
         /\ pc'[s] # "revenue" /\ Op(s) = "close" => OnYear(s)
         /\ pc'[s] \in {"check", "insert"} \cup After => OnYear(s) /\ ~Reverse(s)
         /\ pc[s] = "revenue" /\ OnYear(s) => SumRevenue(s)
         /\ pc[s] = "expense" /\ OnYear(s) => SumExpense(s)
         /\ SumRevenue(s) => pc[s] = "revenue" /\ pc'[s] = "expense"
         /\ SumExpense(s) => pc[s] = "expense" /\ pc'[s] = "guards"
         /\ pc'[s] = "expense" => SumRevenue(s)
         /\ pc'[s] \in {"check", "insert"} \cup After =>
              Guards(s) \/ Insert(s) \/ pc[s] \in {"check", "insert"} \cup After
<1>1. /\ pc \in [Sessions -> Steps] /\ Op(s) \in {"close", "reopen"}
      /\ pc'[s] \in Inside /\ pc[s] \notin OfPeriods /\ IInv
  BY Typing, Alone DEF OnYear, JInv, IInv, Course
<1>2. ~Abort(s) /\ ~Commit(s)
  BY <1>1 DEF Abort, Commit, Go, Inside
<1>3. LockYear(s) => pc'[s] \in {"revenue", "reverse"}
                     /\ (Op(s) = "close" => pc'[s] = "revenue")
  BY <1>1 DEF LockYear, Go
<1>4. OnYear(s) \/ LockYear(s)
  BY <1>1, Entering
<1>5. Reverse(s) => pc'[s] = "guards"
  BY <1>1 DEF Reverse, Go
<1>6. /\ pc[s] = "revenue" => SumRevenue(s)
      /\ pc[s] = "expense" => SumExpense(s)
  BY <1>1, <1>2 DEF Step, Probe, LockYear, SumRevenue, SumExpense, Reverse, Guards,
         CheckPeriod, Insert, FindPeriods, WritePeriods, FindRows, WriteRows, ReadPeriod,
         ReadStatus, Toggle, WriteRow, At
<1>7. /\ SumRevenue(s) => pc[s] = "revenue" /\ pc'[s] = "expense"
      /\ SumExpense(s) => pc[s] = "expense" /\ pc'[s] = "guards"
  BY <1>1 DEF SumRevenue, SumExpense, At, Go
<1>8. pc'[s] = "expense" => SumRevenue(s)
  BY <1>1, <1>2 DEF Step, Probe, LockYear, SumExpense, Reverse, Guards,
         CheckPeriod, Insert, FindPeriods, WritePeriods, FindRows, WriteRows, ReadPeriod,
         ReadStatus, Toggle, WriteRow, Go, CallReturns
<1>9. pc'[s] \in {"check", "insert"} \cup After =>
        Guards(s) \/ Insert(s) \/ pc[s] \in {"check", "insert"} \cup After
  BY <1>1, <1>2, <1>3 DEF Step, Probe, SumRevenue, SumExpense, Reverse,
         CheckPeriod, FindPeriods, WritePeriods, FindRows, WriteRows, ReadPeriod,
         ReadStatus, Toggle, WriteRow, Go, At, After, OfPeriods
<1> QED BY <1>2, <1>3, <1>4, <1>5, <1>6, <1>7, <1>8, <1>9 DEF After

(***************************************************************************)
(* The sums                                                                *)
(***************************************************************************)
LEMMA PostsType ==
  ASSUME JInv, NEW a \in Accounts
  PROVE  /\ IsFiniteSet(Posts) /\ IsFiniteSet(Entries) /\ Posts \subseteq Entries
         /\ \A e \in Entries : OnAccount(a)[e] = je[e].lines[a] /\ OnAccount(a)[e] \in Int
<1>1. Posts \subseteq Entries /\ Entries \subseteq Sessions
  BY DEF Posts, Entries
<1>2. \A e \in Entries : OnAccount(a)[e] = je[e].lines[a] /\ OnAccount(a)[e] \in Int
  <2> TAKE e \in Entries
  <2>1. je[e] \in Entry
    BY <1>1, Typing DEF Entries
  <2>2. je[e].lines \in Lines
    BY <2>1 DEF Entry
  <2>3. OnAccount(a)[e] = je[e].lines[a]
    BY DEF OnAccount
  <2> QED BY <2>2, <2>3 DEF Lines
<1> QED BY <1>1, <1>2, Bounds, FS_Subset

\* Only the commit of a posting changes what is booked.
LEMMA BookedKept ==
  ASSUME JInv, NEW s \in Sessions, Step(s), ~(Commit(s) /\ Op(s) = "post"),
         NEW a \in Results
  PROVE  Booked(a)' = Booked(a)
<1>1. a \in Accounts
  BY Kinds
<1>2. Posts' = Posts
  <2>1. \A e \in Entries : e \in Entries' /\ je'[e].date = je[e].date
    BY Kept
  <2>2. \A e \in Sessions : Op(e)' = Op(e)
    BY Alone
  <2>3. \A e \in Entries' : e \in Entries \/ (e = s /\ Op(s) # "post")
    BY Entrants
  <2> QED BY <2>1, <2>2, <2>3 DEF Posts, Entries
<1>3. \A e \in Posts : OnAccount(a)'[e] = OnAccount(a)[e]
  <2> TAKE e \in Posts
  <2>1. e \in Entries /\ e \in Entries' /\ je'[e].lines = je[e].lines
    BY <1>1, PostsType, Kept
  <2> QED BY <2>1 DEF OnAccount
<1>4. IsFiniteSet(Posts)
  BY <1>1, PostsType
<1>5. PICK w : w = OnAccount(a)
  OBVIOUS
<1>6. PICK v : v = OnAccount(a)'
  OBVIOUS
<1>7. PICK S : S = Posts
  OBVIOUS
<1>8. SumFunctionOnSet(w, S) = SumFunctionOnSet(v, S)
  BY <1>3, <1>4, <1>5, <1>6, <1>7, SumSame
<1>9. Booked(a)' = Opening[a] + SumFunctionOnSet(v, S)
  BY <1>2, <1>6, <1>7 DEF Booked
<1>10. Booked(a) = Opening[a] + SumFunctionOnSet(w, S)
  BY <1>5, <1>7 DEF Booked
<1> QED BY <1>8, <1>9, <1>10

\* Before there is a closing entry the year's sums are what was posted.
LEMMA SumsUnclosed ==
  ASSUME JInv, YearEntries = {}, NEW a \in Results
  PROVE  YearSum(a) = Booked(a)
<1>1. {e \in Entries : je[e].status = "posted" /\ je[e].date \in YearDates} = Posts
  <2>1. ASSUME NEW e \in Entries PROVE Op(e) = "post" /\ je[e].status = "posted"
    <3>1. e \in Sessions /\ Made(e, je[e]) /\ (Op(e) = "post" => je[e].status = "posted")
      BY Typing DEF Entries, Written
    <3>2. ~je[e].ofYear
      BY DEF YearEntries
    <3> QED BY <3>1, <3>2 DEF Made
  <2> QED BY <2>1 DEF Posts
<1> QED BY <1>1 DEF YearSum, Booked

\* Afterwards the entry is added to it.
LEMMA SumsClosed ==
  ASSUME JInv, NEW c, YearEntries = {c}, je[c].status = "posted", je[c].date = EndDate,
         NEW a \in Results
  PROVE  YearSum(a) = Booked(a) + je[c].lines[a]
<1>1. a \in Accounts /\ c \in Entries /\ c \in Sessions
  BY Kinds DEF YearEntries, Entries
<1>2. c \notin Posts
  <2>1. Made(c, je[c]) /\ je[c].ofYear
    BY <1>1, Typing DEF Entries, Written, YearEntries
  <2> QED BY <2>1 DEF Posts, Made
<1>3. {e \in Entries : je[e].status = "posted" /\ je[e].date \in YearDates} = Posts \cup {c}
  <2>1. ASSUME NEW e \in Entries, e # c PROVE Op(e) = "post" /\ je[e].status = "posted"
    <3>1. e \in Sessions /\ Made(e, je[e]) /\ (Op(e) = "post" => je[e].status = "posted")
      BY Typing DEF Entries, Written
    <3>2. ~je[e].ofYear
      BY <2>1 DEF YearEntries
    <3> QED BY <3>1, <3>2 DEF Made
  <2>2. EndDate \in YearDates
    BY FiscalYearAssumption DEF FiscalYearAssumption
  <2> QED BY <1>1, <1>2, <2>1, <2>2 DEF Posts
<1>4. PICK w : w = OnAccount(a)
  OBVIOUS
<1>5. PICK S : S = Posts
  OBVIOUS
<1>6. /\ IsFiniteSet(S) /\ c \notin S /\ \A e \in S \cup {c} : w[e] \in Int
      /\ w[c] = je[c].lines[a]
  BY <1>1, <1>2, <1>4, <1>5, PostsType
<1>7. SumFunctionOnSet(w, S \cup {c}) = SumFunctionOnSet(w, S) + w[c]
  BY <1>6, SumAdd
<1>8. SumFunctionOnSet(w, S) \in Int /\ Opening[a] \in Int
  BY <1>6, SumType, FiscalYearAssumption DEF FiscalYearAssumption
<1>9. YearSum(a) = Opening[a] + SumFunctionOnSet(w, S \cup {c})
  BY <1>3, <1>4, <1>5 DEF YearSum
<1>10. Booked(a) = Opening[a] + SumFunctionOnSet(w, S)
  BY <1>4, <1>5 DEF Booked
<1> QED BY <1>6, <1>7, <1>8, <1>9, <1>10

LEMMA SummaryStep ==
  ASSUME KInv, NEW s \in Sessions, Step(s), NEW x \in Sessions
  PROVE  Summary(x)'
<1>0. JInv /\ Unclosed /\ Summary(x) /\ Op(x)' = Op(x)
  BY Alone DEF KInv
<1> SUFFICES ASSUME Bears(x)'
             PROVE  /\ Sessions \ Entries' \subseteq unread'
                    /\ unread' \cap Done("post")' = {} =>
                         \A a \in Results : a \in Revenue \/ pc'[x] # "expense"
                                            => tx'[x].sum[a] = Booked(a)'
  BY DEF Summary
<1>1. Op(x) = "close"
  BY <1>0 DEF Bears
<1>2. CASE x = s /\ SumRevenue(s)
  <2>1. OnYear(s)'
    BY <1>0, <1>1, <1>2, Typing DEF SumRevenue, Go, OnYear, Inside
  <2>2. pc'[s] = "expense" /\ pc[s] = "revenue" /\ ~Commit(s)
    BY <1>0, <1>2, <2>1, Coming
  <2>3. je' = je /\ unread' = Sessions \ Entries
    BY <2>2, <1>2, Leaves DEF SumRevenue
  <2>4. Sessions \ Entries' \subseteq unread'
    BY <2>3 DEF Entries
  <2>5. Done("close") = {}
    <3>1. Done("close")' = Done("close")
      BY <1>0, <2>2, DoneStep
    <3>2. x \notin Done("close")'
      BY <1>2, <2>2 DEF Done
    <3> QED BY <3>1, <3>2 DEF Bears
  <2>6. ASSUME NEW a \in Results, a \in Revenue PROVE tx'[s].sum[a] = Booked(a)'
    <3>1. tx'[s].sum = [b \in Results |-> IF b \in Revenue THEN YearSum(b) ELSE 0]
      BY <1>0, <1>2, Readings
    <3>2. tx'[s].sum[a] = YearSum(a)
      BY <2>6, <3>1
    <3>3. YearSum(a) = Booked(a)
      BY <1>0, <2>5, SumsUnclosed DEF Unclosed
    <3>4. Booked(a)' = Booked(a)
      BY <1>0, <2>2, BookedKept
    <3> QED BY <3>2, <3>3, <3>4
  <2> QED BY <1>2, <2>2, <2>4, <2>6
<1>3. CASE ~(x = s /\ SumRevenue(s))
  <2>1. Bears(x)
    <3>1. CASE OnYear(x)' /\ pc'[x] # "revenue" /\ Done("close")' = {}
      <4>1. Done("close") = {}
        BY <1>0, <3>1, DoneStep
      <4>2. CASE x # s
        BY <1>0, <1>1, <3>1, <4>1, <4>2, Alone DEF Bears, OnYear
      <4>3. CASE x = s
        BY <1>0, <1>1, <1>3, <3>1, <4>1, <4>3, Coming DEF Bears
      <4> QED BY <4>2, <4>3
    <3>2. CASE year'.status = "closed" /\ Done("close")' = {x}
      <4>1. CASE Commit(s) /\ Op(s) = "close"
        <5>1. Done("close") = {} /\ x = s
          BY <1>0, <3>2, <4>1, DoneStep
        <5> QED BY <1>0, <1>1, <4>1, <5>1, YearCommit DEF Bears
      <4>2. CASE Commit(s) /\ Op(s) = "reopen"
        BY <1>0, <3>2, <4>2, YearCommit
      <4>3. CASE ~(Commit(s) /\ Op(s) \in {"close", "reopen"})
        BY <1>0, <1>1, <3>2, <4>3, YearKept, DoneStep DEF Bears
      <4> QED BY <4>1, <4>2, <4>3
    <3> QED BY <3>1, <3>2 DEF Bears
  <2>2. unread' = unread
    <3>1. SUFFICES ASSUME SumRevenue(s) PROVE FALSE
      BY Leaves
    <3>2. pc[s] = "revenue"
      BY <3>1 DEF SumRevenue, At
    <3>3. OnYear(s) /\ Op(s) = "close"
      <4>1. Op(s) \in {"close", "reopen", "toggle", "lock", "unlock", "post"} /\ Route(s)
        BY <1>0, Typing, Asked
      <4> QED BY <3>2, <4>1 DEF Route, OfPeriods, OnYear, Inside
    <3>4. year.status = "open"
      BY <1>0, <3>3 DEF JInv, IInv, Held, YearGuard
    <3>5. x = s
      BY <1>0, <2>1, <3>3, <3>4, Exclusive DEF Bears
    <3> QED BY <1>3, <3>1, <3>5
  <2>3. Sessions \ Entries' \subseteq unread'
    BY <1>0, <2>1, <2>2, Kept DEF Summary
  <2>4. ASSUME unread' \cap Done("post")' = {}, NEW a \in Results,
               a \in Revenue \/ pc'[x] # "expense"
        PROVE  tx'[x].sum[a] = Booked(a)'
    <3>1. ~(Commit(s) /\ Op(s) = "post")
      <4>1. s \in Sessions \ Entries
        BY <1>0, Entrants
      <4>2. s \in unread
        BY <1>0, <2>1, <4>1 DEF Summary
      <4> QED BY <1>0, <2>2, <2>4, <4>2, DoneStep
    <3>2. Booked(a)' = Booked(a)
      BY <1>0, <3>1, BookedKept
    <3>3. Done("post")' = Done("post")
      BY <1>0, <3>1, DoneStep
    <3>4. \A b \in Results : b \in Revenue \/ pc[x] # "expense" => tx[x].sum[b] = Booked(b)
      BY <1>0, <2>1, <2>2, <2>4, <3>3 DEF Summary
    <3>5. CASE x # s
      <4>1. pc'[x] = pc[x] /\ tx'[x] = tx[x]
        BY <1>0, <3>5, Alone
      <4> QED BY <2>4, <3>2, <3>4, <4>1
    <3>6. CASE x = s
      <4>1. OnYear(s)' \/ (pc'[s] = "ok" /\ Commit(s))
        <5>1. CASE OnYear(x)'
          BY <3>6, <5>1
        <5>2. CASE year'.status = "closed" /\ Done("close")' = {x}
          <6>1. s \in Done("close")' /\ s \notin Done("close")
            BY <1>0, <3>6, <5>2, DoneStep
          <6>2. Commit(s)
            BY <1>0, <6>1, DoneStep
          <6> QED BY <1>0, <6>2, Posted
        <5> QED BY <5>1, <5>2 DEF Bears
      <4>2. ~Abort(s)
        BY <1>0, <4>1, Coming, Typing DEF Abort, Go
      <4>3. CASE SumExpense(s)
        <5>1. pc[s] = "expense" /\ tx'[s].sum = Summed(s)
          BY <1>0, <4>3, Readings DEF SumExpense, At
        <5>2. CASE a \in Revenue
          <6>1. Summed(s)[a] = tx[s].sum[a]
            BY <5>2, Kinds DEF Summed
          <6> QED BY <3>2, <3>4, <3>6, <5>1, <5>2, <6>1
        <5>3. CASE a \in Expense
          <6>1. Summed(s)[a] = YearSum(a)
            BY <5>3 DEF Summed
          <6>2. Done("close") = {}
            <7>1. ~(pc[s] = "ok")
              BY <5>1
            <7> QED BY <2>1, <3>6, <7>1 DEF Bears, Done
          <6>3. YearSum(a) = Booked(a)
            BY <1>0, <6>2, SumsUnclosed DEF Unclosed
          <6> QED BY <3>2, <3>6, <5>1, <6>1, <6>3
        <5> QED BY <5>2, <5>3, Kinds
      <4>4. CASE ~SumExpense(s)
        <5>1. tx'[s].sum = tx[s].sum
          BY <1>0, <1>3, <3>6, <4>2, <4>4, Readings
        <5>2. pc[s] # "expense"
          <6>1. CASE OnYear(s)'
            <7>1. pc[s] = "expense" => OnYear(s)
              BY <1>1, <3>6 DEF OnYear, Inside
            <7> QED BY <1>0, <4>4, <6>1, <7>1, Coming
          <6>2. CASE Commit(s)
            BY <6>2, Going
          <6> QED BY <4>1, <6>1, <6>2
        <5> QED BY <3>2, <3>4, <3>6, <5>1, <5>2
      <4> QED BY <4>3, <4>4
    <3> QED BY <3>5, <3>6
  <2> QED BY <2>3, <2>4
<1> QED BY <1>2, <1>3

LEMMA DraftStep ==
  ASSUME KInv, NEW s \in Sessions, Step(s), NEW x \in Sessions
  PROVE  Draft(x)'
<1>0. JInv /\ Unclosed /\ Draft(x) /\ Op(x)' = Op(x)
  BY Alone DEF KInv
<1> SUFFICES ASSUME Op(x) = "close"
             PROVE  /\ tx'[x].date = EndDate
                    /\ OnYear(x)' /\ Done("close")' = {} =>
                         /\ pc'[x] \in {"check", "insert"} \cup After
                              => Balanced(ClosingLines(tx'[x].sum))
                         /\ pc'[x] \in After =>
                              /\ tx'[x].ins # NoEntry /\ tx'[x].ins.date = EndDate
                              /\ tx'[x].ins.lines = ClosingLines(tx'[x].sum)
  BY <1>0 DEF Draft, Balanced, ClosingLines
<1>1. Done("close")' = {} => Done("close") = {}
  BY <1>0, DoneStep
<1>2. CASE x # s
  <2>1. pc'[x] = pc[x] /\ tx'[x] = tx[x]
    BY <1>0, <1>2, Alone
  <2>2. OnYear(x)' <=> OnYear(x)
    BY <1>0, <2>1 DEF OnYear
  <2> QED BY <1>0, <1>1, <2>1, <2>2 DEF Draft
<1>3. CASE x = s
  <2>1. ~Reverse(s) /\ tx[s].date = EndDate
    BY <1>0, <1>3, Typing DEF Reverse, At, Route, Draft
  <2>2. tx'[s].date = EndDate
    BY <1>0, <2>1, Readings
  <2>3. ASSUME OnYear(s)', Done("close")' = {}, pc'[s] \in {"check", "insert"} \cup After
        PROVE  /\ Balanced(ClosingLines(tx'[s].sum))
               /\ pc'[s] \in After => /\ tx'[s].ins # NoEntry /\ tx'[s].ins.date = EndDate
                                      /\ tx'[s].ins.lines = ClosingLines(tx'[s].sum)
    <3>1. OnYear(s) /\ ~Abort(s) /\ YearEntries = {} /\ pc'[s] # "expense" /\ pc'[s] # "guards"
      BY <1>0, <1>1, <2>3, Coming DEF Unclosed, After
    <3>2. tx'[s].sum = tx[s].sum
      BY <1>0, <2>3, <3>1, Coming, Readings
    <3>3. CASE Guards(s)
      <4>1. WithKey(Key(s)) = {} /\ OfYear(tx[s].date) = {}
        BY <1>0, <3>1, Hits
      <4>2. Balanced(NewEntry(s).lines) /\ pc'[s] = "check"
        BY <1>0, <3>3, <4>1, Typing DEF Guards, Go
      <4>3. NewEntry(s).lines = ClosingLines(tx[s].sum)
        BY <1>0, <1>3, <3>3, Posting DEF Guards, At
      <4> QED BY <3>2, <4>2, <4>3 DEF After
    <3>4. CASE Insert(s)
      <4>1. pc[s] = "insert"
        BY <3>4 DEF Insert, At
      <4>2. /\ tx'[s].ins = NewEntry(s) /\ NewEntry(s) \in Entry
            /\ NewEntry(s).date = tx[s].date
            /\ NewEntry(s).lines = ClosingLines(tx[s].sum)
        BY <1>0, <1>3, <3>4, <4>1, Posting, TxStep
      <4>3. Balanced(ClosingLines(tx[s].sum))
        BY <1>0, <1>1, <1>3, <2>3, <3>1, <4>1 DEF Draft
      <4> QED BY <2>1, <3>2, <4>2, <4>3, NoEntryAssumption DEF NoEntryAssumption
    <3>5. CASE ~Guards(s) /\ ~Insert(s)
      <4>1. pc[s] \in {"check", "insert"} \cup After
        BY <1>0, <2>3, <3>5, Coming
      <4>2. Balanced(ClosingLines(tx[s].sum))
        BY <1>0, <1>1, <1>3, <2>3, <3>1, <4>1 DEF Draft
      <4>3. tx'[s].ins = tx[s].ins
        BY <1>0, <3>1, <3>5, TxStep
      <4>4. pc'[s] \in After => pc[s] \in After
        BY <1>0, <2>3, <3>5, Returning
      <4> QED BY <1>0, <1>1, <1>3, <2>3, <3>1, <3>2, <4>2, <4>3, <4>4 DEF Draft
    <3> QED BY <3>3, <3>4, <3>5
  <2> QED BY <1>3, <2>2, <2>3
<1> QED BY <1>2, <1>3

LEMMA UnclosedStep ==
  ASSUME KInv, NEW s \in Sessions, Step(s)
  PROVE  Unclosed'
<1>0. JInv /\ Unclosed
  BY DEF KInv
<1> SUFFICES ASSUME Done("close")' = {} PROVE YearEntries' = {}
  BY DEF Unclosed
<1>1. Done("close") = {} /\ YearEntries = {} /\ ~(Commit(s) /\ Op(s) = "close")
  BY <1>0, DoneStep DEF Unclosed
<1>2. ~(Commit(s) /\ Op(s) = "reopen")
  BY <1>0, <1>1, Posted
<1> QED BY <1>0, <1>1, <1>2, YearEntrants

\* Who reopens the year finds its closing entry, and only it.
LEMMA Reopening ==
  ASSUME KInv, NEW x \in Sessions, OnYear(x), Op(x) = "reopen",
         NEW c \in Sessions, Done("close") = {c}
  PROVE  /\ year.status = "closed" /\ year.closing = c /\ YearEntries = {c}
         /\ c \in Entries /\ je[c].date = EndDate /\ x # c /\ Op(c) = "close"
<1>1. year.status = "closed"
  BY DEF KInv, JInv, IInv, Held, YearGuard
<1>2. Op(c) = "close"
  BY DEF Done
<1> QED BY <1>1, <1>2 DEF KInv, ClosedOnce, YearEntries

LEMMA UndoStep ==
  ASSUME KInv, KeysIdentifyRequests, NEW s \in Sessions, Step(s), NEW x \in Sessions
  PROVE  Undo(x)'
<1>0. JInv /\ Undo(x) /\ Op(x)' = Op(x)
  BY Alone DEF KInv
<1> SUFFICES ASSUME NEW c \in Sessions, Op(x) = "reopen", OnYear(x)', pc'[x] \in After,
                    Done("close")' = {c}, tx'[x].date # EndDate
             PROVE  tx'[x].ins # NoEntry /\ tx'[x].ins.lines = Reversed(je'[c].lines)
  BY <1>0 DEF Undo, Reversed
<1>1. OnYear(x)
  BY <1>0, Coming, Alone DEF OnYear
<1>2. Done("close") = {c}
  <2>1. ~(Commit(s) /\ Op(s) = "close")
    BY <1>0, <1>1, YearCommit, Exclusive
  <2> QED BY <1>0, <2>1, DoneStep
<1>3. /\ year.closing = c /\ YearEntries = {c} /\ c \in Entries
      /\ je[c].date = EndDate /\ x # c /\ Op(c) = "close"
  BY <1>1, <1>2, Reopening
<1>4. je'[c].lines = je[c].lines
  BY <1>0, <1>3, Kept
<1>5. CASE x # s
  <2>1. pc'[x] = pc[x] /\ tx'[x] = tx[x]
    BY <1>0, <1>5, Alone
  <2> QED BY <1>0, <1>1, <1>2, <1>4, <2>1 DEF Undo
<1>6. CASE x = s
  <2>1. ~Abort(s) /\ ~Reverse(s)
    BY <1>0, <1>6, Coming
  <2>2. tx[s].date # EndDate
    BY <1>0, <1>6, <2>1, Readings
  <2>3. ~Guards(s)
    <3>1. SUFFICES ASSUME Guards(s) PROVE FALSE
      OBVIOUS
    <3>2. OfYear(tx[s].date) = {}
      <4>1. \A e \in OfYear(tx[s].date) : e = c /\ je[e].date = tx[s].date
        BY <1>0, <1>3, Hits DEF OfYear
      <4> QED BY <1>3, <2>2, <4>1
    <3>3. WithKey(Key(s)) = {}
      <4>1. SUFFICES ASSUME NEW e \in WithKey(Key(s)) PROVE FALSE
        OBVIOUS
      <4>2. e = c /\ je[c].key = Key(s) /\ Key(s) # NoKey
        BY <1>0, <1>3, Hits DEF WithKey
      <4>3. Key(c) = Key(s)
        BY <1>0, <1>3, <4>2, Typing DEF Written, Made, Entries
      <4>4. req[c].key = req[s].key /\ req[s].key # NoKey
        BY <1>3, <1>6, <4>2, <4>3 DEF Key
      <4>5. req[c] \in Requests /\ req[s] \in Requests
        BY <1>0, Typing
      <4>6. req[c].op = "close" /\ req[s].op = "reopen"
        BY <1>3, <1>6 DEF Op
      <4> QED BY <4>4, <4>5, <4>6 DEF KeysIdentifyRequests
    <3>4. pc'[s] = "check"
      BY <1>0, <3>1, <3>2, <3>3, Typing DEF Guards, Go
    <3> QED BY <1>6, <3>4 DEF After
  <2>4. CASE Insert(s)
    <3>1. /\ tx'[s].ins = NewEntry(s) /\ NewEntry(s) \in Entry
          /\ NewEntry(s).lines = Reversed(je[year.closing].lines)
      BY <1>0, <1>6, <2>4, Posting, TxStep DEF Insert, At
    <3> QED BY <1>3, <1>4, <1>6, <3>1, NoEntryAssumption DEF NoEntryAssumption
  <2>5. CASE ~Insert(s)
    <3>1. pc[s] \in After
      BY <1>0, <1>6, <2>3, <2>5, Returning
    <3>2. tx'[s].ins = tx[s].ins
      BY <1>0, <2>1, <2>5, TxStep
    <3> QED BY <1>0, <1>1, <1>2, <1>4, <1>6, <2>2, <3>1, <3>2 DEF Undo
  <2> QED BY <2>4, <2>5
<1> QED BY <1>5, <1>6

LEMMA ClosedOnceStep ==
  ASSUME KInv, NEW s \in Sessions, Step(s), NEW c \in Sessions
  PROVE  ClosedOnce(c)'
<1>0. JInv /\ Unclosed /\ ClosedOnce(c) /\ Draft(s) /\ Written(s)
  BY Typing DEF KInv
<1> SUFFICES ASSUME Done("close")' = {c}, year'.status = "closed"
             PROVE  /\ year'.closing = c /\ YearEntries' = {c}
                    /\ je'[c].date = EndDate /\ je'[c].status = "posted"
                    /\ je'[c].lines = ClosingLines(tx'[c].sum) /\ Balanced(je'[c].lines)
  BY DEF ClosedOnce, Balanced, ClosingLines
<1>1. CASE Commit(s) /\ Op(s) = "close"
  <2>1. Done("close") = {} /\ c = s /\ YearEntries = {}
    BY <1>0, <1>1, DoneStep DEF Unclosed
  <2>2. /\ OnYear(s) /\ pc[s] \in After /\ tx' = tx /\ year'.closing = tx[s].entry
    BY <1>0, <1>1, YearCommit
  <2>3. /\ Balanced(ClosingLines(tx[s].sum))
        /\ tx[s].ins # NoEntry /\ tx[s].ins.date = EndDate
        /\ tx[s].ins.lines = ClosingLines(tx[s].sum)
    BY <1>0, <1>1, <2>1, <2>2 DEF Draft
  <2>4. tx[s].entry = s /\ tx[s].ins.status = "posted"
    BY <1>0, <2>3 DEF Written
  <2>5. je'[s] = tx[s].ins
    BY <1>0, <1>1, Posted
  <2>6. YearEntries' = {s}
    BY <1>0, <1>1, <2>1, <2>3, YearEntrants
  <2> QED BY <2>1, <2>2, <2>3, <2>4, <2>5, <2>6
<1>2. CASE Commit(s) /\ Op(s) = "reopen"
  BY <1>0, <1>2, YearCommit
<1>3. CASE ~(Commit(s) /\ Op(s) \in {"close", "reopen"})
  <2>1. year' = year /\ Done("close") = {c} /\ YearEntries' = YearEntries
    BY <1>0, <1>3, YearKept, DoneStep, YearEntrants
  <2>2. c \in Entries /\ c # s
    BY <1>0, <2>1, DoneStep DEF ClosedOnce, YearEntries
  <2>3. je'[c] = je[c] /\ tx'[c] = tx[c]
    BY <1>0, <1>3, <2>2, Entrants, Alone
  <2> QED BY <1>0, <2>1, <2>3 DEF ClosedOnce
<1> QED BY <1>1, <1>2, <1>3

LEMMA UndoneStep ==
  ASSUME KInv, NEW s \in Sessions, Step(s), NEW c \in Sessions
  PROVE  Undone(c)'
<1>0. JInv /\ Undone(c) /\ Undo(s)
  BY DEF KInv
<1> SUFFICES ASSUME Done("close")' = {c}, year'.status = "open",
                    \A q \in Done("reopen")' : tx'[q].date # EndDate
             PROVE  \E r \in Sessions : /\ r # c /\ YearEntries' = {c, r} /\ Op(r) = "reopen"
                                        /\ je'[c].status = "void"
                                        /\ je'[r].lines = Reversed(je'[c].lines)
  <2>1. \A r \in Sessions : Op(r)' = Op(r)
    BY <1>0, Alone
  <2> QED BY <2>1 DEF Undone, Reversed
<1>1. CASE Commit(s) /\ Op(s) = "close"
  BY <1>0, <1>1, YearCommit
<1>2. CASE Commit(s) /\ Op(s) = "reopen"
  <2>1. OnYear(s) /\ pc[s] \in After /\ tx' = tx /\ Done("close") = {c}
    BY <1>0, <1>2, YearCommit, DoneStep
  <2>2. year.closing = c /\ YearEntries = {c} /\ c \in Entries /\ s # c
    BY <1>2, <2>1, Reopening
  <2>3. tx[s].date # EndDate
    BY <1>0, <1>2, <2>1, DoneStep
  <2>4. tx[s].ins # NoEntry /\ tx[s].ins.lines = Reversed(je[c].lines)
    BY <1>0, <1>2, <2>1, <2>3 DEF Undo
  <2>5. YearEntries' = {c, s}
    BY <1>0, <1>2, <2>2, <2>4, YearEntrants
  <2>6. je'[s] = tx[s].ins /\ je'[c] = [je[c] EXCEPT !.status = "void"]
    BY <1>0, <1>2, <2>2, Posted
  <2>7. je[c] \in Entry
    BY <1>0, <2>2, Typing DEF Entries
  <2>8. je'[c].status = "void" /\ je'[c].lines = je[c].lines
    BY <2>6, <2>7 DEF Entry
  <2> QED BY <1>2, <2>2, <2>4, <2>5, <2>6, <2>8
<1>3. CASE ~(Commit(s) /\ Op(s) \in {"close", "reopen"})
  <2>1. /\ year' = year /\ Done("close") = {c} /\ YearEntries' = YearEntries
        /\ Done("reopen")' = Done("reopen") /\ s \notin Done("reopen")
    BY <1>0, <1>3, YearKept, DoneStep, YearEntrants
  <2>2. \A q \in Done("reopen") : tx'[q] = tx[q]
    BY <1>0, <2>1, Alone DEF Done
  <2>3. PICK r \in Sessions : /\ r # c /\ YearEntries = {c, r} /\ Op(r) = "reopen"
                              /\ je[c].status = "void"
                              /\ je[r].lines = Reversed(je[c].lines)
    BY <1>0, <2>1, <2>2 DEF Undone
  <2>4. je'[c] = je[c] /\ je'[r] = je[r]
    BY <1>0, <1>3, <2>3, Entrants DEF YearEntries
  <2> QED BY <2>1, <2>3, <2>4
<1> QED BY <1>1, <1>2, <1>3

LEMMA InitK == Init => KInv
<1> SUFFICES ASSUME Init PROVE KInv
  OBVIOUS
<1>1. JInv
  BY InitJ
<1>2. \A s \in Sessions : pc[s] \in {"probe", "period", "check", "row"}
  BY DEF Init, FirstStep
<1>3. Entries = {} /\ \A op : Done(op) = {}
  BY <1>2 DEF Init, Entries, Done
<1>4. Unclosed
  BY <1>3 DEF Unclosed, YearEntries
<1>5. \A s \in Sessions : /\ Op(s) \in {"close", "reopen"} => ~OnYear(s)
                          /\ Op(s) = "close" => tx[s].date = EndDate
  <2> TAKE s \in Sessions
  <2>1. Op(s) = "close" => tx[s] = EmptyTx
    BY DEF Init
  <2>2. Op(s) \in {"close", "reopen"} => pc[s] = "probe"
    BY DEF Init, FirstStep, Op
  <2> QED BY <2>1, <2>2 DEF OnYear, Inside, EmptyTx
<1>6. \A s \in Sessions : Summary(s) /\ Draft(s) /\ Undo(s) /\ ClosedOnce(s) /\ Undone(s)
  BY <1>3, <1>5 DEF Summary, Bears, Draft, Undo, ClosedOnce, Undone
<1> QED BY <1>1, <1>4, <1>6 DEF KInv

LEMMA NextK ==
  ASSUME KeysIdentifyRequests
  PROVE  KInv /\ [Next]_vars => KInv'
<1> SUFFICES ASSUME KInv, [Next]_vars PROVE KInv'
  OBVIOUS
<1>0. JInv'
  BY NextJ DEF KInv
<1>1. CASE \E s \in Sessions : Step(s)
  <2>1. PICK s \in Sessions : Step(s)
    BY <1>1
  <2>2. Unclosed'
    BY <2>1, UnclosedStep
  <2>3. \A q \in Sessions : /\ Summary(q)' /\ Draft(q)' /\ Undo(q)'
                            /\ ClosedOnce(q)' /\ Undone(q)'
    BY <2>1, SummaryStep, DraftStep, UndoStep, ClosedOnceStep, UndoneStep
  <2> QED BY <1>0, <2>2, <2>3 DEF KInv
<1>2. CASE Tick \/ UNCHANGED vars
  <2>1. UNCHANGED <<year, je, req, pc, tx, unread>>
    BY <1>2 DEF Tick, Locks, vars
  <2>2. /\ Entries' = Entries /\ YearEntries' = YearEntries
        /\ \A op : Done(op)' = Done(op)
        /\ \A q \in Sessions : Op(q)' = Op(q) /\ OnYear(q)' = OnYear(q)
    BY <2>1 DEF Entries, YearEntries, Done, Op, OnYear
  <2>3. \A a : Booked(a)' = Booked(a)
    <3>1. Posts' = Posts
      BY <2>1, <2>2 DEF Posts, Op
    <3>2. \A a : OnAccount(a)' = OnAccount(a)
      BY <2>1, <2>2 DEF OnAccount
    <3> QED BY <3>1, <3>2 DEF Booked
  <2>4. Unclosed'
    BY <2>2 DEF KInv, Unclosed
  <2>5. ASSUME NEW q \in Sessions PROVE Summary(q)'
    <3>1. Bears(q)' <=> Bears(q)
      BY <2>1, <2>2 DEF Bears
    <3> QED BY <2>1, <2>2, <2>3, <3>1 DEF KInv, Summary
  <2>6. ASSUME NEW q \in Sessions PROVE Draft(q)' /\ Undo(q)'
    BY <2>1, <2>2 DEF KInv, Draft, Undo, Balanced, ClosingLines, Reversed
  <2>7. ASSUME NEW q \in Sessions PROVE ClosedOnce(q)' /\ Undone(q)'
    BY <2>1, <2>2 DEF KInv, ClosedOnce, Undone, Balanced, ClosingLines, Reversed
  <2> QED BY <1>0, <2>4, <2>5, <2>6, <2>7 DEF KInv
<1> QED BY <1>1, <1>2 DEF Next

LEMMA InvarianceK ==
  ASSUME KeysIdentifyRequests
  PROVE  Spec => []KInv
  BY InitK, NextK, PTL DEF Spec

\* A balanced closing entry leaves nothing on any account, unless it may
\* double balances on the wrong side of both kinds.
LEMMA NothingLeft ==
  ASSUME NEW sum \in [Results -> Int], Balanced(ClosingLines(sum)), ~WrongSides(sum)
  PROVE  \A a \in Results : sum[a] + ClosingLines(sum)[a] = 0
<1> DEFINE left == [a \in Results |-> sum[a] + ClosingLines(sum)[a]]
           line == ClosingLines(sum)
<1>1. /\ \A a \in Results : sum[a] \in Int /\ line[a] \in Int
      /\ \A a \in Accounts : line[a] \in Int
  BY ClosingByKind, Kinds DEF Lines
<1>2. SumFunctionOnSet(line, Accounts)
        = SumFunctionOnSet(line, Results) + SumFunctionOnSet(sum, Results)
  <2> HIDE DEF line
  <2>1. /\ line[Retained] = SumFunctionOnSet(sum, Results) /\ line[Cash] = 0
    BY ClosingByKind DEF line
  <2>2. SumFunctionOnSet(line, Results \cup {Retained})
          = SumFunctionOnSet(line, Results) + line[Retained]
    BY <1>1, Bounds, Kinds, SumAdd
  <2>3. PICK R : R = Results \cup {Retained}
    OBVIOUS
  <2>4. IsFiniteSet(R) /\ Cash \notin R /\ Accounts = R \cup {Cash}
    BY <2>3, Bounds, Kinds, FS_AddElement
  <2>5. SumFunctionOnSet(line, R \cup {Cash}) = SumFunctionOnSet(line, R) + line[Cash]
    BY <1>1, <2>4, SumAdd
  <2>6. SumFunctionOnSet(line, R) \in Int
    BY <1>1, <2>4, SumType
  <2> QED BY <2>1, <2>2, <2>3, <2>4, <2>5, <2>6
<1>3. SumFunctionOnSet(left, Results) = 0
  <2>1. SumFunctionOnSet(left, Results)
          = SumFunctionOnSet(sum, Results) + SumFunctionOnSet(line, Results)
    <3>1. \A a \in Results : left[a] = sum[a] + line[a]
      OBVIOUS
    <3> HIDE DEF left, line
    <3> QED BY <1>1, <3>1, Bounds, SumPlus
  <2>2. SumFunctionOnSet(line, Accounts) = 0
    BY DEF Balanced
  <2> HIDE DEF left, line
  <2>3. SumFunctionOnSet(sum, Results) \in Int /\ SumFunctionOnSet(line, Results) \in Int
    BY <1>1, Bounds, SumType
  <2> QED BY <1>2, <2>1, <2>2, <2>3
<1>4. /\ \A a \in Revenue : left[a] = sum[a] + Abs(sum[a])
      /\ \A a \in Expense : left[a] = sum[a] - Abs(sum[a])
  <2>1. \A a \in Expense : sum[a] \in Int /\ Abs(sum[a]) \in Int
    BY Kinds DEF Abs
  <2> QED BY <2>1, ClosingByKind, Kinds
<1>5. /\ \A a \in Revenue : sum[a] \in Int /\ left[a] \in Nat
      /\ \A a \in Expense : sum[a] \in Int /\ left[a] \in Int /\ left[a] <= 0
  <2> HIDE DEF left
  <2> QED BY <1>1, <1>4, Kinds DEF Abs
<1> HIDE DEF left
<1>6. \A a \in Results : left[a] = 0
  <2>1. CASE \A a \in Revenue : sum[a] <= 0
    <3>1. \A a \in Revenue : left[a] = 0
      BY <1>1, <1>4, <2>1, Kinds DEF Abs
    <3> DEFINE less == [a \in Results |-> -left[a]]
    <3>2. \A a \in Results : left[a] \in Int /\ less[a] = -left[a] /\ less[a] \in Nat
      BY <1>5, <3>1, Kinds
    <3> HIDE DEF less
    <3>3. SumFunctionOnSet(less, Results) = 0
      <4>1. SumFunctionOnSet(less, Results) = -SumFunctionOnSet(left, Results)
        BY <3>2, Bounds, SumOpposite
      <4>2. SumFunctionOnSet(less, Results) \in Int /\ SumFunctionOnSet(left, Results) \in Int
        BY <3>2, Bounds, SumType
      <4> QED BY <1>3, <4>1, <4>2, OppositeOfZero
    <3>4. \A a \in Results : less[a] = 0
      BY <3>2, <3>3, Bounds, SumZero
    <3> QED BY <3>2, <3>4
  <2>2. CASE \A a \in Expense : sum[a] >= 0
    <3>1. \A a \in Expense : left[a] = 0
      BY <1>1, <1>4, <2>2, Kinds DEF Abs
    <3>2. \A a \in Results : left[a] \in Nat
      BY <1>5, <3>1, Kinds
    <3> QED BY <1>3, <3>2, Bounds, SumZero
  <2>3. (\A a \in Revenue : sum[a] <= 0) \/ (\A a \in Expense : sum[a] >= 0)
    BY <1>5 DEF WrongSides
  <2> QED BY <2>1, <2>2, <2>3
<1> QED BY <1>6 DEF left

\* A year closed once has one closing entry and no balance left on any revenue
\* or expense account, whatever is posted, toggled, locked or retried
\* meanwhile, but for what was posted while close_fiscal_year summed the year.
THEOREM YearResultCarried ==
  ASSUME KeysIdentifyRequests
  PROVE  Spec => []ResultCarried
<1>1. ASSUME KInv PROVE ResultCarried
  <2>1. SUFFICES ASSUME year.status = "closed", Cardinality(Done("close")) = 1,
                        unread \cap Done("post") = {}, ~WrongSides(tx[year.closing].sum)
                 PROVE  /\ je[year.closing].status = "posted"
                        /\ \A a \in Results : YearSum(a) = 0
    BY DEF ResultCarried
  <2>2. PICK c : Done("close") = {c}
    <3>1. Done("close") \subseteq Sessions
      BY DEF Done
    <3>2. IsFiniteSet(Done("close"))
      BY <3>1, Bounds, FS_Subset
    <3> QED BY <2>1, <3>2, FS_Singleton
  <2>3. c \in Sessions /\ Op(c) = "close" /\ pc[c] = "ok"
    BY <2>2 DEF Done
  <2>4. /\ year.closing = c /\ YearEntries = {c}
        /\ je[c].date = EndDate /\ je[c].status = "posted"
        /\ je[c].lines = ClosingLines(tx[c].sum) /\ Balanced(je[c].lines)
    BY <1>1, <2>1, <2>2, <2>3 DEF KInv, ClosedOnce
  <2>5. \A a \in Results : tx[c].sum[a] = Booked(a)
    BY <1>1, <2>1, <2>2, <2>3 DEF KInv, Summary, Bears
  <2>6. tx[c].sum \in [Results -> Int] /\ JInv
    BY <1>1, <2>3, Typing DEF KInv, Tx
  <2>7. \A a \in Results : tx[c].sum[a] + ClosingLines(tx[c].sum)[a] = 0
    BY <2>1, <2>4, <2>6, NothingLeft
  <2>8. ASSUME NEW a \in Results PROVE YearSum(a) = 0
    <3>1. YearSum(a) = Booked(a) + je[c].lines[a]
      BY <2>4, <2>6, SumsClosed
    <3> QED BY <2>4, <2>5, <2>7, <3>1
  <2> QED BY <2>4, <2>8
<1> QED BY <1>1, InvarianceK, PTL

\* A year closed once and reopened after its last day is as if it had not been
\* closed: reopen_fiscal_year reverses the closing entry in every account and
\* leaves it void.
THEOREM ReopeningUndoes ==
  ASSUME KeysIdentifyRequests
  PROVE  Spec => []ReopenUndoesClose
<1>1. ASSUME KInv PROVE ReopenUndoesClose
  <2>1. SUFFICES ASSUME year.status = "open", Cardinality(Done("close")) = 1,
                        \A s \in Done("reopen") : tx[s].date # EndDate
                 PROVE  /\ \A a \in Accounts :
                             SumFunctionOnSet(OnAccount(a), YearEntries) = 0
                        /\ \A e \in YearEntries : Op(e) = "close" => je[e].status = "void"
    BY DEF ReopenUndoesClose, YearEntries
  <2>2. PICK c : Done("close") = {c}
    <3>1. Done("close") \subseteq Sessions
      BY DEF Done
    <3>2. IsFiniteSet(Done("close"))
      BY <3>1, Bounds, FS_Subset
    <3> QED BY <2>1, <3>2, FS_Singleton
  <2>3. c \in Sessions
    BY <2>2 DEF Done
  <2>4. PICK r \in Sessions : /\ r # c /\ YearEntries = {c, r} /\ Op(r) = "reopen"
                              /\ je[c].status = "void"
                              /\ je[r].lines = Reversed(je[c].lines)
    BY <1>1, <2>1, <2>2, <2>3 DEF KInv, Undone
  <2>5. ASSUME NEW a \in Accounts
        PROVE  SumFunctionOnSet(OnAccount(a), YearEntries) = 0
    <3>1. JInv /\ c \in Entries /\ r \in Entries
      BY <1>1, <2>4 DEF KInv, YearEntries
    <3>2. je[c].lines \in Lines
      BY <2>3, <3>1, Typing DEF Entries, Entry
    <3>3. PICK w : w = OnAccount(a)
      OBVIOUS
    <3>4. w[c] = je[c].lines[a] /\ w[c] \in Int /\ w[r] = -w[c] /\ w[r] \in Int
      BY <2>4, <3>1, <3>2, <3>3, PostsType, ReversedTyped
    <3>5. PICK S : S = {c, r}
      OBVIOUS
    <3>6. PICK R : R = {r}
      OBVIOUS
    <3>7. /\ IsFiniteSet(R) /\ c \notin R /\ S = R \cup {c} /\ r \in R
          /\ R \ {r} = {} /\ \A e \in S : w[e] \in Int
      BY <2>4, <3>4, <3>5, <3>6, FS_Singleton
    <3>8. SumFunctionOnSet(w, R) = w[r] + SumFunctionOnSet(w, {})
      BY <3>7, SumDrop
    <3>9. SumFunctionOnSet(w, S) = SumFunctionOnSet(w, R) + w[c]
      BY <3>7, SumAdd
    <3>10. SumFunctionOnSet(w, {}) = 0
      BY SumNone
    <3>11. SumFunctionOnSet(w, S) = 0
      BY <3>4, <3>8, <3>9, <3>10
    <3> QED BY <2>4, <3>3, <3>5, <3>11
  <2> QED BY <2>4, <2>5
<1> QED BY <1>1, InvarianceK, PTL
=============================================================================
