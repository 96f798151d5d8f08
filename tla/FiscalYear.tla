----------------------------- MODULE FiscalYear -----------------------------
(***************************************************************************)
(* One fiscal year: closing it with its closing entry and reopening it     *)
(* (routers/finance/accounting/fiscal.py), its periods and their locks,    *)
(* which two routers write and utils/fiscal_lock.py reads, and postings    *)
(* that meanwhile enter the year.                                          *)
(*                                                                         *)
(* A session is one request in one READ COMMITTED transaction, as in       *)
(* GeneralLedger.  create_journal_entry is cut down to what these callers  *)
(* meet: the key, the source triplet, the period checks, the number lock.  *)
(* Both entries of the handlers are stored with source "system" and the    *)
(* id of the year, so only their dates tell them apart.                    *)
(***************************************************************************)
EXTENDS Integers, FiniteSets, Functions

CONSTANTS Sessions, Periods, Keys, NoSession, NoKey, NoEntry,
          Revenue, Expense, Retained, Cash, \* accounts
          Dates, EndDate,                   \* dates are ordered
          DatesOf,                          \* DatesOf[p]: the dates of a period
          Opening,                          \* what was posted in the year before
          Requests

Results  == Revenue \cup Expense
Accounts == Results \cup {Retained, Cash}
YearDates == UNION {DatesOf[p] : p \in Periods}
Lines    == [Accounts -> Int]      \* debits less credits

RequestType ==
  [op : {"close"}, periods : BOOLEAN, key : Keys \cup {NoKey}]
  \cup [op : {"reopen"}, key : Keys \cup {NoKey}]
  \cup [op : {"toggle", "lock", "unlock"}, period : Periods]
  \cup [op : {"post"}, date : Dates, lines : Lines]

ASSUME FiscalYearAssumption ==
  /\ IsFiniteSet(Sessions) /\ NoSession \notin Sessions /\ NoKey \notin Keys
  /\ IsFiniteSet(Results) /\ Revenue \cap Expense = {}
  /\ Retained # Cash /\ {Retained, Cash} \cap Results = {}
  /\ Dates \subseteq Int /\ EndDate \in YearDates
  /\ DatesOf \in [Periods -> SUBSET Dates]
  /\ Opening \in [Results -> Int]
  /\ Requests \subseteq RequestType

\* No Idempotency-Key is sent with two operations.
KeysIdentifyRequests ==
  \A r, q \in Requests :
    /\ {r.op, q.op} \subseteq {"close", "reopen"}
    /\ r.key = q.key /\ r.key # NoKey
    => r.op = q.op

VARIABLES year,       \* its row: status, closing_entry_id, periods closed with it
          closed,     \* closed[p]: fiscal_periods.is_closed
          lockRow,    \* lockRow[p]: the period's row of fiscal_period_locks
          je,         \* je[s]: the committed entry session s created
          today,      \* the server's date
          yearLock, periodLock, rowLock, numLock, \* who holds which lock
          req, pc,
          tx,         \* what s has read and written, not committed
          unread      \* history: who had not posted when the year was summed

vars == <<year, closed, lockRow, je, today, yearLock, periodLock, rowLock,
          numLock, req, pc, tx, unread>>

Entry == [ lines : Lines, date : Dates, key : Keys \cup {NoKey},
           ofYear : BOOLEAN,          \* ("system", id of the year)
           status : {"posted", "void"} ]

ASSUME NoEntryAssumption == NoEntry \notin Entry

Entries == {s \in Sessions : je[s] # NoEntry}

\* What status = 'posted' and the year's dates select, by account.
OnAccount(a) == [e \in Entries |-> je[e].lines[a]]
YearSum(a) ==
  Opening[a] + SumFunctionOnSet(OnAccount(a),
                                {e \in Entries : /\ je[e].status = "posted"
                                                 /\ je[e].date \in YearDates})

WithKey(k) == {e \in Entries : k # NoKey /\ je[e].key = k}
OfYear(d)  == {e \in Entries : je[e].ofYear /\ je[e].date = d}

(***************************************************************************)
(* The closing entry and its reversal                                      *)
(***************************************************************************)
Abs(n) == IF n < 0 THEN -n ELSE n

\* Every revenue is debited and every expense credited by the size of its
\* balance, whatever its sign; the net result goes to retained earnings.
ClosingLines(sum) ==
  [a \in Accounts |->
     CASE a \in Revenue -> Abs(sum[a])
       [] a \in Expense -> -Abs(sum[a])
       [] a = Retained  -> SumFunctionOnSet(sum, Results)
       [] OTHER         -> 0]

\* validate_je_lines, and the CHECK that no line is zero: accounts without
\* movement get no line, retained earnings always gets one.
Balanced(lines)   == SumFunctionOnSet(lines, Accounts) = 0
NoZeroLine(lines) == lines[Retained] # 0

Unswapped(lines) == lines
Reversed(lines)  == [a \in Accounts |-> -lines[a]]

Op(s)  == req[s].op
Key(s) == IF Op(s) \in {"close", "reopen"} THEN req[s].key ELSE NoKey

\* Whether s leaves the periods and lock rows it writes shut.
Shuts(s) == \/ Op(s) \in {"close", "lock"}
            \/ Op(s) = "toggle" /\ ~tx[s].wasClosed

NewEntry(s) ==
  [ lines  |-> CASE Op(s) = "close"  -> ClosingLines(tx[s].sum)
                 [] Op(s) = "reopen" -> Reversed(je[year.closing].lines)
                 [] OTHER            -> req[s].lines,
    date   |-> tx[s].date, key |-> Key(s),
    ofYear |-> Op(s) # "post", status |-> "posted" ]

EmptyTx == [ sum |-> [a \in Results |-> 0], date |-> EndDate, ins |-> NoEntry,
             entry |-> NoSession, rows |-> {}, wasClosed |-> FALSE ]

FirstStep(r) == CASE r.op \in {"close", "reopen"} -> "probe"
                  [] r.op = "toggle"              -> "period"
                  [] r.op = "post"                -> "check"
                  [] OTHER                        -> "row"

Init ==
  /\ year = [status |-> "open", closing |-> NoSession, shut |-> FALSE]
  /\ closed \in [Periods -> BOOLEAN]
  /\ lockRow \in [Periods -> {"absent", "locked", "unlocked"}]
  /\ \A p \in Periods : closed[p] <=> lockRow[p] = "locked"
  /\ je = [s \in Sessions |-> NoEntry]
  /\ today = EndDate
  /\ yearLock = NoSession /\ numLock = NoSession
  /\ periodLock = [p \in Periods |-> NoSession]
  /\ rowLock = [p \in Periods |-> NoSession]
  /\ req \in [Sessions -> Requests]
  /\ pc = [s \in Sessions |-> FirstStep(req[s])]
  /\ tx = [s \in Sessions |-> IF Op(s) = "post"
                              THEN [EmptyTx EXCEPT !.date = req[s].date]
                              ELSE EmptyTx]
  /\ unread = {}

At(s, step) == pc[s] = step
Go(s, step) == pc' = [pc EXCEPT ![s] = step]

Committed == <<year, closed, lockRow, je, today, req>>
Locks     == <<yearLock, periodLock, rowLock, numLock>>

Drop(lock, s) == [p \in Periods |-> IF lock[p] = s THEN NoSession ELSE lock[p]]

ReleaseLocks(s) ==
  /\ yearLock' = IF yearLock = s THEN NoSession ELSE yearLock
  /\ numLock' = IF numLock = s THEN NoSession ELSE numLock
  /\ periodLock' = Drop(periodLock, s) /\ rowLock' = Drop(rowLock, s)

Running(s) == pc[s] \notin {"ok", "replayed", "refused"}

\* An error response or a crash: the transaction is rolled back.
Abort(s) ==
  /\ Running(s)
  /\ ReleaseLocks(s) /\ Go(s, "refused")
  /\ tx' = [tx EXCEPT ![s] = EmptyTx]
  /\ UNCHANGED <<Committed, unread>>

(***************************************************************************)
(* Closing and reopening the year                                          *)
(***************************************************************************)
\* A replay: closing looks for a year that still has the entry as its
\* closing entry, reopening only for the entry.
Replay(s) == /\ WithKey(Key(s)) # {}
             /\ Op(s) = "close" => year.closing \in WithKey(Key(s))

Probe(s) ==
  /\ At(s, "probe")
  /\ Go(s, IF Replay(s) THEN "replayed" ELSE "year")
  /\ UNCHANGED <<Committed, Locks, tx, unread>>

\* SELECT ... FOR UPDATE of the year, and its status.
YearAny(s)   == yearLock \in Sessions \cup {NoSession}
YearFree(s)  == yearLock \in {NoSession, s}
YearGuard(s) == year.status = IF Op(s) = "close" THEN "open" ELSE "closed"

LockYear(s) ==
  /\ At(s, "year") /\ YearFree(s) /\ YearGuard(s)
  /\ yearLock' = s
  /\ Go(s, IF Op(s) = "close" THEN "revenue" ELSE "reverse")
  /\ UNCHANGED <<Committed, periodLock, rowLock, numLock, tx, unread>>

\* The two sums are two statements, each with its own snapshot.
SumRevenue(s) ==
  /\ At(s, "revenue")
  /\ tx' = [tx EXCEPT ![s].sum =
              [a \in Results |-> IF a \in Revenue THEN YearSum(a) ELSE 0]]
  /\ unread' = Sessions \ Entries
  /\ Go(s, "expense")
  /\ UNCHANGED <<Committed, Locks>>

RevenueOnly(s) == tx[s].sum
Summed(s) == [a \in Results |-> IF a \in Expense THEN YearSum(a)
                                                 ELSE tx[s].sum[a]]

SumExpense(s) ==
  /\ At(s, "expense")
  /\ \E a \in Results : Summed(s)[a] # 0
  /\ tx' = [tx EXCEPT ![s].sum = Summed(s)]
  /\ Go(s, "guards")
  /\ UNCHANGED <<Committed, Locks, unread>>

\* date.today(), and the first of the two period checks of a reversal.
OpenOn(d) == \A p \in Periods :
               d \in DatesOf[p] => ~closed[p] /\ lockRow[p] # "locked"

Reverse(s) ==
  /\ At(s, "reverse") /\ OpenOn(today)
  /\ tx' = [tx EXCEPT ![s].date = today]
  /\ Go(s, "guards")
  /\ UNCHANGED <<Committed, Locks, unread>>

(***************************************************************************)
(* create_journal_entry                                                    *)
(***************************************************************************)
\* Where the caller goes on when the call returned.
CallReturns(s) == IF Op(s) = "post" \/ (Op(s) = "close" /\ ~req[s].periods)
                 THEN "finish" ELSE "periods"

\* The key guard, then the validation, then the source guard.  A hit is
\* returned as if it were the entry asked for.
Guards(s) ==
  /\ At(s, "guards")
  /\ LET byKey == WithKey(Key(s))
         hits  == IF byKey # {} THEN byKey ELSE OfYear(tx[s].date)
     IN /\ byKey = {} => Balanced(NewEntry(s).lines)
        /\ IF hits = {} THEN Go(s, "check") /\ UNCHANGED tx
                        ELSE /\ Go(s, CallReturns(s))
                             /\ \E e \in hits : tx' = [tx EXCEPT ![s].entry = e]
  /\ UNCHANGED <<Committed, Locks, unread>>

CheckPeriod(s) ==
  /\ At(s, "check") /\ OpenOn(tx[s].date)
  /\ Go(s, "insert")
  /\ UNCHANGED <<Committed, Locks, tx, unread>>

\* The number's advisory lock, kept to the end of the transaction, the
\* period trigger and the INSERT.  The holder of the year's row is the only
\* one to insert an entry of the year, so its unique index refuses nobody.
Insert(s) ==
  /\ At(s, "insert") /\ numLock = NoSession
  /\ OpenOn(tx[s].date)
  /\ Op(s) # "post" => NoZeroLine(NewEntry(s).lines) /\ OfYear(tx[s].date) = {}
  /\ numLock' = s
  /\ tx' = [tx EXCEPT ![s].ins = NewEntry(s), ![s].entry = s]
  /\ Go(s, CallReturns(s))
  /\ UNCHANGED <<Committed, yearLock, periodLock, rowLock, unread>>

(***************************************************************************)
(* Periods and their lock rows                                             *)
(***************************************************************************)
\* An UPDATE picks its rows from a snapshot, waits for their locks, and
\* writes those that still match.  Closing takes the open periods, then
\* every lock row (the absent ones by an INSERT); reopening takes every
\* period, then the rows that are locked.
PeriodsOf(s) == IF Op(s) = "close" THEN {p \in Periods : ~closed[p]} ELSE Periods
MissingRows(s) == {p \in Periods : lockRow[p] = IF Op(s) = "close" THEN "absent"
                                                                   ELSE "locked"}
LockedRows(s)  == {p \in Periods : lockRow[p] = "locked"}
RowsOf(s)      == IF Op(s) = "close" THEN Periods ELSE LockedRows(s)

FindPeriods(s) ==
  /\ At(s, "periods")
  /\ tx' = [tx EXCEPT ![s].rows = PeriodsOf(s)]
  /\ Go(s, "write_periods")
  /\ UNCHANGED <<Committed, Locks, unread>>

WritePeriods(s) ==
  /\ At(s, "write_periods")
  /\ \A p \in tx[s].rows : periodLock[p] \in {NoSession, s}
  /\ periodLock' = [p \in Periods |-> IF p \in tx[s].rows \cap PeriodsOf(s)
                                      THEN s ELSE periodLock[p]]
  /\ Go(s, "rows")
  /\ UNCHANGED <<Committed, yearLock, rowLock, numLock, tx, unread>>

FindRows(s) ==
  /\ At(s, "rows")
  /\ tx' = [tx EXCEPT ![s].rows = RowsOf(s)]
  /\ Go(s, "write_rows")
  /\ UNCHANGED <<Committed, Locks, unread>>

WriteRows(s) ==
  /\ At(s, "write_rows")
  /\ \A p \in tx[s].rows : rowLock[p] \in {NoSession, s}
  /\ rowLock' = [p \in Periods |-> IF p \in tx[s].rows \cap RowsOf(s)
                                   THEN s ELSE rowLock[p]]
  /\ Go(s, "finish")
  /\ UNCHANGED <<Committed, yearLock, periodLock, numLock, tx, unread>>

\* toggle_fiscal_period: two unlocked reads, then the period by its id, then
\* its lock row, which is inserted when there is none (a closed period, the
\* only one to be opened, has one: TypeOK).
ReadPeriod(s) ==
  /\ At(s, "period")
  /\ tx' = [tx EXCEPT ![s].wasClosed = closed[req[s].period]]
  /\ Go(s, "status")
  /\ UNCHANGED <<Committed, Locks, unread>>

ReadStatus(s) ==
  /\ At(s, "status")
  /\ ~(year.status = "closed" /\ tx[s].wasClosed)
  /\ Go(s, "toggle")
  /\ UNCHANGED <<Committed, Locks, tx, unread>>

Toggle(s) ==
  LET p == req[s].period
  IN /\ At(s, "toggle") /\ periodLock[p] = NoSession
     /\ periodLock' = [periodLock EXCEPT ![p] = s]
     /\ Go(s, "row")
     /\ UNCHANGED <<Committed, yearLock, rowLock, numLock, tx, unread>>

\* The lock row alone: the end of a toggle, or lock_fiscal_period (which
\* refuses a locked row; that it looks before it waits changes nothing, for
\* it would lock a locked row) and unlock_fiscal_period (which does not look).
WriteRow(s) ==
  LET p == req[s].period
  IN /\ At(s, "row") /\ rowLock[p] = NoSession
     /\ Op(s) = "lock" => lockRow[p] = "unlocked"
     /\ Op(s) = "unlock" => lockRow[p] # "absent"
     /\ rowLock' = [rowLock EXCEPT ![p] = s]
     /\ Go(s, "finish")
     /\ UNCHANGED <<Committed, yearLock, periodLock, numLock, tx, unread>>

(***************************************************************************)
(* The end                                                                 *)
(***************************************************************************)
\* The UPDATE of the year, and COMMIT.  Reopening has marked the closing
\* entry void.
Commit(s) ==
  /\ At(s, "finish")
  /\ year' = CASE Op(s) = "close"  -> [status |-> "closed", shut |-> req[s].periods,
                                       closing |-> tx[s].entry]
               [] Op(s) = "reopen" -> [status |-> "open", shut |-> FALSE,
                                       closing |-> NoSession]
               [] OTHER            -> year
  /\ je' = [e \in Sessions |->
              IF e = s THEN tx[s].ins
              ELSE IF Op(s) = "reopen" /\ e = year.closing
                   THEN [je[e] EXCEPT !.status = "void"] ELSE je[e]]
  /\ closed' = [p \in Periods |-> IF periodLock[p] = s THEN Shuts(s) ELSE closed[p]]
  /\ lockRow' = [p \in Periods |->
                   IF rowLock[p] # s THEN lockRow[p]
                   ELSE IF Shuts(s) THEN "locked" ELSE "unlocked"]
  /\ ReleaseLocks(s) /\ Go(s, "ok")
  /\ UNCHANGED <<today, req, tx, unread>>

\* Midnight.
Tick == /\ today + 1 \in Dates
        /\ today' = today + 1
        /\ UNCHANGED <<year, closed, lockRow, je, Locks, req, pc, tx, unread>>

Step(s) ==
  \/ Probe(s) \/ LockYear(s) \/ SumRevenue(s) \/ SumExpense(s) \/ Reverse(s)
  \/ Guards(s) \/ CheckPeriod(s) \/ Insert(s)
  \/ FindPeriods(s) \/ WritePeriods(s) \/ FindRows(s) \/ WriteRows(s)
  \/ ReadPeriod(s) \/ ReadStatus(s) \/ Toggle(s) \/ WriteRow(s)
  \/ Commit(s) \/ Abort(s)

Next == Tick \/ \E s \in Sessions : Step(s)

Spec == Init /\ [][Next]_vars

(***************************************************************************)
(* Properties                                                              *)
(***************************************************************************)
Steps == {"probe", "year", "revenue", "expense", "reverse", "guards", "check",
          "insert", "periods", "write_periods", "rows", "write_rows", "period",
          "status", "toggle", "row", "finish", "ok", "replayed", "refused"}

TypeOK ==
  /\ year \in [ status : {"open", "closed"}, shut : BOOLEAN,
                closing : Sessions \cup {NoSession} ]
  /\ year.status = "closed" <=> year.closing \in Entries
  /\ closed \in [Periods -> BOOLEAN]
  /\ lockRow \in [Periods -> {"absent", "locked", "unlocked"}]
  /\ \A p \in Periods : closed[p] => lockRow[p] # "absent"
  /\ je \in [Sessions -> Entry \cup {NoEntry}]
  /\ today \in Dates
  /\ yearLock \in Sessions \cup {NoSession}
  /\ numLock \in Sessions \cup {NoSession}
  /\ periodLock \in [Periods -> Sessions \cup {NoSession}]
  /\ rowLock \in [Periods -> Sessions \cup {NoSession}]
  /\ req \in [Sessions -> Requests] /\ pc \in [Sessions -> Steps]
  /\ tx \in [Sessions ->
       [ sum : [Results -> Int], date : Dates, ins : Entry \cup {NoEntry},
         entry : Sessions \cup {NoSession}, rows : SUBSET Periods,
         wasClosed : BOOLEAN ]]
  /\ unread \subseteq Sessions

\* The requests that committed.
Done(op) == {s \in Sessions : Op(s) = op /\ pc[s] = "ok"}

\* A year is closed once before it is reopened and reopened once before it is
\* closed, however many requests for it overlap: the status is read under
\* the lock of its row.
CloseReopenAlternate ==
  Cardinality(Done("close")) =
    Cardinality(Done("reopen")) + IF year.status = "closed" THEN 1 ELSE 0

\* Revenue on the debit side and expense on the credit side in one year.  The
\* closing entry doubles such balances; with one kind alone it does not
\* balance, with both it may.
WrongSides(sum) == /\ \E a \in Revenue : sum[a] > 0
                   /\ \E a \in Expense : sum[a] < 0

\* A year closed for the first time has its closing entry, and with it no
\* revenue or expense account has a balance in the year: nothing was summed
\* twice or missed, and an entry that would double a balance was refused,
\* unless there was one on the wrong side of either kind to make up for it.
\* Postings that were under way while the year was summed are another matter:
\* the period check of a posting locks no period.
ResultCarried ==
  /\ year.status = "closed" /\ Cardinality(Done("close")) = 1
  /\ unread \cap Done("post") = {} /\ ~WrongSides(tx[year.closing].sum)
  => /\ je[year.closing].status = "posted"
     /\ \A a \in Results : YearSum(a) = 0

\* Reopening on a later day than the year's last one undoes the first closing
\* in every account, and leaves its entry void.
ReopenUndoesClose ==
  /\ year.status = "open" /\ Cardinality(Done("close")) = 1
  /\ \A s \in Done("reopen") : tx[s].date # EndDate
  => LET ofYear == {e \in Entries : je[e].ofYear}
     IN /\ \A a \in Accounts : SumFunctionOnSet(OnAccount(a), ofYear) = 0
        /\ \A e \in ofYear : Op(e) = "close" => je[e].status = "void"

\* When a closing that closes the periods commits, no date of the year is
\* open, whatever toggles were under way: what a toggle opened meanwhile is
\* shut by its lock row.
CloseShutsPeriods ==
  [][ ~year.shut /\ year'.shut => \A d \in YearDates : ~OpenOn(d)' ]_vars
=============================================================================
