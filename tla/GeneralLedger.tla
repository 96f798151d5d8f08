--------------------------- MODULE GeneralLedger ---------------------------
(***************************************************************************)
(* The GL engine: services/gl_service.py, the journal router that calls    *)
(* it, and the database guards behind it (db_ddl/tenant_schema.py).        *)
(*                                                                         *)
(* A session is one HTTP request with its database transaction             *)
(* (utils/tx.py) at PostgreSQL's READ COMMITTED: a statement sees what is  *)
(* committed when it starts, plus the session's own writes; a row written  *)
(* or read FOR UPDATE stays locked, and the advisory lock of the entry     *)
(* number stays held, until COMMIT or ROLLBACK.  One action is one such    *)
(* statement.  Each session inserts at most one journal entry, so the      *)
(* entry's id is the session's name.                                       *)
(*                                                                         *)
(* Amounts: lines are a signed amount per account, already in the sign the *)
(* account's type gives it; a request's are in the currency of its entry,  *)
(* a row's in base currency.  Exchange rates are whole numbers, so nothing *)
(* is rounded.                                                             *)
(***************************************************************************)
EXTENDS Integers, FiniteSets, FiniteSetsExt, JESource

CONSTANTS Sessions, Accounts, Dates, Keys, Docs,
          NoSession,    \* no lock holder, no target, no answer
          NoKey,        \* request without an Idempotency-Key
          NoDoc,        \* source_id NULL
          NoAccount,
          Refused,      \* the request ended in an HTTP error
          Requests,     \* what clients may ask, one request per session
          DraftsInClosedPeriod  \* setting fiscal.allow_drafts_in_closed_period

Ops == {"create", "post", "void", "reverse"}

RequestType ==
  [ op : Ops, source : STRING, doc : Docs \cup {NoDoc},
    key : Keys \cup {NoKey}, date : Dates, status : {"draft", "posted"},
    lines : [Accounts -> Int], rate : Nat \ {0},
    target : Sessions \cup {NoSession} ]

ASSUME NamesAssumption ==
  /\ DraftsInClosedPeriod \in BOOLEAN /\ Dates # {}
  /\ NoSession \notin Sessions /\ Refused \notin Sessions
  /\ NoSession # Refused
  /\ NoKey \notin Keys /\ NoDoc \notin Docs /\ NoDoc \notin Sessions
  /\ NoAccount \notin Accounts

\* There are as many requests as clients send, a finite number.
ASSUME SessionsAssumption == IsFiniteSet(Sessions)

\* Only reverse_journal_entry writes source 'reversal'; the other
\* operations name an existing entry; validate_je_lines refuses an entry
\* without amounts.
ASSUME RequestsAssumption ==
  \A r \in Requests :
    /\ r \in RequestType
    /\ r.op = "create" => Normalize(r.source) # "reversal"
    /\ r.op # "create" => r.target \in Sessions
    /\ \E a \in Accounts : r.lines[a] # 0

(***************************************************************************)
(* Committed state                                                         *)
(***************************************************************************)
VARIABLES je,           \* je[e]: the committed row of entry e
          bal,          \* accounts.balance
          closed,       \* dates in a closed or locked period
          docs,         \* sessions whose caller's own document is committed
(***************************************************************************)
(* Locks and sessions                                                      *)
(***************************************************************************)
          rowLock,      \* rowLock[e]: holder of the journal_entries row
          acctLock,     \* acctLock[a]: holder of the accounts row
          numLock,      \* holder of the entry-number advisory lock
          req,          \* req[s]: the request of s
          pc,           \* pc[s]: the statement s executes next
          tx,           \* tx[s]: what s has written and not committed
          answer        \* answer[s]: the entry s returns

locks == <<rowLock, acctLock, numLock>>
vars  == <<je, bal, closed, docs, locks, req, pc, tx, answer>>

Statuses == {"none", "draft", "posted", "reversed"}

Entry == [ status : Statuses, key : Keys \cup {NoKey}, source : Values,
           sid : Docs \cup Sessions \cup {NoDoc}, date : Dates,
           lines : [Accounts -> Int], rate : Nat \ {0} ]

Zero  == [a \in Accounts |-> 0]

\* A row that does not exist (its other fields are irrelevant).
NoRow == [ status |-> "none", key |-> NoKey, source |-> "manual",
           sid |-> NoDoc, date |-> CHOOSE d \in Dates : TRUE, lines |-> Zero,
           rate |-> 1 ]

Exists(row) == row.status # "none"

\* Uncommitted work: the inserted row, the new version of the target row,
\* the new balances of the accounts updated so far, the accounts whose line
\* is still to be applied and the one being applied, and whether the
\* caller's own document is among the uncommitted writes.
TxType == [ ins : Entry, upd : Entry, newBal : [Accounts -> Int],
            todo : SUBSET Accounts, at : Accounts \cup {NoAccount},
            doc : BOOLEAN ]

EmptyTx == [ ins |-> NoRow, upd |-> NoRow, newBal |-> Zero, todo |-> {},
             at |-> NoAccount, doc |-> FALSE ]

Steps == { "probe", "precheck", "rkey", "pread", "pkey", "lock", "key",
           "source", "period", "number", "insert", "recheck", "flip",
           "lines", "mark", "commit", "done" }

Target(s)    == req[s].target
Reversing(s) == req[s].op \in {"void", "reverse"}

(***************************************************************************)
(* What a session sees and what it wants to insert                         *)
(***************************************************************************)
\* The target row as s sees it: its own uncommitted version, if any.
Row(s) == IF Exists(tx[s].upd) THEN tx[s].upd ELSE je[Target(s)]

\* Committed entries with key k, with source triplet (src, id, date), and
\* those the duplicate guard looks for.
WithKey(k) == {e \in Sessions : k # NoKey /\ Exists(je[e]) /\ je[e].key = k}

SameSource(src, id, date) ==
  {e \in Sessions : /\ id # NoDoc /\ Exists(je[e])
                    /\ je[e].source = src /\ je[e].sid = id
                    /\ je[e].date = date}

WithSource(src, id, date) == IF src = "manual" THEN {}
                                               ELSE SameSource(src, id, date)

ReversalsOf(t) == {e \in Sessions : /\ Exists(je[e])
                                    /\ je[e].source = "reversal"
                                    /\ je[e].sid = t}

Unchanged(l) == l
Opposite(l)  == [a \in Accounts |-> -l[a]]

\* source = JESource.normalize(source), the first statement of
\* create_journal_entry.
RawSource(r)    == r.source
StoredSource(r) == Normalize(r.source)

\* create_journal_entry multiplies the lines it is passed by the entry's
\* rate.  A reversal passes lines that already are in base currency, with the
\* rate of the original.
Base(rate, l) == [a \in Accounts |-> rate * l[a]]

NewRow(s) ==
  LET old == je[Target(s)] IN
  IF Reversing(s)
  THEN [ status |-> "posted", key |-> req[s].key, source |-> "reversal",
         sid |-> Target(s), date |-> req[s].date,
         lines |-> Base(old.rate, Opposite(old.lines)), rate |-> old.rate ]
  ELSE [ status |-> req[s].status, key |-> req[s].key,
         source |-> StoredSource(req[s]), sid |-> req[s].doc,
         date |-> req[s].date,
         lines |-> Base(req[s].rate, req[s].lines), rate |-> req[s].rate ]

Touched(l) == {a \in Accounts : l[a] # 0}

\* Sessions holding key k in an uncommitted write: a unique index makes a
\* second writer of k wait for them.
KeyWriters(s, k) ==
  {q \in Sessions \ {s} : /\ k # NoKey
                          /\ \/ tx[q].ins.key = k
                             \/ /\ tx[q].upd.key = k
                                /\ je[Target(q)].key # k}

(***************************************************************************)
(* Initial states                                                          *)
(***************************************************************************)
FirstStep(r) == CASE r.op \in {"create", "void"} -> "probe"
                  [] r.op = "reverse"            -> "precheck"
                  [] r.op = "post"               -> "pread"

Init ==
  /\ je = [e \in Sessions |-> NoRow]
  /\ bal = Zero
  /\ closed = {}
  /\ docs = {}
  /\ rowLock = [e \in Sessions |-> NoSession]
  /\ acctLock = [a \in Accounts |-> NoSession]
  /\ numLock = NoSession
  /\ req \in [Sessions -> Requests]
  /\ pc = [s \in Sessions |-> FirstStep(req[s])]
  /\ tx = [s \in Sessions |-> EmptyTx]
  /\ answer = [s \in Sessions |-> NoSession]

(***************************************************************************)
(* Ends of a session                                                       *)
(***************************************************************************)
Go(s, step)     == pc' = [pc EXCEPT ![s] = step]
Answers(s, e)   == answer' = [answer EXCEPT ![s] = e]
At(s, step)     == pc[s] = step

ReleaseRowsOnly(s) ==
  /\ rowLock'  = [e \in Sessions |-> IF rowLock[e] = s THEN NoSession
                                                       ELSE rowLock[e]]
  /\ acctLock' = [a \in Accounts |-> IF acctLock[a] = s THEN NoSession
                                                        ELSE acctLock[a]]
  /\ UNCHANGED numLock

ReleaseLocks(s) ==
  /\ rowLock'  = [e \in Sessions |-> IF rowLock[e] = s THEN NoSession
                                                       ELSE rowLock[e]]
  /\ acctLock' = [a \in Accounts |-> IF acctLock[a] = s THEN NoSession
                                                        ELSE acctLock[a]]
  /\ numLock'  = IF numLock = s THEN NoSession ELSE numLock

DropWork(s) == /\ tx' = [tx EXCEPT ![s] = EmptyTx]
               /\ ReleaseLocks(s)

RollbackUnnoticed(s) ==
  /\ DropWork(s)
  /\ Go(s, "done")
  /\ UNCHANGED <<je, bal, closed, docs, req, answer>>

\* ROLLBACK and an error response: every raise inside transactional().
Rollback(s) ==
  /\ DropWork(s)
  /\ Answers(s, Refused)
  /\ Go(s, "done")
  /\ UNCHANGED <<je, bal, closed, docs, req>>

\* COMMIT at the clean exit of transactional().
Commit(s) ==
  /\ At(s, "commit")
  /\ je' = [e \in Sessions |->
              IF e = s /\ Exists(tx[s].ins) THEN tx[s].ins
              ELSE IF e = Target(s) /\ Exists(tx[s].upd) THEN tx[s].upd
              ELSE je[e]]
  /\ bal' = [a \in Accounts |-> IF acctLock[a] = s THEN tx[s].newBal[a]
                                                   ELSE bal[a]]
  /\ docs' = IF tx[s].doc THEN docs \cup {s} ELSE docs
  /\ DropWork(s)
  /\ Go(s, "done")
  /\ UNCHANGED <<closed, req, answer>>

\* A database error, a rejected line (header account, currency) or a lost
\* connection, at any statement.
Abort(s) == ~At(s, "done") /\ Rollback(s)

(***************************************************************************)
(* Steps that read before any lock is taken                                *)
(***************************************************************************)
NothingWritten == UNCHANGED <<je, bal, closed, docs, locks, req, tx>>

\* The router's own lookup of the Idempotency-Key.
Probe(s) ==
  /\ At(s, "probe")
  /\ \/ \E e \in WithKey(req[s].key) : Answers(s, e) /\ Go(s, "commit")
     \/ /\ WithKey(req[s].key) = {}
        /\ Go(s, "precheck")
        /\ UNCHANGED answer
  /\ NothingWritten

\* void_journal_entry reads the status of the original without a lock.
VoidRefused(s) ==
  /\ req[s].op = "void"
  /\ \/ je[Target(s)].status \in {"none", "reversed"}
     \/ je[Target(s)].source = "reversal"

\* The router's checks, and the rows its caller writes before the GL call.
Precheck(s) ==
  /\ At(s, "precheck")
  /\ IF req[s].date \in closed \/ VoidRefused(s)
     THEN Rollback(s)
     ELSE /\ tx' = [tx EXCEPT ![s].doc = /\ req[s].op = "create"
                                        /\ req[s].doc # NoDoc]
          /\ Go(s, IF Reversing(s) THEN "rkey" ELSE "key")
          /\ UNCHANGED <<je, bal, closed, docs, locks, req, answer>>

\* The lookup that opens reverse_journal_entry.
ReverseKey(s) ==
  /\ At(s, "rkey")
  /\ \/ \E e \in WithKey(req[s].key) : Answers(s, e) /\ Go(s, "commit")
     \/ WithKey(req[s].key) = {} /\ Go(s, "lock") /\ UNCHANGED answer
  /\ NothingWritten

\* post_journal_entry: the lookup of its key, which echoes the entry in
\* whatever state it is, then the unlocked read and the state guard.
ReadDraft(s) ==
  LET row  == je[Target(s)]
      echo == req[s].key # NoKey /\ Exists(row) /\ row.key = req[s].key
  IN
  /\ At(s, "pread")
  /\ \/ /\ echo
        /\ Answers(s, Target(s)) /\ Go(s, "commit") /\ NothingWritten
     \/ /\ ~echo /\ row.status = "draft"
        /\ Go(s, IF req[s].key \in {NoKey, row.key} THEN "lock" ELSE "pkey")
        /\ NothingWritten /\ UNCHANGED answer
     \/ /\ ~echo /\ row.status # "draft"
        /\ Rollback(s)

(***************************************************************************)
(* Steps on the row of an existing entry                                   *)
(***************************************************************************)
ReadUnlocked(s) == rowLock[Target(s)] \in Sessions \cup {NoSession}
RowFree(s)    == rowLock[Target(s)] \in {NoSession, s}
TakeRow(s)    == rowLock' = [rowLock EXCEPT ![Target(s)] = s]
Update(s, row) == tx' = [tx EXCEPT ![s].upd = row]
KeepCommitted == UNCHANGED <<je, bal, closed, docs, req>>

\* post_journal_entry persists the key where the row has none; a key some
\* committed row already carries is a unique violation, hence a 500.
WriteKey(s) ==
  LET row == je[Target(s)] IN
  /\ At(s, "pkey")
  /\ \/ /\ row.key # NoKey
        /\ Go(s, "lock") /\ NothingWritten /\ UNCHANGED answer
     \/ /\ row.key = NoKey /\ RowFree(s)
        /\ KeyWriters(s, req[s].key) = {}
        /\ IF WithKey(req[s].key) # {}
           THEN Rollback(s)
           ELSE /\ TakeRow(s)
                /\ Update(s, [row EXCEPT !.key = req[s].key])
                /\ Go(s, "lock")
                /\ KeepCommitted /\ UNCHANGED <<acctLock, numLock, answer>>

\* The guards of reverse_journal_entry on the row it locked.
NoReversalYet(s) == Row(s).source # "reversal" /\ ReversalsOf(Target(s)) = {}
Reversible(s) ==
  /\ Row(s).status = "posted" /\ Row(s).source # "reversal"
  /\ ReversalsOf(Target(s)) = {}

\* SELECT ... FOR UPDATE in post_draft_ and reverse_journal_entry, and the
\* guards on the row it returns.
LockTarget(s) ==
  LET row == Row(s)
      next(step) == /\ TakeRow(s) /\ Go(s, step)
                    /\ KeepCommitted /\ UNCHANGED <<acctLock, numLock, tx>>
  IN
  /\ At(s, "lock") /\ RowFree(s)
  /\ \/ Reversing(s) /\ Reversible(s) /\ next("key") /\ UNCHANGED answer
     \/ req[s].op = "post" /\ row.status = "draft" /\ next("period")
        /\ UNCHANGED answer
     \/ req[s].op = "post" /\ row.status = "posted" /\ next("commit")
        /\ Answers(s, Target(s))
     \/ Reversing(s) /\ ~Reversible(s) /\ Rollback(s)
     \/ /\ req[s].op = "post" /\ row.status \notin {"draft", "posted"}
        /\ Rollback(s)

\* UPDATE ... SET status = 'posted', behind the trigger trg_je_period_open.
Flip(s) ==
  /\ At(s, "flip")
  /\ IF Row(s).date \in closed
     THEN Rollback(s)
     ELSE \E a \in Touched(Row(s).lines) :
            /\ tx' = [tx EXCEPT ![s].upd = [Row(s) EXCEPT !.status = "posted"],
                                ![s].todo = Touched(Row(s).lines),
                                ![s].at = a]
            /\ Go(s, "lines")
            /\ KeepCommitted /\ UNCHANGED <<locks, answer>>

\* The last statement of reverse_journal_entry: by id, whatever the status.
MarkReversed(s) ==
  /\ At(s, "mark") /\ RowFree(s)
  /\ TakeRow(s)
  /\ Update(s, [Row(s) EXCEPT !.status = "reversed"])
  /\ Go(s, "commit")
  /\ KeepCommitted /\ UNCHANGED <<acctLock, numLock, answer>>
(***************************************************************************)
(* create_journal_entry                                                    *)
(***************************************************************************)
\* create_journal_entry returns the existing entry e to its caller, which
\* is the handler itself or reverse_journal_entry.
ReturnExisting(s, e) ==
  /\ Answers(s, e)
  /\ Go(s, IF Reversing(s) THEN "mark" ELSE "commit")

LookupKey(s) ==
  /\ At(s, "key")
  /\ \/ \E e \in WithKey(req[s].key) : ReturnExisting(s, e)
     \/ WithKey(req[s].key) = {} /\ Go(s, "source") /\ UNCHANGED answer
  /\ NothingWritten

\* The source-level duplicate guard.
LookupSource(s) ==
  LET row  == NewRow(s)
      hits == WithSource(row.source, row.sid, row.date)
  IN
  /\ At(s, "source")
  /\ \/ \E e \in hits : ReturnExisting(s, e)
     \/ hits = {} /\ Go(s, "period") /\ UNCHANGED answer
  /\ NothingWritten

\* check_fiscal_period_open: it finds no locked row, so it locks none.
CheckPeriod(s) ==
  LET posting == req[s].op = "post"
      row     == IF posting THEN [Row(s) EXCEPT !.status = "posted"]
                            ELSE NewRow(s)
  IN
  /\ At(s, "period")
  /\ IF row.date \in closed /\ (row.status = "posted" \/ ~DraftsInClosedPeriod)
     THEN Rollback(s)
     ELSE /\ Go(s, IF posting THEN "flip" ELSE "number")
          /\ NothingWritten /\ UNCHANGED answer

\* generate_sequential_number: pg_advisory_xact_lock.
TakeNumber(s) ==
  /\ At(s, "number") /\ numLock = NoSession
  /\ numLock' = s
  /\ Go(s, "insert")
  /\ KeepCommitted /\ UNCHANGED <<rowLock, acctLock, tx, answer>>

\* What makes PostgreSQL refuse the INSERT: the period trigger and the
\* unique indexes uq_je_idempotency and uq_je_source.  The second excepts the
\* source 'Manual', which a normalized source never is.
InsertRefused(row) ==
  \/ row.status = "posted" /\ row.date \in closed
  \/ WithKey(row.key) # {}
  \/ SameSource(row.source, row.sid, row.date) # {}

\* The INSERT of the header with its lines.  A refusal is an IntegrityError,
\* on which the whole transaction of the caller is rolled back before the
\* caller goes on.
Insert(s) ==
  LET row == NewRow(s) IN
  /\ At(s, "insert")
  /\ KeyWriters(s, row.key) = {}
  /\ \/ InsertRefused(row) /\ DropWork(s) /\ Go(s, "recheck") /\ UNCHANGED answer
     \/ /\ ~InsertRefused(row) /\ row.status = "draft"
        /\ tx' = [tx EXCEPT ![s].ins = row]
        /\ Answers(s, s) /\ Go(s, "commit") /\ UNCHANGED locks
     \/ /\ ~InsertRefused(row) /\ row.status = "posted"
        /\ \E a \in Touched(row.lines) :
             tx' = [tx EXCEPT ![s].ins = row, ![s].todo = Touched(row.lines),
                              ![s].at = a]
        /\ Go(s, "lines") /\ UNCHANGED <<locks, answer>>
  /\ KeepCommitted

\* After the rollback: look for the winner of the race, by key, then by
\* source, else 409.
Recheck(s) ==
  LET row    == NewRow(s)
      source == WithSource(row.source, row.sid, row.date)
  IN
  /\ At(s, "recheck")
  /\ \/ \E e \in WithKey(row.key) : ReturnExisting(s, e) /\ NothingWritten
     \/ /\ WithKey(row.key) = {}
        /\ \E e \in source : ReturnExisting(s, e) /\ NothingWritten
     \/ WithKey(row.key) = {} /\ source = {} /\ Rollback(s)

\* update_account_balance for one line: SELECT ... FOR UPDATE, then
\* balance = balance + change.  The lines come in the caller's order.
Posting(s) == IF req[s].op = "post" THEN tx[s].upd ELSE tx[s].ins

AcctSeen(a) == a \in Accounts
AcctFree(a) == acctLock[a] = NoSession

ApplyLine(s) ==
  LET a    == tx[s].at
      rest == tx[s].todo \ {a}
      done(next) == tx' = [tx EXCEPT
                             ![s].newBal[a] = bal[a] + Posting(s).lines[a],
                             ![s].todo = rest, ![s].at = next]
  IN
  /\ At(s, "lines") /\ AcctFree(a)
  /\ acctLock' = [acctLock EXCEPT ![a] = s]
  /\ \/ /\ rest # {} /\ \E b \in rest : done(b)
        /\ UNCHANGED <<pc, answer>>
     \/ /\ rest = {} /\ done(NoAccount)
        /\ Answers(s, IF req[s].op = "post" THEN Target(s) ELSE s)
        /\ Go(s, IF Reversing(s) THEN "mark" ELSE "commit")
  /\ KeepCommitted /\ UNCHANGED <<rowLock, numLock>>

(***************************************************************************)
(* Periods, deadlocks, specification                                       *)
(***************************************************************************)
\* lock_fiscal_period, toggle_fiscal_period and year-end closing, reduced
\* to their commit.
ClosePeriod(d)  == d \notin closed /\ closed' = closed \cup {d}
                   /\ UNCHANGED <<je, bal, docs, locks, req, pc, tx, answer>>
ReopenPeriod(d) == d \in closed /\ closed' = closed \ {d}
                   /\ UNCHANGED <<je, bal, docs, locks, req, pc, tx, answer>>

\* Whom s waits for: nobody, or the one holder of the lock it needs next.
WaitsFor(s) ==
  ( CASE pc[s] = "number"           -> {numLock}
      [] pc[s] \in {"lock", "mark"} -> {rowLock[Target(s)]}
      [] pc[s] = "lines"            -> {acctLock[tx[s].at]}
      [] pc[s] = "insert"           -> KeyWriters(s, req[s].key)
      [] /\ pc[s] = "pkey"
         /\ je[Target(s)].key = NoKey
                                    -> {rowLock[Target(s)]}
                                         \cup KeyWriters(s, req[s].key)
      [] OTHER                      -> {} ) \ {NoSession, s}

\* PostgreSQL's deadlock detector rolls back a session of a wait cycle.
Deadlocked(C) == C # {} /\ C = UNION {WaitsFor(c) : c \in C}

BreakDeadlock(s) ==
  /\ \E C \in SUBSET Sessions : s \in C /\ Deadlocked(C)
  /\ Rollback(s)

Step(s) ==
  \/ Probe(s) \/ Precheck(s) \/ ReverseKey(s) \/ ReadDraft(s) \/ WriteKey(s)
  \/ LockTarget(s) \/ LookupKey(s) \/ LookupSource(s) \/ CheckPeriod(s)
  \/ TakeNumber(s) \/ Insert(s) \/ Recheck(s) \/ ApplyLine(s) \/ Flip(s)
  \/ MarkReversed(s) \/ Commit(s)

Next ==
  \/ \E s \in Sessions : Step(s) \/ Abort(s) \/ BreakDeadlock(s)
  \/ \E d \in Dates : ClosePeriod(d) \/ ReopenPeriod(d)

Spec == Init /\ [][Next]_vars

\* Every statement is eventually executed once its locks are free, and the
\* deadlock detector eventually runs.
FairSpec ==
  /\ Spec
  /\ \A s \in Sessions : WF_vars(Step(s)) /\ WF_vars(BreakDeadlock(s))
(***************************************************************************)
(* Properties                                                              *)
(***************************************************************************)
TypeOK ==
  /\ je \in [Sessions -> Entry]
  /\ bal \in [Accounts -> Int]
  /\ closed \subseteq Dates /\ docs \subseteq Sessions
  /\ rowLock \in [Sessions -> Sessions \cup {NoSession}]
  /\ acctLock \in [Accounts -> Sessions \cup {NoSession}]
  /\ numLock \in Sessions \cup {NoSession}
  /\ req \in [Sessions -> Requests]
  /\ pc \in [Sessions -> Steps]
  /\ tx \in [Sessions -> TxType]
  /\ answer \in [Sessions -> Sessions \cup {NoSession, Refused}]

\* What the engine's callers are trusted with: a key names one operation on
\* one entry, and a normalized source with a document id and a date names
\* one business document.
SamePurpose(r1, r2) ==
  \/ r1 = r2 /\ r1.op = "create"
  \/ /\ r1.op # "create" /\ r2.op # "create" /\ r1.target = r2.target
     /\ (r1.op = "post") = (r2.op = "post")

KeysIdentifyRequests ==
  \A r1, r2 \in Requests :
    r1.key = r2.key /\ r1.key # NoKey => SamePurpose(r1, r2)

SourcesIdentifyEntries ==
  \A r1, r2 \in Requests :
    /\ r1.op = "create" /\ r2.op = "create"
    /\ StoredSource(r1) = StoredSource(r2) /\ StoredSource(r1) # "manual"
    /\ r1.doc = r2.doc /\ r1.doc # NoDoc /\ r1.date = r2.date
    => Base(r1.rate, r1.lines) = Base(r2.rate, r2.lines)

\* The ledger is in balance with its history: an account's balance is the
\* sum of the lines of every entry that was ever posted, so no update is
\* lost or applied twice however the sessions interleave
\* (update_account_balance, post_draft_journal_entry).
Counted(row) == row.status \in {"posted", "reversed"}

BalancesMatchLedger ==
  \A a \in Accounts :
    bal[a] = SumFunctionOnSet([e \in Sessions |-> je[e].lines[a]],
                              {e \in Sessions : Counted(je[e])})

\* An entry is reversed at most once, is marked exactly when its reversal
\* exists, and the reversal of an entry in base currency has the opposite
\* lines (reverse_journal_entry).
Foreign(row) == row.rate # 1

ReversedOnce ==
  \A t \in Sessions :
    /\ (je[t].status = "reversed") = (ReversalsOf(t) # {})
    /\ \A r1, r2 \in ReversalsOf(t) :
         /\ r1 = r2
         /\ ~Foreign(je[t]) => je[r1].lines = Opposite(je[t].lines)

Succeeded(s) == At(s, "done") /\ answer[s] \in Sessions

AnswersTrue ==
  \A s \in Sessions : Succeeded(s) =>
    CASE req[s].op = "create" -> /\ Exists(je[answer[s]])
                                 /\ je[answer[s]].lines
                                      = Base(req[s].rate, req[s].lines)
      [] req[s].op = "post"   -> Counted(je[Target(s)])
      [] Reversing(s)         -> /\ je[Target(s)].status = "reversed"
                                 /\ answer[s] \in ReversalsOf(Target(s))

RetriesAgree ==
  \A s, q \in Sessions :
    /\ Succeeded(s) /\ Succeeded(q)
    /\ req[s].key = req[q].key /\ req[s].key # NoKey
    => answer[s] = answer[q]

\* A success the client saw is true of the committed ledger: the created
\* entry exists with the lines asked for, the posted draft counts, the
\* reversed entry is reversed by the entry returned.  Retries with one
\* Idempotency-Key, concurrent or not, all get the same entry
\* (uq_je_idempotency and the recheck after IntegrityError).
AnswersHold == AnswersTrue /\ RetriesAgree

\* What may become of a committed row.
Follows(old, new) ==
  /\ new.lines = old.lines /\ new.rate = old.rate /\ new.date = old.date
  /\ new.source = old.source /\ new.sid = old.sid
  /\ old.key # NoKey => new.key = old.key
  /\ \/ new.status = old.status
     \/ old.status = "draft" /\ new.status = "posted"
     \/ old.status = "posted" /\ new.status = "reversed"

\* A committed entry keeps its lines, date and source, a key once set stays,
\* and its status only moves from draft to posted to reversed
\* (trg_je_immutable, and the guards that keep a draft from being posted
\* twice or a reversed entry from being posted again).
EntryHistory ==
  [][ \A e \in Sessions : Exists(je[e]) => Follows(je[e], je'[e]) ]_vars

\* The committed rows and balances implement the abstract ledger: no step
\* ever shows half a posting or half a reversal.
Ledger == INSTANCE JournalLedger WITH
            Entries <- Sessions, NoEntry <- NoSession,
            state <- [e \in Sessions |-> je[e].status],
            lines <- [e \in Sessions |-> je[e].lines],
            reverses <- [e \in Sessions |->
                           IF je[e].source = "reversal" THEN je[e].sid
                                                        ELSE NoSession],
            foreign <- [e \in Sessions |-> Foreign(je[e])],
            balance <- bal

ImplementsLedger == Ledger!LedgerSpec

\* Every request is answered: no wait for a lock lasts forever.
EveryoneAnswered == <>(\A s \in Sessions : At(s, "done"))
=============================================================================
