# AMAN ERP: formal models

TLA+ models of the accounting core of AMAN ERP, the TLC runs that check them on
small instances, and theorems checked by TLAPS. Paths below are relative to
`src/backend/` unless they start with `frontend/`, `mobile/` or `docs/`.

## 1. The system

AMAN ERP is a FastAPI back end over PostgreSQL (one database per company), with
Redis, a React client and a React Native client. Almost every handler opens one
database transaction (`utils/tx.py`), runs raw SQL at READ COMMITTED, and commits
when it leaves. Several processes serve one company, and by default each runs its
own job scheduler (`main.py`, `SCHEDULER_MODE`). What makes the system hard is
therefore not the handlers one by one but what their statements do to each other.

| Component | State | Operations | Hard parts |
|---|---|---|---|
| General ledger engine (`services/gl_service.py`, `routers/finance/accounting/journal.py`, triggers of `db_ddl/tenant_schema.py`) | journal entries and lines, account balances, entry numbers | create, post a draft, void, reverse | retries with an Idempotency-Key, duplicate guards, account locks in any order, a rollback inside the call, periods closing meanwhile |
| Journal sources (`models/domain_models/je_source.py`) | none | normalize | distinct producers mapped to one value |
| Fiscal years and locks (`routers/finance/accounting/fiscal.py`, `routers/system_completion/accounting.py`, `utils/fiscal_lock.py`) | years, periods, locks | close a year, reopen it, toggle, lock and unlock periods | closing entry guards, unlocked reads |
| Checks (`routers/finance/checks.py`, `routers/governance.py`) | checks receivable and payable | create, collect, clear, bounce, represent | two bounce endpoints, life cycle against ledger |
| Treasury (`utils/treasury_balance.py`, `routers/finance/treasury.py`, `notes.py`, `petty_cash.py`, `reconciliation.py`) | cached balances, notes, floats, statements | recalculate, transfer, reconcile | a cache recomputed by concurrent requests |
| Audit trail (`services/audit_writer.py`, `utils/audit.py`, `services/audit_outbox_worker.py`, `services/scheduler.py`) | `audit_outbox`, `audit_logs` (hash chain), archive | enqueue, flush, archive | several workers, crashes, savepoints, attempts |
| Event bus (`utils/event_bus.py`, `utils/redis_event_bus.py`, `utils/outbox_relay.py`) | `event_outbox` | publish, relay | at-least-once delivery, events before commit |
| Integration retries (`services/integration_retry_service.py`), e-invoicing (`services/einvoicing/outbox.py`) | retry and dead-letter rows | enqueue, claim, retry | a crash after the claim, duplicate calls |
| Scheduler (`services/scheduler*`, `services/recurring_je_service.py`) | job runs, templates | run a job once | one job in several processes |
| Approvals (`routers/approvals.py`, `utils/approval_utils.py`) | requests, steps, votes | approve, reject, return | quorum under concurrency, write-back to documents |
| Inventory (`routers/inventory/shipments.py`, `transfers.py`, `services/costing_service.py`) | stock, shipments, cost layers | ship, dispatch, receive, cancel | promises against available stock |
| Point of sale (`routers/pos/`) | sessions, orders, returns | open and close a session, sell, hold, return | totals kept and recomputed, returns read without a lock |
| Sales, purchases, manufacturing, payroll, assets, tax, CRM, reports | documents | mostly create/read/update and formulas | they end in the ledger engine |
| Tenant connections (`database.py`) | an LRU of engines | get, evict | shared by threads |
| Clients (`frontend/`, `mobile/`) | views, tokens, offline queue | — | token refresh, offline synchronisation |

How they interact: documents, checks and payroll call the ledger engine inside
their own transaction; the engine and the handlers call `log_activity`, which
enqueues an audit row in that same transaction; checks and treasury recompute a
cached balance from the ledger's lines; period closing changes what the engine
accepts; the scheduler's jobs move the outboxes.

What makes each correct:

* **Ledger**: every balance is the sum of what was posted; an entry is posted once
  and reversed once; a posted entry never changes; a retry does nothing twice and
  is told the truth; nobody waits forever; nothing enters a closed period.
* **Checks**: the money of a check is in the accounts its status says.
* **Treasury**: the cached balance is the ledger's.
* **Audit**: a change and its audit row commit together; the log is one chain;
  every row gets there once.
* **Fiscal years**: a closed year has exactly one live closing entry, and its
  result accounts are zero.
* **Outboxes**: nothing enqueued is lost or stuck, and a crash repeats at most the
  delivery in progress.
* **Approvals**: a request is decided once, by the quorum of every step.
* **Point of sale**: no more of a line is returned than was sold; stock, layers, ledger and
  session totals follow the sales and returns.
* **Inventory**: no more is dispatched than there is, and what is dispatched is
  received or returned.

`PROJECT.json` lists the components with their state of modelling, and the
hazards of the code, each at its line with the properties that guard against it.

## 2. The modules

| Module | Models |
|---|---|
| `JournalLedger` | what the ledger promises, abstractly |
| `GeneralLedger` | the engine, statement by statement; implements `JournalLedger` |
| `JESource` | the source vocabulary, used by `GeneralLedger`, `Checks`, `Purchasing` and `PointOfSale` |
| `Checks` | checks, the engine's guards they run into, and the treasury balance |
| `FiscalYear` | closing and reopening a year, its periods and their locks |
| `AuditTrail` | audit outbox, flush workers, hash chain, retention |
| `Costing` | the costing service: averages, layers, issues and returns; used by the next three |
| `Stock` | shipments, transfers, counts and reservations over the inventory rows |
| `PointOfSale` | tills: sessions, sales, holds and returns, composed with `Stock` |
| `Purchasing` | orders, receipts, contract documents, payments, notes and cancellations, over `Costing` and `JESource` |
| `Approvals` | workflows, requests, the escalation sweep, and the orders they decide |
| `RetryQueues` | the tables of outgoing work and the jobs that drain them |
| `MCGeneralLedger`, `MCChecks`, `MCFiscalYear`, `MCAuditTrail`, `MCStock`, `MCPointOfSale`, `MCPurchasing`, `MCApprovals`, `MCRetryQueues` | instances for TLC |
| `GeneralLedgerProofs`, `PurchasingAndQueuesProofs` (about `Purchasing` and `RetryQueues`), `FiscalYearProofs`, `ChecksProofs`, `GovernanceProofs` (about `Approvals` and `AuditTrail`), `StockProofs`, `PointOfSaleProofs` | theorems about these modules |
| `Sums` | lemmas about sums of a function over a finite set |

### GeneralLedger

A *session* is one request and its transaction. It inserts at most one entry, so
the entry takes the session's name. The committed state is `je` (rows of
`journal_entries` with their lines), `bal` (`accounts.balance`), `closed` (dates in
closed or locked periods) and `docs` (which callers' own documents are committed).
Everything a session wrote and did not commit is in `tx`; `rowLock`, `acctLock` and
`numLock` are the row locks and the advisory lock of `generate_sequential_number`,
which PostgreSQL keeps until the transaction ends. `pc` is the next statement:

| Steps | Code |
|---|---|
| `Probe`, `Precheck` | the router: lookup of the key, status and period checks, and the caller's own writes |
| `ReadDraft`, `WriteKey` | `post_journal_entry` before the engine |
| `ReverseKey`, `LockTarget`, `MarkReversed` | `reverse_journal_entry` around its call of create |
| `LockTarget`, `CheckPeriod`, `Flip`, `ApplyLine` | `post_draft_journal_entry` |
| `LookupKey`, `LookupSource`, `CheckPeriod`, `TakeNumber`, `Insert`, `ApplyLine` | `create_journal_entry` |
| `Recheck` | its `except IntegrityError`, after `db.rollback()` |
| `Commit`, `Rollback`, `Abort` | `transactional()` |
| `ClosePeriod`, `ReopenPeriod` | the commit of the period handlers |
| `BreakDeadlock` | PostgreSQL's deadlock detector |

`Abort` may happen before any statement: it stands for every database error, for
the refusals that depend on data the model does not have (header accounts, account
currency, permissions) and for a lost connection or process.

Rates are whole numbers. Lines are multiplied by the rate where the code multiplies
them, for a reversal too. The balance in foreign currency, entry numbers and
branches are left out. Callers that pass `entry_number_override` take no
number lock; they are not modelled.

### Checks

`Posting`, `Allowed`, `After` and `Recomputes` are the table of the nine handlers;
a request then runs `Probe`, `LockCheck`, `Guards`, `Insert`, `ReadSum`,
`WriteTreasury`, `Finish`. `create_journal_entry` is cut down to its key guard, its
source guard, the number lock, the INSERT and the rollback on a lost race. Check
ids are pairs because the two tables number their rows independently while the
guard compares bare ids. Amounts are one check.

### FiscalYear

One year. `year` is its row (`closing` is `closing_entry_id`, `shut` whether it was
closed with its periods), `closed` is `fiscal_periods.is_closed`, `lockRow` the
period's row of `fiscal_period_locks`, `je` the entries made here, on top of `Opening`,
what was posted before. Row locks are `yearLock`, `periodLock` and `rowLock`.

| Steps | Code |
|---|---|
| `Probe`, `LockYear` | key lookup, `SELECT ... FOR UPDATE` and status of the year |
| `SumRevenue`, `SumExpense` | the two sums of `close_fiscal_year` |
| `Reverse` | `date.today()` and its period check in `reopen_fiscal_year` |
| `Guards`, `CheckPeriod`, `Insert` | `create_journal_entry`, cut down; a posting starts at `CheckPeriod` |
| `FindPeriods`, `WritePeriods`, `FindRows`, `WriteRows` | the UPDATEs over all periods, then lock rows: the snapshot, then the wait and the write |
| `ReadPeriod`, `ReadStatus`, `Toggle`, `WriteRow` | `toggle_fiscal_period`; lock and unlock are `WriteRow` alone |
| `Commit`, `Abort` | `transactional()`, with the UPDATE of the year and of the voided entry |

A session keeps what it wrote as the locks it holds: the value written is fixed by its
operation (`Shuts`). The lines of the closing entry are computed as the code does, with
absolute values on fixed sides, so a year with one revenue on the debit side, or
without any result, is refused here too; what happens with two wrong sides is in
section 4. `OnAccount` is a posted entry's amount in an account, which `YearSum` adds up.

### AuditTrail

A request is `start`, `written`, `logged` (or `unlogged` when the audit INSERT
failed and was swallowed), `committed` or `aborted`. A worker's transaction claims a
batch with `FOR UPDATE SKIP LOCKED`, reads the tail and inserts for each row in a
savepoint, and commits the batch. A row stands for its own hash: `prev` is the row
whose hash was chained. `Archive` is the retention job. It never moves the newest
row, nor one a running flush has not seen: rows it moves are seven years old.

### Costing and Stock

`Costing` has no variables: the stock of a product is a record of its inventory rows
(`inv`), its `cost_price` and its layers in order of creation, and the operators are the
functions of `costing_service.py`. Costs are integers in units of 0.0001, rounded half
up where the code rounds. A product is costed by its layers while one of them has
something left, in whichever warehouse, and by average otherwise (`Layered`); that is
what the code's lookup of the method amounts to.

| Steps of `Stock` | Code |
|---|---|
| `CreateShipment`, `Dispatch`, `Confirm` | `create_shipment`, `dispatch_shipment`, `confirm_shipment`, line by line, all or nothing |
| `CancelRead`, `CancelWrite` | `cancel_shipment`, which locks nothing |
| `TransferLookup`, `TransferMove` | `create_stock_transfer` and `transfer_stock`, of one item and of several (`Moved`, `MoveLine`): their key lookup locks nothing either |
| `Adjust` | `create_adjustment` and `post_inventory_adjustment` |
| `CreateOrder`, `CancelOrder` | the reservations of `create_sales_order` and `cancel_sales_order` |

Handlers that lock the rows they decide on are one step. `sent` and `got` of a shipment
are the days of its two entries; `rows` what its dispatch took from the layers.

### PointOfSale

Extends `Stock`: the steps of `PosNext` are those of the tills and, as `StockStep`, those of
`Stock`, on the same inventory rows, layers and inventory account.

| Steps | Code |
|---|---|
| `OpenSession` | `open_session`, whose search for an open one skips locked rows |
| `CloseRead`, `CloseSum`, `CloseWrite` | `close_session`: the cash, the sums of its UPDATE, and the UPDATE once it has the row |
| `Sell`, `Hold`, `CancelHeld` | `create_order` of a paid or a held order; `cancel_held_order` |
| `ReturnRead`, `ReturnWrite` | `create_return`: its checks, which lock nothing, and its writes |

`SellLine` is the loop over the lines of a sale, `BackItems` with `TakeBack` over the items of a return, `ReverseConsumption` is
`handle_return` for a sale: the consumed rows of the sale (`taken`) go back newest first.
`books` are the accounts only tills post to, `gl[Shop]` the inventory account `Stock` has;
`posted` is what the duplicate guard compares. `late`, `partly`, `entered` and `mixed` are
history: a return or a sale overlapped another request, a return reversed in part, a
document got its entry, and goods moved outside the layers.

### Purchasing

One product, one supplier, one warehouse, one currency. Purchase orders made directly or by
blanket orders, purchase invoices and purchase returns are not here, because none of their
handlers can commit (section 4): orders are those converted from a quotation, purchase
documents those generated from a contract. Every handler that is here locks the order,
document or balance it decides on, so it is one step. `journal` is the entries these
handlers post, after `Normalize`; `Post` is `create_journal_entry` reduced to its duplicate
guard. Receipts, documents and vouchers have number series of their own (`ReceiptId`,
`InvoiceId`, `VoucherId`), each starting after `Before`.

Money is in units of 0.0001, the scale of the columns, and is rounded to 0.01 where the code
rounds it (`Worth`, `Cents` of a voucher's amount in the ledger, `Nearest` of a balance). A
quantity is a number of parts, `Per` of them to the piece: 10000 is the scale of the column.

| Steps | Code |
|---|---|
| `CreateOrder` | `convert_rfq_to_po` (`routers/purchases/orders.py`) |
| `ApproveOrder`, `Receive` | `approve_purchase_order`, `receive_purchase_order` (`orders.py`) |
| `WriteBack` | the write-back of an approval's decision (`routers/approvals.py`) |
| `ContractInvoice` | `generate_contract_invoice` (`routers/contracts.py`), which writes the document and neither entry nor balance |
| `CancelInvoice` | `cancel_purchase_invoice` (`invoices.py`) |
| `PaySupplier`, `TakeRefund` | `create_supplier_payment` (`payments.py`) with any allocations, one per document |
| `CreditNote`, `DebitNote` | `create_purchase_credit_note`, `create_purchase_debit_note` (`payments.py`) |

`revived` is history: a payment or a credit note reached a cancelled document.

### Approvals

A workflow is its list of steps, a step the users it allows. Deleting a workflow
(`DeleteRead`, `DeleteWrite`) and the escalation sweep (`SweepRead`, `SweepWrite`) read
without a lock and write later; everything else locks its request and is one step
(`TakeAction`, with `Outcome`, `MayAct` and `WriteBack`). `asked` is the chain as it was
when the request was made, `edited` whether the workflow changed since.
Which workflow a document gets by its type and amount (`approvals.py:225-238`), and that one
may be created inactive (`:122`), are left out: every workflow fits every document, the
newest active one is taken, and no property depends on which. Documents are purchase
orders, with the part of their life cycle that touches their status, and expenses, whose
write-back always fails (`expenses` has no `status`).

### RetryQueues

`kind` picks one of five tables with their job for the whole behaviour; the parts of a
drain that differ are operators of it (`Waiting`, `Done`, `Dead`, `Failed`, `Takes`). An
attempt ends in one of `Outcomes`: a success was taken by the outside, and of a failure the
model does not know, because a timeout, a charge that is pending and an e-invoice that is
`submitted` all count as failures. A submission by a user may be taken and write no row.

| Steps | Code |
|---|---|
| `Enqueue`, `Submit` | the writers: the event outbox, `enqueue` of zatca, the retry queues; `einvoice_submit` |
| `Claim`, `CommitClaim` | the `FOR UPDATE SKIP LOCKED` query, and the commit of it by the retry queues |
| `Attempt`, `Commit` | the call, its outcome in the row, and the job's COMMIT |
| `LoseOutcome` | a savepoint of the e-invoice relay that fails |
| `AttemptInBlock` | the retry jobs as the scheduler calls them, inside `engine.begin()` |
| `Crash` | the process dies, or the transaction fails |
| `Probe`, `Requeue` | `reprocess_outbox_row` |

`row` is committed, `draft` what the transaction that holds a row has made of it, `sent`
how often the outside took its message, `lost` how often work on it was lost, `submits` how
often a user submitted it.

## 3. The runs

Passing runs:

| Run | Instance | Shows |
|---|---|---|
| `gl_core` | 3 sessions with any of 18 requests: a posted entry with a shared key, a draft, an entry in a foreign currency with a source document, post with and without key, void, reverse, each on any entry; 2 accounts, 2 dates | all safety properties and the refinement |
| `gl_live` | 3 sessions, requests that contend for the number, two accounts and one row; 1 date | every request is answered |
| `checks` | 3 requests of any kind on a receivable and a payable check with the same id, 3 dates, a client key and the governance key | ledger, status and treasury agree |
| `fiscal_year` | 3 requests: close (with or without periods, or retried with a key), reopen, toggle, lock, unlock, or a posting; 2 periods of a day each and a day after; sales, returns, costs, with postings to the wrong side of each | the year and its entries agree |
| `audit` | 3 requests (ordinary, critical, read-only), 2 workers, batches of 2, 2 attempts, 1 crash | the chain, and that every row settles |
| `stock` | 2 shipments (of 2 or of 1+1 lines, or the other way), a transfer (of 3, or of 1+1 lines back) and its retry, an order, a count; 2 warehouses, 2 days; stock in layers, or at the average; FIFO and averages per warehouse | goods, reservations, layers and the transit account |
| `pos` | 1 session, 2 sales (of 3, or of 1+1), 2 returns out of 4 forms, one of which names a line twice, 2 clerks, a closing that counts too little, a sales order, a count; layers of 2+2, or of 3 of 4 at a cost that rounds; the second sale and the first return share an id | goods, layers, ledger, returned quantities and session totals |
| `approvals` | 2 users, 3 keys, 2 workflows without or with two steps, 2 requests on an order and an expense, 1 edit | what an approval means, and that it is final |
| `purchasing` | two orders, of 2 half pieces at 3.0033 and of 2 at 0.0149, received in parts beside one document or voucher and a late decision, stock in a layer or at the average; or 3 documents (of a contract, for 0.01 or 3.00; notes of 0.01 or 1.00) and 2 vouchers of 0.02 or 2.0049 with allocations of 0.01 or 1.9949 to any of them | the accrual, goods at their cost, payables and allocations |
| `queues` | each of the 5 kinds: 2 rows, 2 workers, 2 attempts, 2 losses, 2 submissions, a replayed reprocess request; failed calls taken or not | messages go out within their bounds, finished rows stay so; rows settle |

Why these bounds are enough to be interesting: three sessions are an entry, an
operation on it and a competitor; every race in the engine is between two writers
over something a third made. Two accounts are what a lock cycle needs, two
dates separate a reversal's date from its original's. Two workers make the chain
race, a batch of two lets one row of a batch fail and the other pass, and two
attempts let a row fail and recover or be used up. Two lines, two shipments and a
transfer are what it takes for one to use goods another counts on; three documents and two
vouchers are one paid twice, one it is credited by and one paid beside it. A half piece of
one order is worth 1.50165 and of the other 0.00745, so receipts round up, down and to
nothing that is posted. What receipts change and what payments and cancellations change
meets only in the ledger's numbers, so TLC does not go on from states with both orders and
two documents or vouchers (`Scope`). Overpaying is allowed, which adds behaviours and takes
none away. Receipts are numbered from 1, documents from 2 and vouchers from 4, all on one
day, so that entries collide late in a behaviour and most of it is within `Apart`. Symmetry
over sessions (and dates, in `checks`) is used in runs that check safety only.

`Useful` in `MCChecks` drops the openings from which no request of the run can
move a named check: they only multiply refusals.

Properties:

* `BalancesMatchLedger`: a balance is the sum of the lines of all entries ever posted.
* `ReversedOnce`: an entry is marked reversed exactly when its one reversal exists.
* `AnswersHold`: what a client is told is true, and the same for every retry of one key.
* `EntryHistory`: lines never change, the status goes draft, posted, reversed.
* `ImplementsLedger`: the committed state refines `JournalLedger`. No commit ever
  shows part of a posting. The mapping is direct: `state`, `lines` and `foreign` from
  `je`, `reverses` from the reversal's source and id, `balance` from `bal`.
* `EveryoneAnswered`: no wait lasts forever.
* `LedgerFollowsStatus`: a check's entries add up to its status, and a key posts once.
* `TreasuryIsBankSum`: the cached balance is current.
* `CloseReopenAlternate`: closings and reopenings of the year commit in turn.
* `ResultCarried`, `ReopenUndoesClose`: the first closing leaves no revenue or expense
  in the year, and reopening undoes it in every account. Both leave out what section 4
  describes: postings under way during the sums, a second closing, and a reopening on
  the last day of the year.
* `CloseShutsPeriods`: when a closing with its periods commits, no date is open,
  although it skips a period that an uncommitted toggle is opening. It says nothing of
  toggles that write later on the strength of an earlier read.
* `AuditedTogether`, `ChainLinear`, `FlushedOnce`, `EventuallySettled` of `AuditTrail`:
  section 1.
* `GoodsAccountedFor`: no interleaving makes or loses goods.
* `HoldingsCover`: nothing takes what an order reserved, and the layers of a warehouse never
  hold more than it does. For the layers, a shipment with two lines of one product is
  excepted: on arrival each line creates the layers of both.
* `TransitAccount`: the in-transit account is worth the goods under way. Excepted are
  those shipments, and receipts on the day of the dispatch (section 4).
* `ShopStock`: on hand is what there was, less sales, plus returns and counts, and what
  orders reserved is there.
* `SubledgerAgrees`: the shop's layers never hold more than its shelf, and no opening layer
  more than it did; what the layers gain and lose the shelf does, and the inventory account
  does at their value. Excepted are returns that reversed a consumption in part; quantities
  and value also need no goods to have moved outside the layers, and the value every
  document to have got its entry. The account may be off by the roundings alone (`Roundings`):
  half a cent for each line sold, each return and each count, and half a unit (0.0001) for each
  piece counted, since a count that finds less rounds the cost of a piece first.
* `ReturnsWithinSale`: no more of a line is returned than was sold, but for overlapping
  returns and a request that names a line twice.
* `SessionSales`: `total_sales` is the sum of the session's paid orders, but for a sale
  that committed while a closing waited.
* `AccrualMatchesOrders`: no more is received than ordered, receipts are worth the order's
  price but for half a cent each, and the unbilled account is what they are worth, except
  those of 0.01 or less, which post nothing. `GoodsAtCost`: the goods received are carried
  at what was paid for them, in layers exactly and at the average to half a unit per piece
  and receipt.
* `PayableAgrees`: the supplier's balance is the payables account but for half a cent for
  each voucher not in whole cents, which the ledger rounds and the balance does not. It and
  the account of `AccrualMatchesOrders` are under `Apart`: no document that posts has the
  number of another, so no entry was taken for another document's (section 4).
* `PaidIsAllocated`: what a document has been paid is what vouchers allocate and credit notes
  give, up to the total, over payments, refunds, notes and cancellations, until a payment or
  note puts a cancelled document back in force (section 4).
* `EveryStepApproved`, `DecisionsFinal`: an approved request was approved at each step of
  the chain it was made under, and decisions last; excepted are chains edited meanwhile and
  requests an escalation sweep was holding.
* `SendsBounded`, `FinalStays`, `EventuallySettled` of `RetryQueues`: a
  message goes out no more often than it has attempts, plus once for each lost transaction
  and each submission (a payment or SMS retry: than it has attempts, whatever is lost; an
  event: once but for losses); finished rows stay finished, and no worker sends the message
  of one; and rows that a job drains finish.

Each has a mutant in `PROJECT.json`: a plausible bug in one mapped definition (a lock
not waited for, a lookup left out, a lock released early) that breaks it.

Runs that show where the code departs from what it says:

| Run | What happens |
|---|---|
| `checks_same_day` | two operations on one check on one day are taken for one, and the second posts nothing |
| `retry_stuck` | payment and SMS retries that the scheduler claims stay in `processing` |

`LedgerFollowsStatus` and `TreasuryIsBankSum` are stated for checks
whose requests the guards can tell apart (`Orderly`: different dates, keys of their own,
no governance endpoint); `checks_same_day` is what happens otherwise.

`CHECK_DEADLOCK FALSE` everywhere: a run ends when its requests are answered, which
TLC would call a deadlock. That no request is left waiting is checked as
`EveryoneAnswered`.

## 4. Found while modelling

Behaviour of the code that departs from what it says or plainly intends, besides the
two runs above. The models have it unless the entry says otherwise, and the
properties leave it out by name.

*Ledger and periods*

* A period closed between a posting's check (`gl_service.py:219`, `:470`) and its COMMIT
  does not stop it.
* A reversed original leaves every sum over `status = 'posted'` while its reversal stays
  in (`gl_service.py:613` against `utils/balance_reconciliation.py:39`).
* A reversal in foreign currency is multiplied by the rate a second time
  (`gl_service.py:583-605`).
* The rollback after a lost INSERT race (`gl_service.py:296`) drops the caller's own rows,
  and the request succeeds.
* The closing entry takes each balance absolutely and puts it on a fixed side
  (`fiscal.py:357-400`; line 366: "debit revenue to zero it out"). With a revenue account
  in debit and an expense account in credit by the same amount the entry balances, is
  posted, and doubles both. `WrongSides` leaves this out of `ResultCarried`; without it
  TLC finds sales of 2, returns of 1 and costs of -1.
* A year closed, reopened and closed again gets its void closing entry back as the new one
  (`fiscal.py:411`).

*Sources that are not in the vocabulary* (the cause of `checks_same_day` too)

* A shipment received on the day it was dispatched: both entries are `('shipment', id,
  day)`, and the goods stay in transit in the ledger (`shipments.py:744`).
* Receipts, notes and vouchers are all stored as `system` and numbered apart: two of one
  number and date share an entry, and the second posts nothing. Without `Apart`, TLC violates
  `PayableAgrees` at once.
* Cancelling a purchase document (`invoices.py:1158-1170`) looks for the entry under
  `purchase_invoice`, never finds one, and refuses everything worth more than 0.01
  (`OnlyPettyCancelled`). A contract's document has no entry at all. The check that a document
  has no payments of its own (`:1182-1188`) never finds their entries either.

*Stock*

* A shipment cancelled while it is dispatched is `cancelled` with its goods in transit,
  and can never be received (`shipments.py:815`). Recalling always fails on a
  column that does not exist.
* Two transfers under one key can both move goods (`transfers.py:84`).
* A transfer of all there is in layers creates none at its destination: the method is
  looked up after the layers are used up.

*Point of sale* (`routers/pos/orders.py`, `sessions.py`)

* Sales and returns are both stored as `pos` (`je_source.py:66-67`): a sale and a return
  with one id and day share an entry, and the second posts nothing.
* Two overlapping returns, or two items that name one line, take back more than was sold
  (`orders.py:838-847`). `handle_return` then gives back what is left of the consumption
  and makes a layer of the whole quantity on top (`costing_service.py:665-671`): the layers
  hold more than the shop.
* A closing's UPDATE writes the sums of its snapshot (`sessions.py:153-163`): a sale that
  commits while it waits is lost from `total_sales`, and a sale is accepted by a closed
  session.
* `open_session` says a unique index on the open session "must exist" (`sessions.py:56`);
  there is none.
* A return belongs to the session its clerk has open, its amount is added to the session of
  the sale, and a refund of any method is credited to the cash account; expected cash
  subtracts refunds without their tax.
* Not in the model, for they never succeed: cancelling a sale (columns `pos_orders` has not),
  offline orders (the function they call does not exist), a sale with a discount (its
  entry does not balance).

*Sales* (not modelled for this reason)

* `create_sales_invoice` inserts `invoice_lines.unit_cost` (`routers/sales/invoices.py`), and
  `create_sales_return` inserts `sales_returns.currency`: no table or migration has these columns, so both
  roll back. A delivery's invoice reads `tax_amount` and `line_total`, which its lines have not.

*Purchases*

* Four handlers name columns their tables have not, in no table definition or migration, so
  their transaction always rolls back; the model leaves them out. `create_purchase_order`
  (`orders.py:305-313`), `create_purchase_return` (`returns.py:454-463`) and blanket orders
  (`blanket.py:81`) insert a `party_site_id` that `purchase_orders`
  (`tenant_schema.py:1124-1144`), `invoices` and `blanket_purchase_orders` have not;
  `create_purchase_invoice` inserts `invoice_lines.unit_cost` (`invoices.py:567-587` against
  `tenant_schema.py:1063-1081`), as sales invoices do. No purchase invoice exists, then, that
  a return, a three-way match or `cancel_purchase_invoice`'s undoing of receipts could be
  about.
* The test for an overpayment (`payments.py:339`) takes the supplier's balance, which is
  negative when something is owed (`utils/party_balance.py:36-38`), for what is owed, though
  the comment above it (`:331`) says "warn if paying more than owed": with
  `buying.allow_overpayment` off, an ordinary payment is refused, and a supplier who owes us
  1.00 after a credit note can be paid 1.00 more. `MayPay` has it.
* The balance takes a voucher's amount with four decimals, the ledger its amount rounded to
  0.01 (`payments.py:471`): they drift apart by up to half a cent a voucher. An amount below
  0.005 is refused, for its entry has nothing to post.
* A credit note may be linked to a document of any type and status, and what it takes off
  that document can be refunded in cash again, for its own `paid_amount` stays 0
  (`payments.py:417`, `:1008-1019`).
* A cancelled document that is paid, or that a note is linked to, is `partial`, `paid` or
  `unpaid` again (`payments.py:451`, `:1008-1019`), and cancelling looks at the status only
  (`invoices.py:1143`): a document of 0.01 is cancelled a second time.
* A note changes the inventory account by its subtotal and moves no stock
  (`payments.py:981-984`); receipts of up to 0.01 accrue nothing.

*Approvals*

* A final decision on an expense is always rolled back. An escalated request can never be
  decided. Requests under way follow an edited workflow, and are stranded when it gets
  shorter. A request made while its workflow is being deleted goes with it.
  Nothing ever writes a quorum above one.
* The write-back sets an order's status whatever it has become.
* A leave request (`leaves.py:127`) or a pending expense (`expenses.py:784`) that a workflow
  with steps matches is lost: the INSERT of its approval request names columns that are not
  there (`approval_utils.py:73`), its error is swallowed ("Don't fail the document creation
  if approval fails", `:129`), and the aborted transaction rolls back at its COMMIT, while the
  client is told the id. Creating them is outside the modules; a request of `Approvals` is
  made by `create_approval_request`.

*Queues*

* A failed attempt may have been taken: any exception or timeout and a charge that is
  `pending` (`integration_retry_service.py:371-386`), and an e-invoice that is `submitted`
  (`accounting_depth.py:668`). Each is sent again. So is an e-invoice whose row was waiting
  when a user's submission of it succeeded, for that leaves the row as it is
  (`accounting_depth.py:418-428`). `SendsBounded` says how far this goes.
* `process_payment_retries` leaves the commit of its outcomes to its caller (`:209`); the kind
  `retry` is a caller that commits.
* Submitting an invoice again does not reset a row that was given up
  (`accounting_depth.py:449-475`).
* The bus swallows its handlers' errors, so the relay's branch for dead events cannot be
  reached; and nothing in the code writes `event_outbox`.
* The reprocess request reads its key before it locks the row (`outbox_admin.py:132`);
  `FinalStays` shows this does no harm.

## 5. Assumptions

* PostgreSQL: READ COMMITTED; row and advisory locks last until the transaction ends
  or is rolled back; a unique index makes a second writer wait for the first.
* `KeysIdentifyRequests`: clients do not use one Idempotency-Key for two different
  operations. `MCGeneralLedger` asserts it of its requests. Without it the code
  answers with whatever entry has the key.
* `SourcesIdentifyEntries` (used by `AnswersKept` only): a document posts the same lines
  from one normalized source on one day, so the duplicate warning's answer is the
  entry that was asked for.
* Fairness, `GeneralLedger`: weak fairness of each session's next statement (the
  server executes it once its lock is free) and of the deadlock detector. Clients
  and period handlers have none. Lock queues need none: the sessions are finite and
  each leaves.
* Fairness, `AuditTrail`: weak fairness of each worker's flush, for the scheduler
  starts one every 15 seconds. Requests, errors, crashes and retention have none.
* Fairness, `RetryQueues`: weak fairness of each worker's drain, and of time (`Due`), for
  the tables a job drains: the zatca worker every 5 seconds, payment and SMS retries every
  minute (`services/scheduler.py`), the event relay when `OUTBOX_RELAY=1` (`main.py`). The
  e-invoice relay runs when an operator asks for it and has none.
* `Stock`, `Purchasing`: every warehouse has its inventory row; requests with the key of
  an earlier one are left out where the key is unique and checked under a lock.
* `Checks`, `FiscalYear`, `Stock`, `PointOfSale`, `Purchasing` and `Approvals` are checked for safety only.
* `FiscalYear`: no Idempotency-Key is used for two operations (`KeysIdentifyRequests`); requests arrive from the
  last day of the year on.

## 6. Proofs

`GeneralLedgerProofs`, for any sessions, accounts, dates, keys, documents and requests
that satisfy `NamesAssumption` and `RequestsAssumption`:

* `TypeCorrect`: `Spec => []TypeOK`. `TypeOK` is not inductive: `Flip`, `LockTarget`
  and `MarkReversed` use the row of the request's target, which only the operations
  on an existing entry have, and `ApplyLine` writes the balance of `tx[s].at`, which
  is an account only while lines remain. `Inv` adds `StepsFit`: each operation is at
  one of its own statements, and at `lines` there is a line to apply. `InitInv`
  establishes it, and there is one lemma for each action, over lemmas for the ways an
  action ends (rollback, a step without writes, a row update, applying a line).
* `HistoryKept`: `Spec => EntryHistory`. Only `Commit` changes `je`, so what matters is
  that the uncommitted version of a target row follows from its committed row. That
  needs the row lock: nobody else commits a version of the row while a session holds
  one. `History` says so: an uncommitted version belongs to the holder of the lock,
  follows from the committed row; a post about to flip holds a draft; and the original
  of a reversal past its lock is posted, or reversed already. `Frame` handles
  the sessions an action does not touch.
* `OneReversal`: `KeysIdentifyRequests /\ Spec => []ReversedOnce`. `ClaimsInv` follows
  every key and every reversal to the request it came from (`Provenance`), and says what
  a session that is about to reverse may rely on (`Claims`): past the lock its target is
  posted, unreversed and not a reversal, and stays so until its own entry is committed,
  for it holds the row. `KeyLeadsHome` is where the assumption is needed: an entry
  found by the key of a reversal is a reversal of the same target. Without it the code
  marks an entry reversed that has no reversal.
* `LedgerImplemented`: `KeysIdentifyRequests /\ Spec => ImplementsLedger`. `MoneyInv`
  adds that a session that posts has locked the account rows its entry touches and
  no others, and has computed each new balance from one that is still committed. Only
  `Commit` changes what `JournalLedger` sees; `CreateRefines`, `PostRefines` and
  `ReversalRefines` name the abstract step it is.
* `BalancesKept`: `KeysIdentifyRequests /\ Spec => []BalancesMatchLedger`, from the
  refinement: every step of the abstract ledger counts one more entry and moves the
  balances by its lines, or counts the same entries (`LedgerBalances`). It needs
  `SessionsAssumption`: a finite number of requests.
* `AnswersKept`: `KeysIdentifyRequests /\ SourcesIdentifyEntries /\ Spec => []AnswersHold`.
  The entry a session answers with may be another's, found by key or by source, at five
  statements. `Distinct` tells committed entries apart by both; it is kept because whoever
  has inserted holds the number's lock (`Fresh`), so what the indexes let in stays new until
  it is committed. `Recorded` ties an entry to its request, and a key its creator did not
  give to a posting, so the entry an echoed key names is posted. `Replied` is what an answer
  is worth on its way. `SourcesIdentifyEntries` says that a normalized source with a document
  and a date names one document: without it a creation is answered with another's lines.
* `NormalizeInValues`, `NormalizeIdempotent`: `normalize` always returns a member of the
  vocabulary, and a stored value is its own normal form (so the guards may compare
  stored values).

`Sums` is what the theorems about balances rest on: `SumFunctionOnSet` of the
community modules takes elements in an order that `CHOOSE` fixes, and `SumAdd`,
`SumSame`, `SumSupport`, `SumDrop` and `SumMove` say that the order does not matter; `SumPlus`, `SumZero`
and `SumOpposite` say what sums of sums, of naturals and of opposites are. The library's
induction theorems need an operator as a parameter, which the provers cannot
instantiate; these proofs use a smallest set that fails instead (`Smallest`, from
`WFMin`).

`PurchasingAndQueuesProofs` holds two subjects that share no state. About
`RetryQueues`, for any rows, workers, replays and bounds, and all five kinds:
`QueueTablesCorrect`, `SendsWithinAttempts` and `FinalForGood`. The inductive invariant `IInv` adds
to `QueueTables`: rows that are not finished have attempts left, in the draft too (`AttemptsLeft`);
only a holder has written a row, and it took it unfinished (`LocksHold`); a row to try is
claimed, by a lock or for good, and by one worker (`TodoClaimed`); and every sending shows
in the attempts of the row's draft, as a loss or as a submission (`SendsCounted`: `Within`,
and what remains so if the transaction is lost, `Fallback`). One lemma per action preserves
it. `FinalForGood` follows since every action that writes a row takes it unfinished or goes
through `Requeueable` (`FinishedStays`), and a row to try is claimed and so unfinished
(`FinishedUnsent`).

`GovernanceProofs` holds two subjects that share no state. About `Approvals`, for any users,
documents, keys, chains of any length and bounds: `ApprovalTypes`, `NothingSkipped` and
`DecidedForGood`. `EveryStepApproved` speaks of decided
requests only, so `IInv` adds what a request carries on its way (`OnItsWay`): while it is
pending and its workflow unedited, the workflow still has the chain it was made under, and
every step behind it has its approval. `Tables` holds the shapes and that no
action outlives its request; one lemma per action preserves it, and `SweptInv` serves the two sweeps that rewrite many requests at once.
`DecidedForGood` needs no strengthening: each action that writes a request tests that it is
pending, except the deletion and the write of the escalation sweep.

About `AuditTrail`, for any requests, workers, batch size, attempts and crashes: all four
safety properties (`TypeCorrect`, `NoChangeUnaudited`, `OneChain`,
`LoggedOnce`). That the chain does not fork rests on the unique index and on nothing else,
for the tail is read without a lock. The invariant says why that is enough: one worker at
most has uncommitted links (`Writing`), and they continue the committed chain; and what a
worker has read as the tail is a link no earlier than anything archived or its own
(`TailFits`). If its number is free, then the tail is still the end (`LinkInserted`);
otherwise the number is in the log, not in the archive where the index would not see it.
`InHand` (what a worker has taken is claimed by it and pending) gives `LoggedOnce`, and
`Audited` adds to `AuditedTogether` that a critical row is never left out silently.

`PurchasingAndQueuesProofs`, about `Purchasing`, for any stock, prices, quantities, amounts
and bounds: `NoEntryFound` and `OnlyPettyCancelled`, from the invariant `Unnamed` (every entry
is stored as `system`); and `TypeCorrect`. `TypeOK` says too little of what it speaks of to be
inductive: `Shapes` gives every table its columns (and keeps an order's `received <= qty`, the
worth of its receipts within half a cent each, and its entries balanced). One lemma per
action says what the action does to every table, `Steps` combines them, and `ShapesKept`
follows. Below it are the lemmas about the costing service (`UpdateCostKeeps`,
`CreateLayersKeeps`, `StockInMoves`) and about rounding (`HalfUpClose`, `CentsNat`,
`EntrySum`). On this rest the four theorems about money and goods:

* `BalanceIsPayable` and `AccrualOfOrders`. `Agrees` says that every entry's number is that
  of a document there is, so while the documents are `Apart` a new one finds no entry of its
  number and posts (`PostedNew`). What each action adds to the balance, to the payables
  account, to the accrual account and to the orders is one lemma per action. A voucher not in
  whole cents adds up to half a cent of distance and one to `UnevenCount`; a receipt of 0.01
  or less adds to the orders alone, and one to `petty`.
* `GoodsCarriedAtCost`. `Goods` follows quantity, average and layers through each receipt:
  `LayersGrow` is exact; `AverageGrows` says that the average is rounded once more, and what
  it was off before is not multiplied, since the goods it is an average of only grow.
* `PaymentsAllocated`. `Allotted` and `CreditedTo` are what vouchers and credit notes give to
  a document, and `AllPaid` that it is paid by as much, up to its total. `CappedTwice` is the
  arithmetic: capping at every payment is capping the whole. `PostedOnly` is why voided
  vouchers give nothing: what they gave was taken out of them.

`FiscalYearProofs`, for any finite set of requests, any periods, dates and accounts: all of
`FiscalYear`, that is `TypeCorrect`, `ClosedThenReopened`, `NoPeriodLeftOpen` and, if keys
identify requests, `YearResultCarried` and `ReopeningUndoes`.

* The year and its periods. `ClosedThenReopened` and `NoPeriodLeftOpen` rest on locks that a handler takes in
  one statement and relies on many statements later. `Held`: whoever is between taking the
  year's row and its end holds that row, and the year still has the status it read, so
  the guard it passed is still true when it commits. `RowsTaken`: a closing that closes the
  periods has written every period's lock row before it ends, so a period that a toggle
  opened meanwhile is still shut by its row.
* Types. `JInv` says what a handler has in hand at each of its statements (`Route`,
  `Made`, `Written`, `Locked`), which is what makes `TypeOK` inductive.
* The result. `KInv` follows the year's first closing entry from the sums to the commit:
  what `SumRevenue` and `SumExpense` read is what was booked, but for the postings
  neither could see (`Summary`); the draft is computed from it (`Draft`); nobody else
  has an entry of the year before it (`Unclosed`); and after it the year has this entry
  alone until a reopening adds its reversal (`ClosedOnce`, `Undo`, `Undone`).
* The arithmetic. `NothingLeft`: a closing entry that balances leaves nothing in
  any revenue or expense account. What is left of a revenue is never negative and of an
  expense never positive, and all of it adds up to zero, so if one kind is closed exactly
  the other is. That is where `~WrongSides` is needed, and attempting this proof without it
  is how the doubling of section 4 was found.

`ChecksProofs`, for any requests, dates and keys and finitely many checks: all of
`Checks`, that is `TypeCorrect`, `StatusesPosted` and `TreasuryCurrent`, and `TagProbeIsBlind`.

* A key has one entry. The lookup by key comes long before the INSERT and under no lock;
  `Alone` says why it is enough: who has inserted an entry holds the number's lock, and no
  committed entry has its key. `Unnamed` (every entry is stored as `system`) is why
  only the key finds a repeated request.
* The ledger follows the status. `Works`: from its SELECT FOR UPDATE to its end a session
  holds the check's row and the status is the one it read; a creation holds nothing, but
  no other operation accepts a check that is not there. On an orderly check the guards
  find nothing (`NothingFound`, from `Origin`: a committed entry is the one its session
  asked for), so a change of status never comes without its entry. `Table` is the
  arithmetic of the nine handlers: the entry moves every account by the difference
  between what the two statuses say.
* The treasury. `Treasure`: whoever has read the sum holds the number's lock, so the sum is
  still the ledger's, but for its own entry, when it commits; and who does not recompute
  has not moved the bank (`NotTheBank`).

`StockProofs`, for any finite sets of warehouses, shipments and orders, any forms, costs,
openings and bounds, and both methods and policies: all of `Stock`.

* The helpers. A dispatch, a receipt and a transfer, like the sale and the return of the tills,
  are folds over lists of any length. For each fold there is a lemma about one more line
  (`SentMore`, `MovedMore`, `ReceivedMore`, and `SoldMore`, `BackMore` in the module of the
  tills) and one about all of them (`SentIs` and the like);
  between them stands the smallest number of lines at which it fails. What they
  say is a `Shift`: how much the rows of which warehouses gain or lose on the shelf and in
  transit. `TakeInOrder` and `TakeNewest` are the layers: taking them oldest or newest first
  takes what was asked, or all there is, and from none more than it has.
* `StockTypes`, `StockAccounted`, `StockCovers`, `StockInTransit`: `TypeOK`,
  `GoodsAccountedFor`, `HoldingsCover` and `TransitAccount`. They need one invariant,
  `StockInv`, for each is too weak alone: that a receipt takes no transit below zero needs that
  the row of a warehouse is the sum over its shipments under way (`TransitsAgree`), and that
  cancelling an order gives back no more than is reserved needs `ReservedAgrees`.
  `RowsAgree` ties a shipment's status to its days and to what it moved, but lets a cancelled
  one be at any stage, as the code does; `EntriesAgree` is why a receipt on a later day
  finds no entry. The layers (`Backed`) and the account (`WorthAgrees`) are carried under the
  conditions the properties have, which once false stay false.

`PointOfSaleProofs`, for any tills besides, on top of `StockProofs`: all four properties of
`PointOfSale`.

* `TillGoods`, `TillSessions`, `TillReturns`: `ShopStock`, `SessionSales` and
  `ReturnsWithinSale`. `TillInv` takes from `StockInv` what sales and returns keep
  (`StockCore`: no shipment, order or reservation is theirs) and adds the tables of the tills.
  `SumsAgree`: what a closing has summed is still what was sold when it writes, or the
  session is late. `ReturnsFit`: what a request has found to fit still fits beside the
  returns it has seen; if none of its sale came since (`NamedSince`) and it names each line
  once (`NamedOnce`), it fits beside all of them when it writes. A step of `Stock` is covered
  by the lemmas about `Stock`'s actions (`StockStepKeeps`).
* `TillSubledger`: `SubledgerAgrees`, for shops that ship and transfer nothing (any number of
  warehouses, counts and orders). The hypothesis is what the property is about: transfers
  and shipments post and round as well, and `Roundings` counts those of the tills only. The
  invariant is `Subledger`, on top of `TillInv`. `LayersAgree`: what an opening layer lacks is
  at least what the sales' rows have of it and did not give back (`Outstanding`), and those
  rows are of layers of the shop (`OwnRows`); without the first a return could fill a layer
  beyond its opening. `BooksAgree`: pieces on layers and shelf have moved alike since the
  opening (`Level`), and value and account to within the roundings so far (`Near`). The
  pieces and the value of the layers are sums of products (`Holds`), followed through the
  folds of a sale (`SoldFlows`) and of a return (`BackFlows`); `HalfUpClose` and `CentsClose`
  bound what a rounding loses, `LayersTaken` and `HoldsOneMore` what a count does.
  `BooksKept` puts two moves together: distances add up, and so do the roundings
  (`RoundsAre`). An exact value would be true of costs in whole cents only, which attempting
  this proof showed; `pos` has an opening at a cost of 2.0033 for that.

TLC checked `StockInv` and `TillInv` on the instances of `stock` and `pos` before they were proved.

Model-checked only: liveness, which is beyond the proof system.

## 7. Plan

Done: the ledger with its abstraction and first proofs, checks, the audit trail, fiscal
years, the queues, stock and costing, the tills, purchasing, approvals, and the proofs of all
their safety properties. What is left, most important first:

1. Sales invoices, deliveries and returns, and purchase orders, invoices, the three-way match
   and returns, once their statements fit the tables.
2. The scheduler's job locks, which `AuditTrail` and `RetryQueues` do without.
3. Proofs: `SubledgerAgrees` beside shipments and transfers, with their roundings.

## 8. Not modelled

* Batches, serial numbers, counts by cycle;
  the worker of `payment_gateway_retries` in `services/scheduler.py`.
* Requests for quotation, agreements; taxes, discounts and currencies of purchases; a voucher
  that names one document twice (`payment_allocations` has no unique key against it). Purchase
  orders, invoices and returns that cannot commit, and the three-way match behind them.
* POS: tax, discounts and promotions, loyalty, tables, the kitchen; two sessions at once are
  modelled but not within the bounds of `pos`.
* Documents whose only shared state is the ledger (payroll, assets, subscriptions),
  formulas (tax, end of service), permissions, reports, clients and deployment. The reason
  for each is in `PROJECT.json`.
