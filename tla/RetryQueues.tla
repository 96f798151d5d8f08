---------------------------- MODULE RetryQueues ----------------------------
(***************************************************************************)
(* The tables that hold work for the outside world, and the jobs that      *)
(* drain them, each in a transaction of its own and in several processes:  *)
(*   "event"     event_outbox             utils/outbox_relay.py            *)
(*   "zatca"     zatca_outbox             services/einvoicing/outbox.py    *)
(*   "einvoice"  einvoice_outbox          routers/finance/accounting_depth *)
(*   "retry"     payment_retry_queue and sms_retry_queue                   *)
(*               services/integration_retry_service.py                     *)
(*   "retry_job" the same, as the scheduler's entry points call it: in a   *)
(*               block of engine.begin().                                  *)
(* A behaviour is about one of them.  A transaction's writes are in draft  *)
(* until it commits, and the rows it holds are locked meanwhile.           *)
(***************************************************************************)
EXTENDS Naturals, FiniteSets

CONSTANTS Kinds, Items, Workers, Admins, NoOne,
          Limit,         \* rows a job takes at once
          MaxAttempts,   \* 10, 5, 6 or 3, by table
          MaxLosses,     \* bound on crashes and lost writes
          MaxSubmits     \* bound on submissions of each invoice by users

ASSUME QueuesAssumption ==
  /\ Kinds \subseteq {"event", "zatca", "einvoice", "retry", "retry_job"}
  /\ NoOne \notin Workers /\ NoOne \notin Items
  /\ Limit \in Nat \ {0} /\ MaxAttempts \in Nat /\ MaxAttempts > 1
  /\ MaxLosses \in Nat /\ MaxSubmits \in Nat

VARIABLES kind,     \* the table
          row,      \* its committed rows
          draft,    \* the rows as the transaction that holds them sees them
          lock,     \* the worker whose transaction holds the row
          pc,       \* where each worker's drain is
          todo,     \* the rows it has yet to try
          sent,     \* how often the outside took the row's message
          lost,     \* how often what was done for the row was lost
          losses,   \* all such losses
          submits,  \* submissions of an invoice by a user
          admin     \* reprocess requests: "new", "done", or the row probed

queueVars == <<kind, row, draft, lock, pc, todo, sent, lost, losses, submits, admin>>

Retries == {"retry", "retry_job"}

\* The states from which a job takes a row.
PendingOnly(k) == {"pending"}
Waiting(k) == IF k = "zatca" THEN {"pending", "failed"} ELSE {"pending"}

Done(k) == CASE k = "event" -> "delivered" [] k \in Retries -> "succeeded"
             [] OTHER -> "submitted"
Dead(k) == CASE k = "zatca" -> "dead_letter" [] k = "einvoice" -> "giveup"
             [] OTHER -> "permanently_failed"
Final(k)  == {Done(k), Dead(k)}
States(k) == {"absent"} \cup Waiting(k) \cup Final(k)
               \cup (IF k \in Retries THEN {"processing"} ELSE {})
Rows(k)   == [state : States(k), attempts : 0..MaxAttempts, due : BOOLEAN, keyed : BOOLEAN]

\* A row after an attempt.
Succeeded(k, r) ==
  [r EXCEPT !.state = Done(k), !.attempts = IF k = "event" THEN @ ELSE @ + 1]
FailedLate(k, r) ==
  [r EXCEPT !.state = IF r.attempts > MaxAttempts THEN Dead(k)
                      ELSE IF k = "zatca" THEN "failed" ELSE "pending",
            !.attempts = @ + 1, !.due = FALSE]
FailedUncounted(k, r) ==
  [r EXCEPT !.state = IF k = "zatca" THEN "failed" ELSE "pending", !.due = FALSE]
Failed(k, r) ==
  [r EXCEPT !.state = IF r.attempts + 1 >= MaxAttempts THEN Dead(k)
                      ELSE IF k = "zatca" THEN "failed" ELSE "pending",
            !.attempts = @ + 1, !.due = FALSE]
\* What an attempt may come to.  A failure says nothing of the outside: a
\* timeout, a charge that is still pending and an e-invoice that is
\* "submitted" are failures of messages that were taken.  Only zatca_outbox
\* sends nothing yet: its submission is a placeholder.  Publishing an event
\* swallows its handlers' errors.
Takes(k) == IF k = "zatca" THEN {FALSE} ELSE BOOLEAN
Outcomes(k, r) ==
  {[taken |-> k # "zatca", row |-> Succeeded(k, r)]} \cup
  (IF k = "event" THEN {} ELSE {[taken |-> t, row |-> Failed(k, r)] : t \in Takes(k)})

Sending(i, taken) == sent' = [sent EXCEPT ![i] = IF taken THEN @ + 1 ELSE @]

Held(w) == {i \in Items : lock[i] = w}

QueuesInit ==
  /\ kind \in Kinds
  /\ row = [i \in Items |-> [state |-> "absent", attempts |-> 0, due |-> FALSE, keyed |-> FALSE]]
  /\ draft = row
  /\ lock = [i \in Items |-> NoOne]
  /\ pc = [w \in Workers |-> "idle"] /\ todo = [w \in Workers |-> {}]
  /\ sent = [i \in Items |-> 0] /\ lost = [i \in Items |-> 0] /\ losses = 0
  /\ submits = [i \in Items |-> 0]
  /\ admin = [a \in Admins |-> "new"]

\* A committed change of one row from outside the jobs; it waits for the
\* row's lock.
Put(i, r) ==
  /\ lock[i] = NoOne
  /\ row' = [row EXCEPT ![i] = r] /\ draft' = [draft EXCEPT ![i] = r]
Write(i, r) ==
  /\ Put(i, r)
  /\ UNCHANGED <<kind, lock, pc, todo, sent, lost, losses>>

(***************************************************************************)
(* Enqueueing                                                              *)
(***************************************************************************)
\* The row commits with the business data.  A second zatca enqueue of an
\* invoice does nothing; a retry becomes due after a minute.
Enqueue(i) ==
  /\ kind # "einvoice" /\ row[i].state = "absent"
  /\ Write(i, [row[i] EXCEPT !.state = "pending", !.due = kind \notin Retries])
  /\ UNCHANGED <<submits, admin>>

\* einvoice_submit, or the clearance of an invoice, calls the adapter itself.
\* If it answers and has not failed, or raises, no row is written: one that is
\* there waits on, to be sent again.  After a failure, or offline, the row is
\* inserted with one attempt made, or its next attempt moved.
Submit(i) ==
  /\ kind = "einvoice" /\ submits[i] < MaxSubmits
  /\ submits' = [submits EXCEPT ![i] = @ + 1]
  /\ \E taken \in Takes(kind) : Sending(i, taken)
  /\ \/ UNCHANGED <<row, draft>>
     \/ Put(i, IF row[i].state = "absent"
               THEN [row[i] EXCEPT !.state = "pending", !.attempts = 1]
               ELSE [row[i] EXCEPT !.due = FALSE])
  /\ UNCHANGED <<kind, lock, pc, todo, lost, losses, admin>>

\* next_attempt_at comes.
Due(i) ==
  /\ row[i].state \in Waiting(kind) /\ ~row[i].due
  /\ Write(i, [row[i] EXCEPT !.due = TRUE])
  /\ UNCHANGED <<submits, admin>>

(***************************************************************************)
(* The jobs                                                                *)
(***************************************************************************)
\* Due rows, skipping the locked ones.
ClaimableLocked(i) == row[i].state \in Waiting(kind) /\ row[i].due
Claimable(i) == row[i].state \in Waiting(kind) /\ row[i].due /\ lock[i] = NoOne

Claim(w) ==
  LET S == {i \in Items : Claimable(i)}
  IN /\ pc[w] = "idle"
     /\ \E B \in SUBSET S :
          /\ B # {} /\ (B = S \/ Cardinality(B) = Limit) /\ Cardinality(B) <= Limit
          /\ todo' = [todo EXCEPT ![w] = B]
          /\ lock' = [i \in Items |-> IF i \in B THEN w ELSE lock[i]]
          /\ draft' = [i \in Items |-> IF i \in B /\ kind \in Retries
                                       THEN [row[i] EXCEPT !.state = "processing"]
                                       ELSE draft[i]]
     /\ pc' = [pc EXCEPT ![w] = "claimed"]
     /\ UNCHANGED <<kind, row, sent, lost, losses, submits, admin>>

\* The transaction of w ends: what it wrote is there, or it is not.
CommitRows(w) ==
  /\ row' = [i \in Items |-> IF lock[i] = w THEN draft[i] ELSE row[i]]
  /\ draft' = draft
  /\ lock' = [i \in Items |-> IF lock[i] = w THEN NoOne ELSE lock[i]]
RollBackRows(w) ==
  /\ row' = row
  /\ draft' = [i \in Items |-> IF lock[i] = w THEN row[i] ELSE draft[i]]
  /\ lock' = [i \in Items |-> IF lock[i] = w THEN NoOne ELSE lock[i]]

\* The retry queues commit their claim before they call anyone.
CommitClaim(w) ==
  /\ kind \in Retries /\ pc[w] = "claimed"
  /\ CommitRows(w)
  /\ pc' = [pc EXCEPT ![w] = "calling"]
  /\ UNCHANGED <<kind, todo, sent, lost, losses, submits, admin>>

Ready(w) == pc[w] = IF kind \in Retries THEN "calling" ELSE "claimed"

\* One row: the call, and its outcome written.  Of the retry queues this is
\* process_payment_retries for a caller that commits, which it leaves to it.
Attempt(w, i) ==
  /\ kind # "retry_job" /\ Ready(w) /\ i \in todo[w]
  /\ \E o \in Outcomes(kind, draft[i]) :
       /\ draft' = [draft EXCEPT ![i] = o.row]
       /\ Sending(i, o.taken)
  /\ lock' = [lock EXCEPT ![i] = w]
  /\ todo' = [todo EXCEPT ![w] = @ \ {i}]
  /\ UNCHANGED <<kind, row, pc, lost, losses, submits, admin>>

\* The e-invoice relay writes each outcome in a savepoint: one that fails
\* loses that row's outcome and no other's.
LoseOutcome(w, i) ==
  /\ kind = "einvoice" /\ Ready(w) /\ i \in todo[w]
  /\ losses < MaxLosses /\ losses' = losses + 1
  /\ lost' = [lost EXCEPT ![i] = @ + 1]
  /\ \E taken \in Takes(kind) : Sending(i, taken)
  /\ todo' = [todo EXCEPT ![w] = @ \ {i}]
  /\ UNCHANGED <<kind, row, draft, lock, pc, submits, admin>>

\* Under the scheduler the commit of the claim has ended the block's
\* transaction: the gateway is called for the first row, and the statement
\* that would write its outcome raises.
AttemptInBlock(w, i) ==
  /\ kind = "retry_job" /\ Ready(w) /\ i \in todo[w]
  /\ \E taken \in Takes(kind) : Sending(i, taken)
  /\ todo' = [todo EXCEPT ![w] = {}] /\ pc' = [pc EXCEPT ![w] = "idle"]
  /\ UNCHANGED <<kind, row, draft, lock, lost, losses, submits, admin>>

Commit(w) ==
  /\ Ready(w) /\ todo[w] = {}
  /\ CommitRows(w)
  /\ pc' = [pc EXCEPT ![w] = "idle"]
  /\ UNCHANGED <<kind, todo, sent, lost, losses, submits, admin>>

\* The process dies, or a statement fails and the transaction with it.
Crash(w) ==
  /\ pc[w] # "idle"
  /\ losses < MaxLosses /\ losses' = losses + 1
  /\ lost' = [i \in Items |-> IF lock[i] = w \/ i \in todo[w] THEN lost[i] + 1 ELSE lost[i]]
  /\ RollBackRows(w)
  /\ pc' = [pc EXCEPT ![w] = "idle"] /\ todo' = [todo EXCEPT ![w] = {}]
  /\ UNCHANGED <<kind, sent, submits, admin>>

(***************************************************************************)
(* reprocess_outbox_row: the requests are replays of one click, under one  *)
(* key.  The key is looked up first, and the row changed in a later        *)
(* statement that takes its lock.                                          *)
(***************************************************************************)
Probe(a, i) ==
  /\ kind = "zatca" /\ admin[a] = "new" /\ row[i].state # "absent"
  /\ admin' = [admin EXCEPT ![a] = IF row[i].keyed THEN "done" ELSE i]
  /\ UNCHANGED <<kind, row, draft, lock, pc, todo, sent, lost, losses, submits>>

AnyRow(r) == TRUE
Requeueable(r) == r.state \in {"failed", "dead_letter"}

Requeue(a) ==
  /\ kind = "zatca" /\ admin[a] \in Items
  /\ LET i == admin[a]
     IN Write(i, IF Requeueable(row[i])
                 THEN [state |-> "pending", attempts |-> 0, due |-> TRUE, keyed |-> TRUE]
                 ELSE row[i])
  /\ admin' = [admin EXCEPT ![a] = "done"]
  /\ UNCHANGED submits

Drain(w) ==
  \/ Claim(w) \/ CommitClaim(w) \/ Commit(w)
  \/ \E i \in Items : Attempt(w, i) \/ LoseOutcome(w, i) \/ AttemptInBlock(w, i)

QueuesNext ==
  \/ \E i \in Items : Enqueue(i) \/ Submit(i) \/ Due(i)
  \/ \E w \in Workers : Drain(w) \/ Crash(w)
  \/ \E a \in Admins : (\E i \in Items : Probe(a, i)) \/ Requeue(a)

\* The scheduled jobs run again and again, and time passes.  Users and
\* failures are under no obligation, nor is the e-invoice relay, which runs
\* when an operator asks for it.
Scheduled == kind # "einvoice"
Fairness == /\ \A w \in Workers : WF_queueVars(Scheduled /\ Drain(w))
            /\ \A i \in Items : WF_queueVars(Due(i))

QueuesSpec == QueuesInit /\ [][QueuesNext]_queueVars /\ Fairness

(***************************************************************************)
(* Properties                                                              *)
(***************************************************************************)
\* Rows stay in the states their table allows, a row that waits has
\* attempts left (so that the limit in a query hides none), and a worker has
\* only rows to try that it claimed.
QueueTables ==
  /\ kind \in Kinds
  /\ row \in [Items -> Rows(kind)] /\ draft \in [Items -> Rows(kind)]
  /\ lock \in [Items -> Workers \cup {NoOne}]
  /\ pc \in [Workers -> {"idle", "claimed", "calling"}]
  /\ todo \in [Workers -> SUBSET Items]
  /\ sent \in [Items -> Nat] /\ lost \in [Items -> Nat] /\ losses \in 0..MaxLosses
  /\ submits \in [Items -> 0..MaxSubmits]
  /\ admin \in [Admins -> {"new", "done"} \cup Items]
  /\ \A i \in Items : row[i].state \in Waiting(kind) => row[i].attempts < MaxAttempts

\* "claim rows so concurrent workers don't double-charge": however many
\* workers drain a table, and though a failed attempt may have been taken, a
\* row's message goes out no more often than it has attempts.  A transaction
\* that was lost after it had sent adds one, but none of a payment or SMS
\* retry, claimed for good before it is tried; so does a user's submission.
SendsBounded ==
  \A i \in Items :
    sent[i] <= CASE kind = "event" -> 1 + lost[i]
                 [] kind = "zatca" -> 0
                 [] kind = "einvoice" -> MaxAttempts + lost[i] + submits[i]
                 [] OTHER -> MaxAttempts

\* What is delivered stays delivered, and what was given up stays so, but
\* for a dead letter that is reprocessed: no drain, submission or late
\* reprocess request brings a finished row back.  Nor does a worker send the
\* message of one, by a claim it made before another finished it: only a user
\* submits it anew.
FinalStays ==
  [][\A i \in Items :
       row[i].state \in Final(kind) =>
         /\ \/ row'[i].state = row[i].state
            \/ row[i].state = "dead_letter" /\ row'[i].state = "pending"
         /\ sent'[i] # sent[i] => submits'[i] # submits[i]]_queueVars

\* "never lost": every row that is enqueued is delivered or given up in the
\* end, through failures, crashes, lost transactions and reprocessing, where a
\* job drains the table.  The retry queues are excepted where a crash or
\* their own entry point leaves a row in processing.
EventuallySettled ==
  \A i \in Items :
    Scheduled /\ row[i].state # "absent" ~>
      \/ row[i].state \in Final(kind)
      \/ kind = "retry" /\ lost[i] > 0
      \/ kind = "retry_job"

\* "either marks the row succeeded or schedules the next retry ... After
\* max_retries attempts the row is escalated": with no crash at all, a
\* claimed row is released or finished.
RetriesResolve ==
  \A i \in Items : row[i].state = "processing" ~> row[i].state # "processing"
=============================================================================
