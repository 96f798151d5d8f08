----------------------------- MODULE AuditTrail -----------------------------
(***************************************************************************)
(* The audit trail: a business transaction enqueues its audit row in       *)
(* audit_outbox (utils/audit.py, services/audit_writer.py); flush workers  *)
(* move the rows to audit_logs, where each is chained to the one before it *)
(* (services/audit_outbox_worker.py); the retention job moves the oldest   *)
(* rows to audit_logs_archive (services/scheduler.py).                     *)
(*                                                                         *)
(* Every server process runs its own scheduler, so several workers flush   *)
(* one tenant at once.  A worker's transaction is READ COMMITTED.  A row   *)
(* is named after the request that wrote it, and stands for its own hash.  *)
(***************************************************************************)
EXTENDS Integers, FiniteSets, Sequences

CONSTANTS Requests,     \* requests, each with one audit row
          Writers,      \* those that change business data before they log
          Critical,     \* those that log with critical = True
          Workers, NoWorker, NoRow,
          Batch,        \* rows one flush takes (batch_size)
          MaxAttempts,  \* _MAX_ATTEMPTS
          MaxCrashes    \* bound on the crashes of workers in a run

ASSUME AuditAssumption ==
  /\ Writers \subseteq Requests /\ Critical \subseteq Requests
  /\ NoRow \notin Requests /\ NoWorker \notin Workers
  /\ Batch \in Nat \ {0} /\ MaxAttempts \in Nat \ {0} /\ MaxCrashes \in Nat

VARIABLES txn,          \* txn[r]: how far the request's transaction is
          order,        \* the rows enqueued, by enqueued_at
          outbox,       \* outbox[r]: the committed audit_outbox row
          attempts,     \* outbox[r].attempt_count
          logs,         \* audit_logs: records [row, seq, prev]
          archive,      \* audit_logs_archive
          claim,        \* claim[r]: the worker that holds the row FOR UPDATE
          step,         \* step[w]: the worker's next statement
          todo,         \* todo[w]: rows of the batch still to flush
          tail,         \* tail[w]: the chain end it read
          wrote,        \* wrote[w]: log rows inserted, not committed
          failed,       \* failed[w]: rows whose flush failed, not committed
          crashes

business == <<txn, order>>
worker   == <<claim, step, todo, tail, wrote, failed>>
vars == <<business, outbox, attempts, logs, archive, worker, crashes>>

Link == [row : Requests, seq : Nat, prev : Requests \cup {NoRow}]
Start == [row |-> NoRow, seq |-> 0]

Init ==
  /\ txn = [r \in Requests |-> "start"]
  /\ order = <<>>
  /\ outbox = [r \in Requests |-> "none"]
  /\ attempts = [r \in Requests |-> 0]
  /\ logs = {} /\ archive = {}
  /\ claim = [r \in Requests |-> NoWorker]
  /\ step = [w \in Workers |-> "idle"]
  /\ todo = [w \in Workers |-> {}]
  /\ tail = [w \in Workers |-> Start]
  /\ wrote = [w \in Workers |-> {}]
  /\ failed = [w \in Workers |-> {}]
  /\ crashes = 0

(***************************************************************************)
(* The business transaction                                                *)
(***************************************************************************)
Moves(r, state) == txn' = [txn EXCEPT ![r] = state]
FlushUnchanged == UNCHANGED <<attempts, logs, archive, worker, crashes>>

Write(r) ==
  /\ r \in Writers /\ txn[r] = "start"
  /\ Moves(r, "written")
  /\ FlushUnchanged /\ UNCHANGED <<order, outbox>>

\* log_activity.  The INSERT joins the caller's transaction, except when
\* that transaction has written nothing yet (txid_current_if_assigned() is
\* null): then log_activity commits it.
OwnsTransaction(r) == txn[r] = "start"

ReadyToLog(r) == txn[r] = (IF r \in Writers THEN "written" ELSE "start")

Log(r) ==
  /\ ReadyToLog(r)
  /\ order' = Append(order, r)
  /\ \/ /\ OwnsTransaction(r) /\ Moves(r, "committed")
        /\ outbox' = [outbox EXCEPT ![r] = "pending"]
     \/ ~OwnsTransaction(r) /\ Moves(r, "logged") /\ UNCHANGED outbox
  /\ FlushUnchanged

\* The INSERT fails: swallowed, unless the row is critical.
Swallowed(r)    == "unlogged"
AfterFailure(r) == IF r \in Critical THEN "aborted" ELSE Swallowed(r)

LogFails(r) ==
  /\ ReadyToLog(r)
  /\ Moves(r, AfterFailure(r))
  /\ FlushUnchanged /\ UNCHANGED <<order, outbox>>

Commit(r) ==
  /\ txn[r] \in {"logged", "unlogged"}
  /\ Moves(r, "committed")
  /\ outbox' = IF txn[r] = "logged" THEN [outbox EXCEPT ![r] = "pending"]
                                    ELSE outbox
  /\ FlushUnchanged /\ UNCHANGED order

\* A later statement of the handler fails.
Abort(r) ==
  /\ txn[r] \in {"written", "logged", "unlogged"}
  /\ Moves(r, "aborted")
  /\ FlushUnchanged /\ UNCHANGED <<order, outbox>>

(***************************************************************************)
(* The flush worker                                                        *)
(***************************************************************************)
\* WHERE flushed_at IS NULL AND attempt_count < max ... FOR UPDATE SKIP
\* LOCKED
Retryable(r)  == outbox[r] = "pending" /\ attempts[r] < MaxAttempts
OneTooMany(r) == outbox[r] = "pending" /\ attempts[r] <= MaxAttempts
                 /\ claim[r] = NoWorker
Claimable(r)  == Retryable(r) /\ claim[r] = NoWorker

Earlier(q, r) ==
  \E i, j \in DOMAIN order : i < j /\ order[i] = q /\ order[j] = r

Oldest == LET rows == {r \in Requests : Claimable(r)}
          IN {r \in rows : Cardinality({q \in rows : Earlier(q, r)}) < Batch}

Claim(w) ==
  /\ step[w] = "idle" /\ Oldest # {}
  /\ todo' = [todo EXCEPT ![w] = Oldest]
  /\ claim' = [r \in Requests |-> IF r \in Oldest THEN w ELSE claim[r]]
  /\ step' = [step EXCEPT ![w] = "tail"]
  /\ UNCHANGED <<business, outbox, attempts, logs, archive, tail, wrote, failed,
                 crashes>>

\* SELECT chain_seq, hash ... ORDER BY chain_seq DESC LIMIT 1: committed
\* rows of audit_logs and the worker's own.
Seqs(links) == {l.seq : l \in links}
ChainEnd(links) ==
  IF links = {} THEN Start
  ELSE LET l == CHOOSE l \in links : \A k \in links : k.seq <= l.seq
       IN [row |-> l.row, seq |-> l.seq]

ReadTail(w) ==
  /\ step[w] = "tail"
  /\ tail' = [tail EXCEPT ![w] = ChainEnd(logs \cup wrote[w])]
  /\ step' = [step EXCEPT ![w] = "insert"]
  /\ UNCHANGED <<business, outbox, attempts, logs, archive, claim, todo, wrote,
                 failed, crashes>>

\* The row at hand, the oldest one left.
Foremost(w, r) == r \in todo[w] /\ \A q \in todo[w] \ {r} : Earlier(r, q)

\* It is dealt with; the next one, or the COMMIT.
NextRow(w, r) ==
  /\ todo' = [todo EXCEPT ![w] = @ \ {r}]
  /\ step' = [step EXCEPT ![w] = IF todo[w] = {r} THEN "commit" ELSE "tail"]
  /\ tail' = [tail EXCEPT ![w] = Start]
  /\ UNCHANGED <<business, outbox, attempts, logs, archive, claim, crashes>>

RowFails(w, r) == failed' = [failed EXCEPT ![w] = @ \cup {r}] /\ UNCHANGED wrote

\* The unique index ux_audit_logs_chain_seq: a second writer of a chain_seq
\* waits for the first, and fails when it committed.
NoIndex(seq)  == seq \notin Nat
SeqTaken(seq) == seq \in Seqs(logs)

InsertRow(w) ==
  \E r \in todo[w] :
    LET link == [row |-> r, seq |-> tail[w].seq + 1, prev |-> tail[w].row] IN
    /\ step[w] = "insert" /\ Foremost(w, r)
    /\ \A v \in Workers \ {w} : link.seq \notin Seqs(wrote[v])
    /\ \/ SeqTaken(link.seq) /\ RowFails(w, r)
       \/ /\ ~SeqTaken(link.seq)
          /\ wrote' = [wrote EXCEPT ![w] = @ \cup {link}]
          /\ UNCHANGED failed
    /\ NextRow(w, r)

\* Any other error on the row: rolled back to its savepoint.
RowError(w) ==
  \E r \in todo[w] :
    step[w] = "tail" /\ Foremost(w, r) /\ RowFails(w, r) /\ NextRow(w, r)

Forget(w) ==
  /\ step' = [step EXCEPT ![w] = "idle"]
  /\ todo' = [todo EXCEPT ![w] = {}]
  /\ tail' = [tail EXCEPT ![w] = Start]
  /\ wrote' = [wrote EXCEPT ![w] = {}]
  /\ failed' = [failed EXCEPT ![w] = {}]

StillClaimed(w) == Forget(w) /\ UNCHANGED claim

\* The end of a transaction frees the rows it had locked.
Idle(w) ==
  /\ Forget(w)
  /\ claim' = [r \in Requests |-> IF claim[r] = w THEN NoWorker ELSE claim[r]]

\* COMMIT of the batch: the log rows, flushed_at, attempt_count.
CommitBatch(w) ==
  /\ step[w] = "commit"
  /\ logs' = logs \cup wrote[w]
  /\ outbox' = [r \in Requests |-> IF \E l \in wrote[w] : l.row = r
                                   THEN "flushed" ELSE outbox[r]]
  /\ attempts' = [r \in Requests |-> IF r \in failed[w] THEN attempts[r] + 1
                                                        ELSE attempts[r]]
  /\ Idle(w)
  /\ UNCHANGED <<business, archive, crashes>>

\* The process dies, or its connection: PostgreSQL rolls the batch back.
Crash(w) ==
  /\ step[w] # "idle" /\ crashes < MaxCrashes
  /\ crashes' = crashes + 1
  /\ Idle(w)
  /\ UNCHANGED <<business, outbox, attempts, logs, archive>>

\* The retention job moves the rows older than seven years: never the newest
\* one, for a tenant audits more often than that, nor one that a flush in
\* progress has not yet seen.
Archive ==
  \E n \in Seqs(logs) :
    LET old == {l \in logs : l.seq <= n}
    IN /\ \E l \in logs : n < l.seq
       /\ \A w \in Workers : step[w] = "insert" => n <= tail[w].seq
       /\ logs' = logs \ old
       /\ archive' = archive \cup old
       /\ UNCHANGED <<business, outbox, attempts, worker, crashes>>

Flush(w) == Claim(w) \/ ReadTail(w) \/ InsertRow(w) \/ CommitBatch(w)

Next ==
  \/ \E r \in Requests : Write(r) \/ Log(r) \/ LogFails(r) \/ Commit(r) \/ Abort(r)
  \/ \E w \in Workers : Flush(w) \/ RowError(w) \/ Crash(w)
  \/ Archive

\* The scheduler starts a flush every 15 seconds, and a flush runs to its
\* end unless its process dies.
Spec == Init /\ [][Next]_vars /\ \A w \in Workers : WF_vars(Flush(w))
(***************************************************************************)
(* Properties                                                              *)
(***************************************************************************)
TypeOK ==
  /\ txn \in [Requests -> {"start", "written", "logged", "unlogged",
                           "committed", "aborted"}]
  /\ order \in Seq(Requests)
  /\ outbox \in [Requests -> {"none", "pending", "flushed"}]
  /\ attempts \in [Requests -> 0..MaxAttempts]
  /\ logs \subseteq Link /\ archive \subseteq Link
  /\ claim \in [Requests -> Workers \cup {NoWorker}]
  /\ step \in [Workers -> {"idle", "tail", "insert", "commit"}]
  /\ todo \in [Workers -> SUBSET Requests]
  /\ tail \in [Workers -> [row : Requests \cup {NoRow}, seq : Nat]]
  /\ wrote \in [Workers -> SUBSET Link]
  /\ failed \in [Workers -> SUBSET Requests]
  /\ crashes \in 0..MaxCrashes

\* A business change and its audit row are committed together or not at all,
\* when the row is critical or its INSERT succeeded (RUNBOOK: "writes audit
\* events to audit_outbox within the same transaction as the business
\* operation").
AuditedTogether ==
  \A r \in Writers :
    /\ outbox[r] # "none" => txn[r] = "committed"
    /\ r \in Critical /\ txn[r] = "committed" => outbox[r] # "none"

\* The log, with its archive, is one chain: numbered from 1 without gaps or
\* forks, each row carrying the hash of the row before it, whichever
\* workers wrote it and wherever they crashed.
Chain == logs \cup archive

ChainLinear ==
  /\ \A k, l \in Chain : k.seq = l.seq => k = l
  /\ \A l \in Chain :
       IF l.seq = 1 THEN l.prev = NoRow
                    ELSE \E k \in Chain : k.seq = l.seq - 1 /\ k.row = l.prev

\* An outbox row is marked flushed exactly when it is in the log, once: no
\* row is flushed by two workers, and none is lost with a crashed batch.
FlushedOnce ==
  /\ \A k, l \in Chain : k.row = l.row => k = l
  /\ \A r \in Requests : outbox[r] = "flushed" <=> \E l \in Chain : l.row = r

\* Every enqueued row reaches the log, unless its attempts are used up: no
\* crash leaves it claimed forever, and no failing row ahead of it in the
\* queue blocks it.
EventuallySettled ==
  \A r \in Requests :
    outbox[r] = "pending" ~> outbox[r] = "flushed" \/ attempts[r] = MaxAttempts
=============================================================================
