------------------------------- MODULE Checks -------------------------------
(***************************************************************************)
(* Checks receivable and payable: routers/finance/checks.py, the second    *)
(* bounce endpoint of routers/governance.py, and the treasury balance they *)
(* recompute (utils/treasury_balance.py).                                  *)
(*                                                                         *)
(* A session is one request in one READ COMMITTED transaction, as in       *)
(* GeneralLedger; create_journal_entry is cut down to what a check passes  *)
(* it: a key, a source that normalizes to "system", the check's id and a   *)
(* date.  A check is a pair <<kind, id>>, and the two tables number their  *)
(* rows independently.  All amounts are one check.                         *)
(***************************************************************************)
EXTENDS Integers, FiniteSets, FiniteSetsExt, JESource

CONSTANTS Sessions, Checks, Dates, Keys, NoSession, NoKey, NoEntry,
          Requests      \* what clients may ask, one request per session

Kind(c) == c[1]
Id(c)   == c[2]

Accounts == {"bank", "1205", "receivable", "2105", "payable"}
Statuses == {"none", "pending", "issued", "collected", "cleared", "bounced"}
Ops == {"create", "collect", "clear", "bounce", "represent",
        "governance_bounce"}

ASSUME ChecksAssumption ==
  /\ Checks \subseteq {"receivable", "payable"} \X Nat
  /\ IsFiniteSet(Sessions) /\ IsFiniteSet(Checks)
  /\ NoSession \notin Sessions /\ NoKey \notin Keys
  /\ \A r \in Requests :
       /\ r \in [op : Ops, check : Checks, date : Dates, key : Keys \cup {NoKey}]
       /\ r.op = "clear" => Kind(r.check) = "payable"
       /\ r.op \in {"collect", "governance_bounce"}
          => Kind(r.check) = "receivable"
       /\ r.op = "create" => r.key = NoKey
       /\ r.op = "governance_bounce" => r.key = <<"chk_bnc", Id(r.check)>>

VARIABLES status,       \* status[c]: the committed status of the check
          je,           \* je[s]: the committed entry session s created
          treasury,     \* treasury_accounts.current_balance of the bank
          rowLock,      \* rowLock[c]: holder of the check's row
          numLock,      \* holder of the entry-number advisory lock
          treasuryLock, \* holder of the treasury_accounts row
          opening,      \* opening[c]: the status before the first request
          req, pc,
          tx            \* what s has read and written, not committed

vars == <<status, je, treasury, rowLock, numLock, treasuryLock, opening, req,
          pc, tx>>

(***************************************************************************)
(* The table of postings                                                   *)
(***************************************************************************)
\* The states an operation accepts and the state it leaves.
Allowed(op, kind) ==
  CASE op = "create"                                  -> {"none"}
    [] op = "collect"                                 -> {"pending"}
    [] op = "clear"                                   -> {"issued"}
    [] op = "bounce" /\ kind = "receivable"           -> {"pending", "collected"}
    [] op = "bounce" /\ kind = "payable"              -> {"issued", "cleared"}
    [] op = "represent"                               -> {"bounced"}
    [] op = "governance_bounce" -> Statuses \ {"none", "bounced"}

Drawn(op) == op \in {"create", "represent"}

After(op, kind) ==
  CASE op = "collect"                                 -> "collected"
    [] op = "clear"                                   -> "cleared"
    [] op \in {"bounce", "governance_bounce"}         -> "bounced"
    [] Drawn(op) /\ kind = "receivable"               -> "pending"
    [] Drawn(op) /\ kind = "payable"                  -> "issued"

\* Debited and credited account of the entry, given the status read.
Posting(op, kind, from) ==
  CASE op = "collect"                         -> <<"bank", "1205">>
    [] op = "clear"                           -> <<"2105", "bank">>
    [] op = "governance_bounce"               -> <<"receivable", "bank">>
    [] op = "bounce" /\ from = "pending"      -> <<"receivable", "1205">>
    [] op = "bounce" /\ from = "collected"    -> <<"receivable", "bank">>
    [] op = "bounce" /\ from = "issued"       -> <<"2105", "payable">>
    [] op = "bounce" /\ from = "cleared"      -> <<"bank", "payable">>
    [] Drawn(op) /\ kind = "receivable"       -> <<"1205", "receivable">>
    [] Drawn(op) /\ kind = "payable"          -> <<"payable", "2105">>

\* The treasury balance is recomputed when the handler moved the bank; the
\* governance endpoint never recomputes it.
Recomputes(op, from) == \/ op \in {"collect", "clear"}
                        \/ op = "bounce" /\ from \in {"collected", "cleared"}

\* The source each handler passes; creation passes no source_id.
Source(op, kind) ==
  CASE op = "collect"                               -> "check_collection"
    [] op = "clear"                                 -> "check_clearance"
    [] op = "governance_bounce"                     -> "checkbounce"
    [] op = "bounce" /\ kind = "receivable"         -> "check_bounce"
    [] op = "bounce" /\ kind = "payable"            -> "check_payable_bounce"
    [] op = "represent" /\ kind = "receivable"      -> "check_re_presentation"
    [] op = "represent" /\ kind = "payable"         -> "check_payable_represent"
    [] op = "create" /\ kind = "receivable"         -> "check_receivable"
    [] op = "create" /\ kind = "payable"            -> "check_payable"

HasSourceId(r) == r.op # "create"

\* The first statement of create_journal_entry.
StoredSource(op, kind) == Normalize(Source(op, kind))

\* The status of a check and what the ledger should say of it: a debit (+1)
\* and a credit (-1), or nothing.
Expected(kind, st) == [a \in Accounts |->
  CASE kind = "receivable" /\ st = "pending"   ->
         IF a = "1205" THEN 1 ELSE IF a = "receivable" THEN -1 ELSE 0
    [] kind = "receivable" /\ st = "collected" ->
         IF a = "bank" THEN 1 ELSE IF a = "receivable" THEN -1 ELSE 0
    [] kind = "payable" /\ st = "issued"       ->
         IF a = "payable" THEN 1 ELSE IF a = "2105" THEN -1 ELSE 0
    [] kind = "payable" /\ st = "cleared"      ->
         IF a = "payable" THEN 1 ELSE IF a = "bank" THEN -1 ELSE 0
    [] OTHER                                   -> 0 ]

StatusesOf(kind) == IF kind = "receivable"
                    THEN {"none", "pending", "collected", "bounced"}
                    ELSE {"none", "issued", "cleared", "bounced"}

Entry == [ check : Checks, key : Keys \cup {NoKey}, source : Values,
           withId : BOOLEAN, date : Dates, debit : Accounts, credit : Accounts ]

ASSUME NoEntryAssumption == NoEntry \notin Entry

EmptyTx == [ from |-> "none", ins |-> NoEntry, sum |-> 0, treasury |-> FALSE ]

Effect(entry, a) == (IF entry.debit = a THEN 1 ELSE 0)
                    - (IF entry.credit = a THEN 1 ELSE 0)

Entries == {s \in Sessions : je[s] # NoEntry}

\* Committed entries with key k, and with the stored source triplet.
WithKey(k) == {e \in Entries : k # NoKey /\ je[e].key = k}
WithSource(src, id, date) ==
  {e \in Entries : /\ je[e].withId /\ Id(je[e].check) = id
                   /\ je[e].source = src /\ je[e].date = date}

Moves(a) == [e \in Entries |-> Effect(je[e], a)]

\* The bank account's movement since the opening, as session s sees it.
BankSum(entries) ==
  SumFunctionOnSet([c \in Checks |-> Expected(Kind(c), opening[c])["bank"]], Checks)
  + SumFunctionOnSet(Moves("bank"), entries)

(***************************************************************************)
(* A request                                                               *)
(***************************************************************************)
Init ==
  /\ opening \in [Checks -> Statuses]
  /\ \A c \in Checks : opening[c] \in StatusesOf(Kind(c))
  /\ status = opening
  /\ je = [s \in Sessions |-> NoEntry]
  /\ treasury = BankSum({})
  /\ rowLock = [c \in Checks |-> NoSession]
  /\ numLock = NoSession /\ treasuryLock = NoSession
  /\ req \in [Sessions -> Requests]
  /\ \A s \in Sessions : req[s].op = "create" =>
       \A q \in Sessions \ {s} : req[q].op # "create" \/ req[q].check # req[s].check
  /\ pc = [s \in Sessions |-> IF req[s].op = "create" THEN "insert" ELSE "probe"]
  /\ tx = [s \in Sessions |-> EmptyTx]

At(s, step) == pc[s] = step
Go(s, step) == pc' = [pc EXCEPT ![s] = step]
Check(s)    == req[s].check

NewEntry(s) ==
  LET r    == req[s]
      kind == Kind(r.check)
      p    == Posting(r.op, kind, tx[s].from)
  IN [ check |-> r.check, key |-> r.key, source |-> StoredSource(r.op, kind),
       withId |-> HasSourceId(r), date |-> r.date,
       debit |-> p[1], credit |-> p[2] ]

ReleaseLocks(s) ==
  /\ rowLock' = [c \in Checks |-> IF rowLock[c] = s THEN NoSession ELSE rowLock[c]]
  /\ numLock' = IF numLock = s THEN NoSession ELSE numLock
  /\ treasuryLock' = IF treasuryLock = s THEN NoSession ELSE treasuryLock

Committed == <<status, je, treasury, opening, req>>
Locks     == <<rowLock, numLock, treasuryLock>>

\* An error response, or a crash: the transaction is rolled back.
Abort(s) ==
  /\ ~At(s, "done")
  /\ tx' = [tx EXCEPT ![s] = EmptyTx] /\ ReleaseLocks(s) /\ Go(s, "done")
  /\ UNCHANGED Committed

\* The replay probe: by key, then by the handler's own source tag, which is
\* compared as it is with the normalized tag of the row.  The governance
\* endpoint has no probe.
Prior(s) ==
  WithKey(req[s].key)
  \cup {e \in Entries : /\ je[e].withId /\ Id(je[e].check) = Id(Check(s))
                        /\ je[e].source = Source(req[s].op, Kind(Check(s)))}

Probe(s) ==
  /\ At(s, "probe")
  /\ Go(s, IF req[s].op # "governance_bounce" /\ Prior(s) # {} THEN "done"
                                                               ELSE "lock")
  /\ UNCHANGED <<Committed, Locks, tx>>

\* SELECT ... FOR UPDATE of the check, and the status guard; a refusal is an
\* Abort, "already_bounced" among them.
RowSeen(s) == Check(s) \in Checks
RowFree(s) == rowLock[Check(s)] \in {NoSession, s}

LockCheck(s) ==
  /\ At(s, "lock") /\ RowFree(s)
  /\ status[Check(s)] \in Allowed(req[s].op, Kind(Check(s)))
  /\ rowLock' = [rowLock EXCEPT ![Check(s)] = s]
  /\ tx' = [tx EXCEPT ![s].from = status[Check(s)]]
  /\ Go(s, "guards")
  /\ UNCHANGED <<Committed, numLock, treasuryLock>>

\* The step after the GL call returned.
Posted(s) == IF Recomputes(req[s].op, tx[s].from) THEN "recalc" ELSE "finish"

\* create_journal_entry's key guard and source guard; a hit is returned as
\* if it were the entry asked for.
Duplicates(s) ==
  LET e == NewEntry(s)
  IN WithKey(e.key) \cup (IF e.withId THEN WithSource(e.source, Id(e.check), e.date)
                                      ELSE {})

Guards(s) ==
  /\ At(s, "guards")
  /\ Go(s, IF Duplicates(s) # {} THEN Posted(s) ELSE "insert")
  /\ UNCHANGED <<Committed, Locks, tx>>

\* The entry number's advisory lock, held to the end, and the INSERT.
NumberAny  == numLock \in Sessions \cup {NoSession}
NumberFree == numLock = NoSession

Insert(s) ==
  /\ At(s, "insert") /\ NumberFree
  /\ req[s].op = "create" => status[Check(s)] = "none"
  /\ \/ /\ Duplicates(s) = {}
        /\ numLock' = s
        /\ tx' = [tx EXCEPT ![s].ins = NewEntry(s)]
        /\ Go(s, Posted(s))
        /\ UNCHANGED <<rowLock, treasuryLock>>
     \/ \* IntegrityError: the transaction is rolled back, its locks go, the
        \* winner of the race is looked up and returned.
        /\ Duplicates(s) # {}
        /\ ReleaseLocks(s)
        /\ Go(s, Posted(s))
        /\ UNCHANGED tx
  /\ UNCHANGED Committed

\* recalc_treasury_from_gl: the sum, then the UPDATE of the cached balance.
ReadSum(s) ==
  /\ At(s, "recalc")
  /\ tx' = [tx EXCEPT ![s].sum = BankSum(Entries)
              + IF tx[s].ins = NoEntry THEN 0 ELSE Effect(tx[s].ins, "bank")]
  /\ Go(s, "treasury")
  /\ UNCHANGED <<Committed, Locks>>

WriteTreasury(s) ==
  /\ At(s, "treasury") /\ treasuryLock \in {NoSession, s}
  /\ treasuryLock' = s
  /\ tx' = [tx EXCEPT ![s].treasury = TRUE]
  /\ Go(s, "finish")
  /\ UNCHANGED <<Committed, rowLock, numLock>>

\* UPDATE ... SET status by id, whatever the row now says (for a creation,
\* the INSERT of the check), and COMMIT.
Finish(s) ==
  /\ At(s, "finish") /\ RowFree(s)
  /\ status' = [status EXCEPT ![Check(s)] = After(req[s].op, Kind(Check(s)))]
  /\ je' = [je EXCEPT ![s] = tx[s].ins]
  /\ treasury' = IF tx[s].treasury THEN tx[s].sum ELSE treasury
  /\ tx' = [tx EXCEPT ![s] = EmptyTx] /\ ReleaseLocks(s) /\ Go(s, "done")
  /\ UNCHANGED <<opening, req>>

Next == \E s \in Sessions :
  \/ Probe(s) \/ LockCheck(s) \/ Guards(s) \/ Insert(s) \/ ReadSum(s)
  \/ WriteTreasury(s) \/ Finish(s) \/ Abort(s)

Spec == Init /\ [][Next]_vars
(***************************************************************************)
(* Properties                                                              *)
(***************************************************************************)
TypeOK ==
  /\ status \in [Checks -> Statuses] /\ opening \in [Checks -> Statuses]
  /\ \A c \in Checks : status[c] \in StatusesOf(Kind(c))
  /\ je \in [Sessions -> Entry \cup {NoEntry}]
  /\ treasury \in Int
  /\ rowLock \in [Checks -> Sessions \cup {NoSession}]
  /\ numLock \in Sessions \cup {NoSession}
  /\ treasuryLock \in Sessions \cup {NoSession}
  /\ req \in [Sessions -> Requests]
  /\ pc \in [Sessions -> {"probe", "lock", "guards", "insert", "recalc",
                         "treasury", "finish", "done"}]
  /\ tx \in [Sessions -> [from : Statuses, ins : Entry \cup {NoEntry},
                          sum : Int, treasury : BOOLEAN]]

\* What the ledger guards need to tell the entries of a check apart: the
\* requests on its id, in either table, carry different dates, keys that no
\* other request carries, and none goes through the governance endpoint.
Orderly(id) ==
  \A s, q \in Sessions :
    /\ Id(Check(s)) = id => req[s].op # "governance_bounce"
    /\ s # q /\ Id(Check(s)) = id
       => /\ Id(Check(q)) = id => req[s].date # req[q].date
          /\ req[s].key # req[q].key \/ req[s].key = NoKey

EntriesOf(c) == {e \in Entries : je[e].check = c}

Position(c, a) ==
  Expected(Kind(c), opening[c])[a] + SumFunctionOnSet(Moves(a), EntriesOf(c))

InStep(c) == \A a \in Accounts : Position(c, a) = Expected(Kind(c), status[c])[a]

KeyPostsOnce ==
  \A s, q \in Entries : je[s].key = je[q].key /\ je[s].key # NoKey => s = q

\* The money of a check is where its status says: every committed change of
\* status came with its own entry, once, however requests for the check
\* overlap, repeat or fail (the FOR UPDATE and the status guards).  Where
\* requests share a key, no key posts two entries, whatever happened to the
\* check between the retries.
LedgerFollowsStatus ==
  /\ \A c \in Checks : Orderly(Id(c)) => InStep(c)
  /\ KeyPostsOnce

\* The cached treasury balance is the bank's ledger sum: no recomputation
\* overwrites a later one with a sum read before it (the entry-number lock,
\* held from the INSERT to COMMIT, is what orders them).
TreasuryIsBankSum ==
  (\A c \in Checks : Orderly(Id(c))) => treasury = BankSum(Entries)

(***************************************************************************)
(* What a docstring says, and the code does not keep                       *)
(***************************************************************************)
\* bounce_check_receivable: "If pending: Dr. AR / Cr. Checks Under
\* Collection (reverse original) / If collected: Dr. AR / Cr. Bank".
EveryStatusIsPosted == \A c \in Checks : InStep(c)
=============================================================================
