---------------------------- MODULE ChecksProofs ----------------------------
(***************************************************************************)
(* The entries of checks, for any requests, checks, dates and keys: a key  *)
(* has one entry, and the source a handler passes finds none.              *)
(***************************************************************************)
EXTENDS Checks, Sums, TLAPS

\* Between the INSERT of its entry and its end.
Inserted == {"recalc", "treasury", "finish"}

\* A transaction has its fields, whatever is in them.
Shaped(t) == t = [from |-> t.from, ins |-> t.ins, sum |-> t.sum, treasury |-> t.treasury]

Tables ==
  /\ req \in [Sessions -> Requests]
  /\ pc = [s \in Sessions |-> pc[s]]
  /\ tx = [s \in Sessions |-> tx[s]] /\ \A s \in Sessions : Shaped(tx[s])
  /\ je = [s \in Sessions |-> je[s]]

\* Who has inserted an entry holds the number lock, and nobody's committed
\* entry has its key.
Alone(s) ==
  tx[s].ins # NoEntry =>
    /\ numLock = s /\ pc[s] \in Inserted
    /\ tx[s].ins.source = "system"
    /\ WithKey(tx[s].ins.key) = {}

Unnamed == \A e \in Entries : je[e].source = "system"

IInv == Tables /\ Unnamed /\ KeyPostsOnce /\ \A s \in Sessions : Alone(s)

(***************************************************************************)
(* Sources                                                                 *)
(***************************************************************************)
Passed == {"check_collection", "check_clearance", "checkbounce", "check_bounce",
           "check_payable_bounce", "check_re_presentation",
           "check_payable_represent", "check_receivable", "check_payable"}

LEMMA Named ==
  ASSUME NEW op \in Ops, NEW kind \in {"receivable", "payable"},
         op = "clear" => kind = "payable",
         op \in {"collect", "governance_bounce"} => kind = "receivable"
  PROVE  Source(op, kind) \in Passed
  BY DEF Source, Passed, Ops

\* None of the sources of checks is in the vocabulary.
LEMMA PassedNormalize == \A v \in Passed : Normalize(v) = "system" /\ v # "system"
  BY DEF Passed, Normalize, Values, Alias

LEMMA Requested ==
  ASSUME Tables, NEW s \in Sessions
  PROVE  /\ Source(req[s].op, Kind(Check(s))) \in Passed
         /\ StoredSource(req[s].op, Kind(Check(s))) = "system"
<1>1. req[s] \in Requests
  BY DEF Tables
<1>2. /\ req[s].op \in Ops /\ req[s].check \in Checks
      /\ req[s].op = "clear" => Kind(req[s].check) = "payable"
      /\ req[s].op \in {"collect", "governance_bounce"} => Kind(req[s].check) = "receivable"
  BY <1>1, ChecksAssumption DEF ChecksAssumption
<1>3. Kind(req[s].check) \in {"receivable", "payable"}
  BY <1>2, ChecksAssumption DEF ChecksAssumption, Kind
<1> QED BY <1>2, <1>3, Named, PassedNormalize DEF StoredSource, Check

(***************************************************************************)
(* The invariant                                                           *)
(***************************************************************************)
LEMMA Fields ==
  ASSUME NEW t, Shaped(t), NEW v
  PROVE  /\ Shaped([t EXCEPT !.from = v]) /\ Shaped([t EXCEPT !.ins = v])
         /\ Shaped([t EXCEPT !.sum = v])  /\ Shaped([t EXCEPT !.treasury = v])
         /\ [t EXCEPT !.from = v].ins = t.ins /\ [t EXCEPT !.ins = v].ins = v
         /\ [t EXCEPT !.sum = v].ins = t.ins  /\ [t EXCEPT !.treasury = v].ins = t.ins
  BY DEF Shaped

LEMMA EmptyShaped == Shaped(EmptyTx) /\ EmptyTx.ins = NoEntry
  BY DEF Shaped, EmptyTx

LEMMA InitInv == Init => IInv
<1> SUFFICES ASSUME Init PROVE IInv
  OBVIOUS
<1>1. \A s \in Sessions : tx[s] = EmptyTx /\ je[s] = NoEntry
  BY DEF Init
<1>2. Tables
  BY <1>1, EmptyShaped DEF Init, Tables
<1>3. Entries = {}
  BY <1>1 DEF Entries
<1> QED BY <1>1, <1>2, <1>3, EmptyShaped DEF IInv, Unnamed, KeyPostsOnce, Alone

Step(s) ==
  \/ Probe(s) \/ LockCheck(s) \/ Guards(s) \/ Insert(s) \/ ReadSum(s)
  \/ WriteTreasury(s) \/ Finish(s) \/ Abort(s)

\* What a step of s does to its entry: it inserts it, ends, or neither.
LEMMA Effects ==
  ASSUME IInv, NEW s \in Sessions, Step(s)
  PROVE  /\ req' = req /\ \E step : pc' = [pc EXCEPT ![s] = step]
         /\ \E t : tx' = [tx EXCEPT ![s] = t] /\ Shaped(t)
         /\ ~Finish(s) => je' = je
         /\ \/ Insert(s) /\ numLock = NoSession /\ numLock' = s /\ Duplicates(s) = {}
               /\ tx'[s].ins = NewEntry(s) /\ pc'[s] \in Inserted
            \/ tx'[s].ins = NoEntry
            \/ /\ tx'[s].ins = tx[s].ins /\ numLock' = numLock
               /\ pc[s] \in Inserted => pc'[s] \in Inserted
<1>1. Shaped(tx[s]) /\ tx = [tx EXCEPT ![s] = tx[s]] /\ s \in DOMAIN tx /\ s \in DOMAIN pc
  BY DEF IInv, Tables
<1>2. pc[s] \notin Inserted => tx[s].ins = NoEntry
  BY DEF IInv, Alone
<1>3. CASE Probe(s)
  BY <1>1, <1>3 DEF Probe, Committed, Locks, Go, At, Inserted
<1>4. CASE LockCheck(s)
  <2> DEFINE t == [tx[s] EXCEPT !.from = status[Check(s)]]
  <2>1. tx' = [tx EXCEPT ![s] = t] /\ Shaped(t) /\ t.ins = tx[s].ins
    BY <1>1, <1>4, Fields DEF LockCheck
  <2>2. tx'[s].ins = NoEntry
    BY <1>1, <1>2, <1>4, <2>1 DEF LockCheck, At, Inserted
  <2> QED BY <1>4, <2>1, <2>2 DEF LockCheck, Committed, Go, Finish, At
<1>5. CASE Guards(s)
  BY <1>1, <1>5 DEF Guards, Committed, Locks, Go, At, Inserted
<1>6. CASE Insert(s)
  <2>1. pc'[s] \in Inserted /\ numLock = NoSession /\ req' = req /\ je' = je
    BY <1>1, <1>6 DEF Insert, Go, Posted, Inserted, NumberFree, Committed
  <2>2. \E step : pc' = [pc EXCEPT ![s] = step]
    BY <1>6 DEF Insert, Go
  <2>3. CASE Duplicates(s) = {}
    <3> DEFINE v == NewEntry(s)
               t == [tx[s] EXCEPT !.ins = v]
    <3>1. tx' = [tx EXCEPT ![s] = t] /\ numLock' = s
      BY <1>6, <2>3 DEF Insert
    <3>2. Shaped(t) /\ t.ins = v
      <4> HIDE DEF v
      <4> QED BY <1>1, Fields
    <3> QED BY <1>1, <1>6, <2>1, <2>2, <2>3, <3>1, <3>2
  <2>4. CASE Duplicates(s) # {}
    <3>1. tx' = tx /\ tx[s].ins = NoEntry
      BY <1>2, <1>6, <2>4 DEF Insert, At, Inserted
    <3> QED BY <1>1, <2>1, <2>2, <3>1
  <2> QED BY <2>3, <2>4
<1>7. CASE ReadSum(s)
  <2> DEFINE v == BankSum(Entries)
                    + IF tx[s].ins = NoEntry THEN 0 ELSE Effect(tx[s].ins, "bank")
             t == [tx[s] EXCEPT !.sum = v]
  <2>1. tx' = [tx EXCEPT ![s] = t]
    BY <1>7 DEF ReadSum
  <2>2. Shaped(t) /\ t.ins = tx[s].ins
    <3> HIDE DEF v
    <3> QED BY <1>1, Fields
  <2> HIDE DEF t
  <2> QED BY <1>1, <1>7, <2>1, <2>2 DEF ReadSum, Committed, Locks, Go, Inserted
<1>8. CASE WriteTreasury(s)
  <2> DEFINE t == [tx[s] EXCEPT !.treasury = TRUE]
  <2>1. tx' = [tx EXCEPT ![s] = t] /\ Shaped(t) /\ t.ins = tx[s].ins
    BY <1>1, <1>8, Fields DEF WriteTreasury
  <2> HIDE DEF t
  <2> QED BY <1>1, <1>8, <2>1 DEF WriteTreasury, Committed, Go, Inserted
<1>9. CASE Finish(s) \/ Abort(s)
  <2>1. tx' = [tx EXCEPT ![s] = EmptyTx] /\ tx'[s].ins = NoEntry
    BY <1>1, <1>9, EmptyShaped DEF Finish, Abort
  <2> QED BY <1>9, <2>1, EmptyShaped DEF Finish, Abort, Committed, Go
<1> QED BY <1>3, <1>4, <1>5, <1>6, <1>7, <1>8, <1>9 DEF Step

LEMMA TablesStep ==
  ASSUME IInv, NEW s \in Sessions, Step(s)
  PROVE  Tables'
<1>1. req' \in [Sessions -> Requests]
  BY Effects DEF IInv, Tables
<1>2. pc' = [q \in Sessions |-> pc'[q]]
  BY Effects DEF IInv, Tables
<1>3. tx' = [q \in Sessions |-> tx'[q]] /\ \A q \in Sessions : Shaped(tx'[q])
  <2>1. PICK t : tx' = [tx EXCEPT ![s] = t] /\ Shaped(t)
    BY Effects
  <2> QED BY <2>1 DEF IInv, Tables
<1>4. je' = [q \in Sessions |-> je'[q]]
  <2>1. CASE Finish(s)
    BY <2>1 DEF Finish, IInv, Tables
  <2> QED BY <2>1, Effects DEF IInv, Tables
<1> QED BY <1>1, <1>2, <1>3, <1>4 DEF Tables, Shaped

\* What is committed: nothing, or the entry s inserted.
LEMMA EntriesStep ==
  ASSUME IInv, NEW s \in Sessions, Step(s)
  PROVE  /\ \A e \in Entries' : (e \in Entries /\ je'[e] = je[e])
                                \/ (e = s /\ tx[s].ins # NoEntry /\ je'[s] = tx[s].ins)
         /\ tx[s].ins = NoEntry => \A k : WithKey(k)' \subseteq WithKey(k)
<1>1. CASE ~Finish(s)
  BY <1>1, Effects DEF Entries, WithKey
<1>2. CASE Finish(s)
  <2>1. je' = [je EXCEPT ![s] = tx[s].ins]
    BY <1>2 DEF Finish
  <2>2. \A e \in Entries' : \/ e \in Entries /\ je'[e] = je[e]
                            \/ e = s /\ tx[s].ins # NoEntry /\ je'[s] = tx[s].ins
    BY <2>1 DEF Entries, IInv, Tables
  <2> QED BY <2>2 DEF WithKey
<1> QED BY <1>1, <1>2

LEMMA StepInv ==
  ASSUME IInv, NEW s \in Sessions, Step(s)
  PROVE  IInv'
<1>1. Tables'
  BY TablesStep
<1>2. Unnamed'
  BY EntriesStep DEF IInv, Unnamed, Alone
<1>3. KeyPostsOnce'
  <2> SUFFICES ASSUME NEW p \in Entries', NEW q \in Entries',
                      je'[p].key = je'[q].key, je'[p].key # NoKey
               PROVE  p = q
    BY DEF KeyPostsOnce
  <2>0. KeyPostsOnce /\ Alone(s) /\ s \in Sessions
    BY DEF IInv
  <2>1. CASE p \in Entries /\ je'[p] = je[p] /\ q \in Entries /\ je'[q] = je[q]
    BY <2>0, <2>1 DEF KeyPostsOnce
  <2>2. ASSUME NEW e \in Entries, je[e].key = tx[s].ins.key, je[e].key # NoKey,
               tx[s].ins # NoEntry
        PROVE  FALSE
    BY <2>0, <2>2 DEF Alone, WithKey
  <2>3. \A e \in Entries' : (e \in Entries /\ je'[e] = je[e])
                            \/ (e = s /\ tx[s].ins # NoEntry /\ je'[s] = tx[s].ins)
    BY EntriesStep
  <2> QED BY <2>1, <2>2, <2>3
<1>4. ASSUME NEW q \in Sessions PROVE Alone(q)'
  <2> DEFINE Later(k) == {e \in Entries' : k # NoKey /\ je'[e].key = k}
  <2>0. \A k : Later(k) = WithKey(k)'
    BY DEF WithKey
  <2> SUFFICES ASSUME tx'[q].ins # NoEntry
               PROVE  /\ numLock' = q /\ pc'[q] \in Inserted
                      /\ tx'[q].ins.source = "system"
                      /\ Later(tx'[q].ins.key) = {}
    BY DEF Alone, WithKey
  <2>1. NoSession \notin Sessions
    BY ChecksAssumption DEF ChecksAssumption
  <2>2. CASE q = s /\ tx'[s].ins = NewEntry(s) /\ Insert(s) /\ numLock = NoSession
             /\ numLock' = s /\ Duplicates(s) = {} /\ pc'[s] \in Inserted
    <3>1. NewEntry(s).source = "system"
      BY Requested DEF NewEntry, IInv, Check
    <3>2. WithKey(NewEntry(s).key) = {}
      BY <2>2 DEF Duplicates
    <3>3. tx[s].ins = NoEntry
      BY <2>1, <2>2 DEF IInv, Alone
    <3>4. Later(NewEntry(s).key) = {}
      BY <3>2, <3>3, <2>2, Effects DEF WithKey, Entries, Insert, Committed
    <3> QED BY <2>2, <3>1, <3>4
  <2>3. CASE q = s /\ tx'[s].ins = tx[s].ins /\ numLock' = numLock
             /\ (pc[s] \in Inserted => pc'[s] \in Inserted)
    <3>1. tx'[q].ins = tx[q].ins /\ ~Finish(s)
      BY <2>3, EmptyShaped DEF Finish, IInv, Tables
    <3> QED BY <2>3, <3>1, Effects DEF IInv, Alone, WithKey, Entries
  <2>4. CASE q # s
    <3>1. tx'[q] = tx[q] /\ pc'[q] = pc[q]
      BY <2>4, Effects DEF IInv, Tables
    <3>2. numLock = q /\ tx[s].ins = NoEntry
      BY <2>4, <3>1 DEF IInv, Alone
    <3>3. Later(tx[q].ins.key) = {}
      BY <2>0, <3>1, <3>2, EntriesStep DEF IInv, Alone
    <3>4. numLock' = q
      BY <2>1, <2>4, <3>2 DEF Step, Probe, LockCheck, Guards, Insert, ReadSum,
         WriteTreasury, Finish, Abort, ReleaseLocks, Locks, NumberFree
    <3> QED BY <3>1, <3>2, <3>3, <3>4 DEF IInv, Alone
  <2> QED BY <2>2, <2>3, <2>4, Effects
<1> QED BY <1>1, <1>2, <1>3, <1>4 DEF IInv

LEMMA StutterInv ==
  ASSUME IInv, UNCHANGED vars
  PROVE  IInv'
<1>1. UNCHANGED <<je, numLock, req, pc, tx>>
  BY DEF vars
<1>2. Tables'
  BY <1>1 DEF IInv, Tables
<1>3. Unnamed' /\ KeyPostsOnce'
  BY <1>1 DEF IInv, Unnamed, KeyPostsOnce, Entries
<1>4. \A s \in Sessions : Alone(s)'
  BY <1>1 DEF IInv, Alone, WithKey, Entries
<1> QED BY <1>2, <1>3, <1>4 DEF IInv

LEMMA Invariance == Spec => []IInv
<1>1. IInv /\ [Next]_vars => IInv'
  BY StutterInv, StepInv DEF Next, Step
<1> QED BY InitInv, <1>1, PTL DEF Spec

(***************************************************************************)
(* What it means                                                           *)
(***************************************************************************)
\* However requests with one key overlap, are retried or fail, the key has one
\* journal entry: the number's advisory lock, held from the INSERT to the end,
\* lets the second see the first's.
THEOREM OneEntryPerKey == Spec => []KeyPostsOnce
<1>1. IInv => KeyPostsOnce
  BY DEF IInv
<1> QED BY <1>1, Invariance, PTL

\* The replay probe by the handler's own source tag (checks.py) never finds an
\* entry, for all are stored as "system": a retry is known by its key alone.
THEOREM TagProbeIsBlind ==
  Spec => [](\A s \in Sessions : Prior(s) = WithKey(req[s].key))
<1>1. IInv => \A s \in Sessions : Prior(s) = WithKey(req[s].key)
  BY Requested, PassedNormalize DEF IInv, Unnamed, Prior
<1> QED BY <1>1, Invariance, PTL

(***************************************************************************)
(* The table of postings: the entry of an operation moves every account by *)
(* the difference between what the two statuses say.                       *)
(***************************************************************************)
Fits(op, kind) ==
  /\ op \in Ops \ {"governance_bounce"} /\ kind \in {"receivable", "payable"}
  /\ op = "clear" => kind = "payable"
  /\ op = "collect" => kind = "receivable"

Moved(p, a) == (IF p[1] = a THEN 1 ELSE 0) - (IF p[2] = a THEN 1 ELSE 0)

LEMMA ExpectedRows ==
  ASSUME NEW a \in Accounts
  PROVE  /\ Expected("receivable", "none")[a] = 0
         /\ Expected("receivable", "pending")[a] = Moved(<<"1205", "receivable">>, a)
         /\ Expected("receivable", "collected")[a] = Moved(<<"bank", "receivable">>, a)
         /\ Expected("receivable", "bounced")[a] = 0
         /\ Expected("payable", "none")[a] = 0
         /\ Expected("payable", "issued")[a] = Moved(<<"payable", "2105">>, a)
         /\ Expected("payable", "cleared")[a] = Moved(<<"payable", "bank">>, a)
         /\ Expected("payable", "bounced")[a] = 0
<1>1. Expected("receivable", "none")[a] = 0
  BY DEF Expected, Moved, Accounts
<1>2. Expected("receivable", "pending")[a] = Moved(<<"1205", "receivable">>, a)
  BY DEF Expected, Moved, Accounts
<1>3. Expected("receivable", "collected")[a] = Moved(<<"bank", "receivable">>, a)
  BY DEF Expected, Moved, Accounts
<1>4. Expected("receivable", "bounced")[a] = 0
  BY DEF Expected, Moved, Accounts
<1>5. Expected("payable", "none")[a] = 0
  BY DEF Expected, Moved, Accounts
<1>6. Expected("payable", "issued")[a] = Moved(<<"payable", "2105">>, a)
  BY DEF Expected, Moved, Accounts
<1>7. Expected("payable", "cleared")[a] = Moved(<<"payable", "bank">>, a)
  BY DEF Expected, Moved, Accounts
<1>8. Expected("payable", "bounced")[a] = 0
  BY DEF Expected, Moved, Accounts
<1> QED BY <1>1, <1>2, <1>3, <1>4, <1>5, <1>6, <1>7, <1>8

LEMMA Table ==
  ASSUME NEW op, NEW kind, Fits(op, kind),
         NEW from \in Allowed(op, kind) \cap StatusesOf(kind), NEW a \in Accounts
  PROVE  /\ After(op, kind) \in StatusesOf(kind)
         /\ Posting(op, kind, from) \in Accounts \X Accounts
         /\ Moved(Posting(op, kind, from), a)
              = Expected(kind, After(op, kind))[a] - Expected(kind, from)[a]
<1> DEFINE Is(o, k, f) == op = o /\ kind = k /\ from = f
<1>1. CASE Is("create", "receivable", "none")
  <2>1. After(op, kind) = "pending" /\ Posting(op, kind, from) = <<"1205", "receivable">>
    BY <1>1 DEF After, Posting, Drawn
  <2> QED BY <1>1, <2>1, ExpectedRows DEF Moved, StatusesOf, Accounts
<1>2. CASE Is("create", "payable", "none")
  <2>1. After(op, kind) = "issued" /\ Posting(op, kind, from) = <<"payable", "2105">>
    BY <1>2 DEF After, Posting, Drawn
  <2> QED BY <1>2, <2>1, ExpectedRows DEF Moved, StatusesOf, Accounts
<1>3. CASE Is("collect", "receivable", "pending")
  <2>1. After(op, kind) = "collected" /\ Posting(op, kind, from) = <<"bank", "1205">>
    BY <1>3 DEF After, Posting, Drawn
  <2> QED BY <1>3, <2>1, ExpectedRows DEF Moved, StatusesOf, Accounts
<1>4. CASE Is("clear", "payable", "issued")
  <2>1. After(op, kind) = "cleared" /\ Posting(op, kind, from) = <<"2105", "bank">>
    BY <1>4 DEF After, Posting, Drawn
  <2> QED BY <1>4, <2>1, ExpectedRows DEF Moved, StatusesOf, Accounts
<1>5. CASE Is("bounce", "receivable", "pending")
  <2>1. After(op, kind) = "bounced" /\ Posting(op, kind, from) = <<"receivable", "1205">>
    BY <1>5 DEF After, Posting, Drawn
  <2> QED BY <1>5, <2>1, ExpectedRows DEF Moved, StatusesOf, Accounts
<1>6. CASE Is("bounce", "receivable", "collected")
  <2>1. After(op, kind) = "bounced" /\ Posting(op, kind, from) = <<"receivable", "bank">>
    BY <1>6 DEF After, Posting, Drawn
  <2> QED BY <1>6, <2>1, ExpectedRows DEF Moved, StatusesOf, Accounts
<1>7. CASE Is("bounce", "payable", "issued")
  <2>1. After(op, kind) = "bounced" /\ Posting(op, kind, from) = <<"2105", "payable">>
    BY <1>7 DEF After, Posting, Drawn
  <2> QED BY <1>7, <2>1, ExpectedRows DEF Moved, StatusesOf, Accounts
<1>8. CASE Is("bounce", "payable", "cleared")
  <2>1. After(op, kind) = "bounced" /\ Posting(op, kind, from) = <<"bank", "payable">>
    BY <1>8 DEF After, Posting, Drawn
  <2> QED BY <1>8, <2>1, ExpectedRows DEF Moved, StatusesOf, Accounts
<1>9. CASE Is("represent", "receivable", "bounced")
  <2>1. After(op, kind) = "pending" /\ Posting(op, kind, from) = <<"1205", "receivable">>
    BY <1>9 DEF After, Posting, Drawn
  <2> QED BY <1>9, <2>1, ExpectedRows DEF Moved, StatusesOf, Accounts
<1>10. CASE Is("represent", "payable", "bounced")
  <2>1. After(op, kind) = "issued" /\ Posting(op, kind, from) = <<"payable", "2105">>
    BY <1>10 DEF After, Posting, Drawn
  <2> QED BY <1>10, <2>1, ExpectedRows DEF Moved, StatusesOf, Accounts
<1> QED
  <2>1. op \in {"create", "collect", "clear", "bounce", "represent"}
    BY DEF Fits, Ops
  <2>2. kind \in {"receivable", "payable"}
    BY DEF Fits
  <2>3. CASE kind = "receivable"
    BY <2>1, <2>3, <1>1, <1>3, <1>5, <1>6, <1>9 DEF Fits, Allowed, StatusesOf
  <2>4. CASE kind = "payable"
    BY <2>1, <2>4, <1>2, <1>4, <1>7, <1>8, <1>10 DEF Fits, Allowed, StatusesOf
  <2> QED BY <2>2, <2>3, <2>4

\* Who does not recompute the treasury has not moved the bank.
LEMMA NotTheBank ==
  ASSUME NEW op, NEW kind, Fits(op, kind),
         NEW from \in Allowed(op, kind) \cap StatusesOf(kind), ~Recomputes(op, from)
  PROVE  Moved(Posting(op, kind, from), "bank") = 0
<1>1. op \in {"create", "bounce", "represent"}
  BY DEF Fits, Ops, Recomputes
<1>2. kind \in {"receivable", "payable"}
  BY DEF Fits
<1>3. CASE op = "create"
  BY <1>2, <1>3 DEF Allowed, StatusesOf, Moved, Posting, Drawn
<1>4. CASE op = "bounce"
  BY <1>2, <1>4 DEF Allowed, StatusesOf, Moved, Posting, Recomputes
<1>5. CASE op = "represent"
  BY <1>2, <1>5 DEF Allowed, StatusesOf, Moved, Posting, Drawn
<1> QED BY <1>1, <1>3, <1>4, <1>5

(***************************************************************************)
(* Who works on a check.  From its SELECT FOR UPDATE to its end a session  *)
(* holds the row, and the status is still the one it read; the creation of *)
(* a check needs no lock, for nothing else accepts a check that is not     *)
(* there.  The guards find nothing, so every change has its entry.         *)
(***************************************************************************)
Busy == {"guards", "insert"} \cup Inserted

Rows ==
  /\ status \in [Checks -> Statuses]
  /\ \A c \in Checks : status[c] \in StatusesOf(Kind(c)) /\ opening[c] \in StatusesOf(Kind(c))
  /\ rowLock = [c \in Checks |-> rowLock[c]]
  /\ \A s, q \in Sessions :
       req[s].op = "create" /\ req[q].op = "create" /\ Check(s) = Check(q) => s = q

\* A committed entry is the one its session asked for.
Origin ==
  \A e \in Entries : /\ pc[e] = "done" /\ je[e].check = Check(e)
                     /\ je[e].key = req[e].key /\ je[e].date = req[e].date

\* An entry not yet committed is the one its session asks for.
Own(s) == tx[s].ins # NoEntry => tx[s].ins = NewEntry(s)

Creates(s) ==
  /\ pc[s] \in {"insert", "done"} \cup Inserted
  /\ pc[s] # "done" => tx[s].from = "none"
  /\ pc[s] \in Inserted => status[Check(s)] = "none"

Holds(s) ==
  pc[s] \in Busy => /\ rowLock[Check(s)] = s /\ tx[s].from = status[Check(s)]
                    /\ tx[s].from \in Allowed(req[s].op, Kind(Check(s)))

Works(s) ==
  Orderly(Id(Check(s))) =>
    /\ IF req[s].op = "create" THEN Creates(s) ELSE Holds(s)
    /\ pc[s] \in Inserted => tx[s].ins # NoEntry

Followed == \A c \in Checks : Orderly(Id(c)) => InStep(c)

WInv == IInv /\ Rows /\ Origin /\ \A s \in Sessions : Own(s) /\ Works(s)

LEMMA RequestFacts ==
  ASSUME Tables, NEW s \in Sessions
  PROVE  /\ Check(s) \in Checks /\ Kind(Check(s)) \in {"receivable", "payable"}
         /\ req[s].op \in Ops /\ req[s].date \in Dates /\ req[s].key \in Keys \cup {NoKey}
         /\ req[s].op # "governance_bounce" => Fits(req[s].op, Kind(Check(s)))
<1>1. req[s] \in Requests
  BY DEF Tables
<1>2. /\ req[s].op \in Ops /\ req[s].check \in Checks
      /\ req[s].date \in Dates /\ req[s].key \in Keys \cup {NoKey}
      /\ req[s].op = "clear" => Kind(req[s].check) = "payable"
      /\ req[s].op \in {"collect", "governance_bounce"} => Kind(req[s].check) = "receivable"
  BY <1>1, ChecksAssumption DEF ChecksAssumption
<1>3. Kind(req[s].check) \in {"receivable", "payable"}
  BY <1>2, ChecksAssumption DEF ChecksAssumption, Kind
<1> QED BY <1>2, <1>3 DEF Check, Fits

\* What a session leaves alone: the others' work, and their hold on a row.
LEMMA Others ==
  ASSUME IInv, Rows, NEW s \in Sessions, Step(s)
  PROVE  /\ req' = req /\ opening' = opening
         /\ Finish(s) \/ UNCHANGED <<status, je, treasury>>
         /\ rowLock' = [c \in Checks |-> rowLock'[c]]
         /\ \A q \in Sessions \ {s} :
              /\ pc'[q] = pc[q] /\ tx'[q] = tx[q]
              /\ \A c \in Checks : rowLock[c] = q => rowLock'[c] = q
<1>1. req' = req /\ opening' = opening /\ (Finish(s) \/ UNCHANGED <<status, je, treasury>>)
  BY DEF Step, Probe, LockCheck, Guards, Insert, ReadSum, WriteTreasury, Finish, Abort,
     Committed
<1>2. \A q \in Sessions \ {s} : pc'[q] = pc[q] /\ tx'[q] = tx[q]
  BY Effects DEF IInv, Tables
<1>3. NoSession \notin Sessions
  BY ChecksAssumption DEF ChecksAssumption
<1>4. \/ rowLock' = rowLock
      \/ LockCheck(s)
      \/ rowLock' = [c \in Checks |-> IF rowLock[c] = s THEN NoSession ELSE rowLock[c]]
  BY DEF Step, Probe, LockCheck, Guards, Insert, ReadSum, WriteTreasury, Finish, Abort,
     Locks, ReleaseLocks
<1>5. LockCheck(s) => /\ rowLock' = [rowLock EXCEPT ![Check(s)] = s]
                      /\ rowLock[Check(s)] \in {NoSession, s}
  BY DEF LockCheck, RowFree
<1>6. \A q \in Sessions \ {s} : \A c \in Checks : rowLock[c] = q => rowLock'[c] = q
  BY <1>3, <1>4, <1>5 DEF Rows
<1>7. rowLock' = [c \in Checks |-> rowLock'[c]]
  BY <1>4, <1>5 DEF Rows
<1> QED BY <1>1, <1>2, <1>6, <1>7

\* The guards find nothing for an orderly check.
LEMMA NothingFound ==
  ASSUME WInv, NEW s \in Sessions, pc[s] # "done", Orderly(Id(Check(s)))
  PROVE  Duplicates(s) = {}
<1>1. /\ NewEntry(s).key = req[s].key /\ NewEntry(s).check = Check(s)
      /\ NewEntry(s).date = req[s].date
  BY DEF NewEntry, Check
<1>2. ASSUME NEW e \in Entries PROVE e \in Sessions /\ e # s /\ je[e].check = Check(e)
                                     /\ je[e].key = req[e].key /\ je[e].date = req[e].date
  BY <1>2 DEF Entries, WInv, Origin
<1>3. \A e \in Sessions \ {s} :
         /\ Id(Check(e)) = Id(Check(s)) => req[s].date # req[e].date
         /\ req[s].key # req[e].key \/ req[s].key = NoKey
  BY DEF Orderly
<1>4. WithKey(NewEntry(s).key) = {}
  BY <1>1, <1>2, <1>3 DEF WithKey
<1>5. WithSource(NewEntry(s).source, Id(NewEntry(s).check), NewEntry(s).date) = {}
  BY <1>1, <1>2, <1>3 DEF WithSource
<1> QED BY <1>4, <1>5 DEF Duplicates

\* A session at work on an orderly check, and the entry it asks for.
LEMMA AtWork ==
  ASSUME WInv, NEW s \in Sessions, Orderly(Id(Check(s))), pc[s] \in {"insert"} \cup Inserted,
         req[s].op = "create" => status[Check(s)] = "none"
  PROVE  /\ Fits(req[s].op, Kind(Check(s))) /\ tx[s].from = status[Check(s)]
         /\ tx[s].from \in Allowed(req[s].op, Kind(Check(s))) \cap StatusesOf(Kind(Check(s)))
         /\ NewEntry(s) \in Entry /\ NewEntry(s) # NoEntry
         /\ \A a \in Accounts :
              Effect(NewEntry(s), a)
                = Expected(Kind(Check(s)), After(req[s].op, Kind(Check(s))))[a]
                  - Expected(Kind(Check(s)), tx[s].from)[a]
         /\ ~Recomputes(req[s].op, tx[s].from) => Effect(NewEntry(s), "bank") = 0
         /\ After(req[s].op, Kind(Check(s))) \in StatusesOf(Kind(Check(s)))
<1> DEFINE op   == req[s].op
           kind == Kind(Check(s))
           from == tx[s].from
           p    == Posting(op, kind, from)
<1>1. Check(s) \in Checks /\ Fits(op, kind)
  BY RequestFacts DEF Orderly, WInv, IInv
<1>2. from = status[Check(s)] /\ from \in Allowed(op, kind)
  BY DEF WInv, Works, Creates, Holds, Busy, Inserted, Allowed
<1>3. from \in StatusesOf(kind)
  BY <1>1, <1>2 DEF WInv, Rows
<1>4. \A a \in Accounts :
        /\ After(op, kind) \in StatusesOf(kind) /\ p \in Accounts \X Accounts
        /\ Moved(p, a) = Expected(kind, After(op, kind))[a] - Expected(kind, from)[a]
  BY <1>1, <1>2, <1>3, Table
<1>5. "bank" \in Accounts
  BY DEF Accounts
<1>6. ~Recomputes(op, from) => Moved(p, "bank") = 0
  BY <1>1, <1>2, <1>3, NotTheBank
<1>7. NewEntry(s) = [ check |-> Check(s), key |-> req[s].key, source |-> "system",
                      withId |-> HasSourceId(req[s]), date |-> req[s].date,
                      debit |-> p[1], credit |-> p[2] ]
  BY Requested DEF NewEntry, Check, WInv, IInv
<1> HIDE DEF p, op, kind, from
<1>8. NewEntry(s) \in Entry
  <2>1. /\ req[s].key \in Keys \cup {NoKey} /\ req[s].date \in Dates
        /\ HasSourceId(req[s]) \in BOOLEAN /\ "system" \in Values
        /\ p[1] \in Accounts /\ p[2] \in Accounts
    BY <1>4, <1>5, RequestFacts DEF HasSourceId, Values, WInv, IInv
  <2> QED BY <1>1, <1>7, <2>1 DEF Entry
<1>9. NewEntry(s) # NoEntry
  BY <1>8, NoEntryAssumption DEF NoEntryAssumption
<1>10. \A a \in Accounts : Effect(NewEntry(s), a) = Moved(p, a)
  BY <1>7 DEF Effect, Moved
<1> QED BY <1>1, <1>2, <1>3, <1>4, <1>5, <1>6, <1>8, <1>9, <1>10 DEF p, op, kind, from

\* Own survives: only LockCheck changes what NewEntry is made of, and it
\* comes before the INSERT.
LEMMA OwnStep ==
  ASSUME WInv, NEW s \in Sessions, Step(s), NEW q \in Sessions
  PROVE  Own(q)'
<1>1. req' = req /\ (q # s => tx'[q] = tx[q])
  BY Others DEF WInv
<1>2. CASE q # s
  BY <1>1, <1>2 DEF WInv, Own, NewEntry
<1>3. CASE q = s /\ Insert(s) /\ Duplicates(s) = {}
  <2>1. tx' = [tx EXCEPT ![s] = [tx[s] EXCEPT !.ins = NewEntry(s)]] /\ Shaped(tx[s])
    BY <1>3 DEF Insert, WInv, IInv, Tables
  <2> DEFINE v == NewEntry(s)
  <2>2. tx'[s].ins = v /\ tx'[s].from = tx[s].from
    <3> HIDE DEF v
    <3>1. tx'[s] = [tx[s] EXCEPT !.ins = v]
      BY <2>1 DEF WInv, IInv, Tables, v
    <3> QED BY <2>1, <3>1 DEF Shaped
  <2> QED BY <1>1, <1>3, <2>2 DEF Own, NewEntry
<1>4. CASE q = s /\ ~(Insert(s) /\ Duplicates(s) = {})
  <2>1. CASE tx'[s].ins = NoEntry
    BY <1>4, <2>1 DEF Own
  <2>2. CASE tx'[s].ins = tx[s].ins /\ tx[s].ins # NoEntry
    <3>1. pc[s] \in Inserted
      BY <2>2 DEF WInv, IInv, Alone
    <3>2. tx'[s].from = tx[s].from \/ tx'[s] = EmptyTx
      <4>1. Shaped(tx[s]) /\ s \in DOMAIN tx
        BY DEF WInv, IInv, Tables
      <4>2. CASE ReadSum(s)
        <5> DEFINE v == BankSum(Entries) + IF tx[s].ins = NoEntry THEN 0
                                           ELSE Effect(tx[s].ins, "bank")
        <5>1. tx'[s] = [tx[s] EXCEPT !.sum = v]
          BY <4>1, <4>2 DEF ReadSum
        <5> HIDE DEF v
        <5> QED BY <4>1, <5>1 DEF Shaped
      <4>3. CASE WriteTreasury(s)
        <5>1. tx'[s] = [tx[s] EXCEPT !.treasury = TRUE]
          BY <4>1, <4>3 DEF WriteTreasury
        <5> QED BY <4>1, <5>1 DEF Shaped
      <4>4. CASE Finish(s) \/ Abort(s)
        BY <4>1, <4>4 DEF Finish, Abort
      <4> QED BY <3>1, <4>2, <4>3, <4>4 DEF Step, Probe, LockCheck, Guards, Insert, At,
              Inserted
    <3> QED BY <1>1, <1>4, <2>2, <3>2, EmptyShaped DEF WInv, Own, NewEntry
  <2> QED BY <1>4, <2>1, <2>2, Effects DEF WInv
<1> QED BY <1>2, <1>3, <1>4

\* Nobody else changes the status of a check that a session works on.
LEMMA StatusKept ==
  ASSUME WInv, NEW s \in Sessions, Step(s), NEW q \in Sessions \ {s},
         Orderly(Id(Check(q))),
         \/ req[q].op # "create" /\ pc[q] \in Busy
         \/ req[q].op = "create" /\ pc[q] \in Inserted
  PROVE  status'[Check(q)] = status[Check(q)]
<1>1. CASE ~Finish(s) \/ Check(s) # Check(q)
  <2>1. Check(q) \in Checks
    BY RequestFacts DEF WInv, IInv
  <2>2. CASE ~Finish(s)
    BY <2>2, Others DEF WInv
  <2>3. CASE Finish(s) /\ Check(s) # Check(q)
    BY <2>1, <2>3 DEF Finish, WInv, Rows
  <2> QED BY <1>1, <2>2, <2>3
<1>2. CASE Finish(s) /\ Check(s) = Check(q)
  <2>1. rowLock[Check(q)] \in {NoSession, s} /\ pc[s] = "finish" /\ Orderly(Id(Check(s)))
    BY <1>2 DEF Finish, RowFree, At
  <2>2. NoSession \notin Sessions
    BY ChecksAssumption DEF ChecksAssumption
  <2>3. CASE req[q].op # "create"
    BY <2>1, <2>2, <2>3 DEF WInv, Works, Holds
  <2>4. CASE req[q].op = "create"
    <3>1. status[Check(s)] = "none" /\ req[s].op # "create"
      BY <1>2, <2>4 DEF WInv, Works, Creates, Rows
    <3>2. "none" \in Allowed(req[s].op, Kind(Check(s))) /\ Fits(req[s].op, Kind(Check(s)))
      BY <2>1, <3>1, RequestFacts DEF WInv, IInv, Works, Holds, Busy, Inserted, Orderly
    <3> QED BY <3>1, <3>2 DEF Allowed, Fits, Ops
  <2> QED BY <2>3, <2>4
<1> QED BY <1>1, <1>2

LEMMA OrderlyStays ==
  ASSUME WInv, NEW s \in Sessions, Step(s), NEW id
  PROVE  Orderly(id)' = Orderly(id)
  BY Others DEF WInv, Orderly, Check

LEMMA WorksStep ==
  ASSUME WInv, NEW s \in Sessions, Step(s), NEW q \in Sessions
  PROVE  Works(q)'
<1> SUFFICES ASSUME Orderly(Id(Check(q)))
             PROVE  /\ IF req[q].op = "create" THEN Creates(q)' ELSE Holds(q)'
                    /\ pc'[q] \in Inserted => tx'[q].ins # NoEntry
  BY Others, OrderlyStays DEF WInv, Works, Check
<1>0. /\ req' = req /\ Check(q) \in Checks /\ Works(q) /\ Check(q)' = Check(q)
      /\ s \in DOMAIN pc /\ s \in DOMAIN tx
      /\ Shaped(tx[s]) /\ NoSession \notin Sessions
  BY Others, RequestFacts, ChecksAssumption DEF WInv, IInv, Tables, ChecksAssumption, Check
<1>1. CASE q # s
  <2>1. pc'[q] = pc[q] /\ tx'[q] = tx[q] /\ (rowLock[Check(q)] = q => rowLock'[Check(q)] = q)
    BY <1>0, <1>1, Others DEF WInv
  <2>2. CASE req[q].op = "create"
    BY <1>0, <1>1, <2>1, <2>2, StatusKept DEF Works, Creates, Inserted
  <2>3. CASE req[q].op # "create"
    BY <1>0, <1>1, <2>1, <2>3, StatusKept DEF Works, Holds
  <2> QED BY <2>2, <2>3
<1>2. CASE q = s /\ (Finish(s) \/ Abort(s))
  <2>1. pc'[s] = "done"
    BY <1>0, <1>2 DEF Finish, Abort, Go
  <2> QED BY <1>0, <1>2, <2>1 DEF Creates, Holds, Inserted, Busy
<1>3. CASE q = s /\ ~Finish(s) /\ ~Abort(s)
  <2>0. status' = status
    BY <1>3, Others DEF WInv
  <2>1. CASE Probe(s)
    <3>1. pc'[s] \in {"lock", "done"} /\ req[s].op # "create"
      BY <1>0, <1>3, <2>1 DEF Probe, Go, At, Works, Creates, Inserted
    <3> QED BY <1>0, <1>3, <3>1 DEF Holds, Busy, Inserted
  <2>2. CASE LockCheck(s)
    <3>1. /\ pc'[s] = "guards" /\ req[s].op # "create" /\ rowLock'[Check(s)] = s
          /\ tx'[s] = [tx[s] EXCEPT !.from = status[Check(s)]]
          /\ status[Check(s)] \in Allowed(req[s].op, Kind(Check(s)))
      BY <1>0, <1>3, <2>2 DEF LockCheck, Go, At, Works, Creates, Inserted, WInv, Rows
    <3>2. tx'[s].from = status[Check(s)]
      BY <1>0, <3>1 DEF Shaped
    <3> QED BY <1>0, <1>3, <2>0, <3>1, <3>2 DEF Holds, Busy, Inserted
  <2>3. CASE Guards(s)
    <3>1. pc[s] = "guards" /\ Duplicates(s) = {}
      BY <1>3, <2>3, NothingFound DEF Guards, At
    <3>2. pc'[s] = "insert" /\ req[s].op # "create" /\ rowLock' = rowLock /\ tx' = tx
      BY <1>0, <1>3, <2>3, <3>1 DEF Guards, Go, Works, Creates, Inserted, Locks
    <3> QED BY <1>0, <1>3, <2>0, <3>1, <3>2 DEF Works, Holds, Busy, Inserted
  <2>4. CASE Insert(s)
    <3>1. /\ pc[s] = "insert" /\ Duplicates(s) = {} /\ pc'[s] \in {"recalc", "finish"}
          /\ req[s].op = "create" => status[Check(s)] = "none"
      BY <1>0, <1>3, <2>4, NothingFound DEF Insert, At, Go, Posted
    <3>2. rowLock' = rowLock /\ tx' = [tx EXCEPT ![s].ins = NewEntry(s)]
      BY <2>4, <3>1 DEF Insert
    <3>3. NewEntry(s) # NoEntry
      BY <1>3, <3>1, AtWork
    <3> DEFINE v == NewEntry(s)
    <3>4. tx'[s].ins = v /\ tx'[s].from = tx[s].from
      <4>1. tx'[s] = [tx[s] EXCEPT !.ins = v]
        BY <1>0, <3>2
      <4> HIDE DEF v
      <4> QED BY <1>0, <4>1 DEF Shaped
    <3> HIDE DEF v
    <3>5. v # NoEntry
      BY <3>3 DEF v
    <3> QED BY <1>0, <1>3, <2>0, <3>1, <3>2, <3>4, <3>5 DEF Works, Creates, Holds, Busy,
            Inserted
  <2>5. CASE ReadSum(s) \/ WriteTreasury(s)
    <3>1. pc[s] \in Inserted /\ pc'[s] \in Inserted /\ rowLock' = rowLock
      BY <1>0, <2>5 DEF ReadSum, WriteTreasury, At, Go, Inserted, Locks
    <3>2. tx'[s].from = tx[s].from /\ tx'[s].ins = tx[s].ins
      <4> DEFINE v == BankSum(Entries) + IF tx[s].ins = NoEntry THEN 0
                                         ELSE Effect(tx[s].ins, "bank")
      <4>1. tx'[s] = [tx[s] EXCEPT !.sum = v] \/ tx'[s] = [tx[s] EXCEPT !.treasury = TRUE]
        BY <1>0, <2>5 DEF ReadSum, WriteTreasury
      <4> HIDE DEF v
      <4> QED BY <1>0, <4>1 DEF Shaped
    <3> QED BY <1>0, <1>3, <2>0, <3>1, <3>2 DEF Works, Creates, Holds, Busy, Inserted
  <2> QED BY <1>3, <2>1, <2>2, <2>3, <2>4, <2>5 DEF Step
<1> QED BY <1>1, <1>2, <1>3

LEMMA AfterFits ==
  ASSUME NEW op \in Ops, NEW kind \in {"receivable", "payable"},
         op = "clear" => kind = "payable",
         op \in {"collect", "governance_bounce"} => kind = "receivable"
  PROVE  After(op, kind) \in StatusesOf(kind) \cap Statuses
  BY DEF After, StatusesOf, Statuses, Ops, Drawn

LEMMA RowsStep ==
  ASSUME WInv, NEW s \in Sessions, Step(s)
  PROVE  Rows'
<1>1. /\ req' = req /\ opening' = opening /\ rowLock' = [c \in Checks |-> rowLock'[c]]
      /\ Finish(s) \/ status' = status
  BY Others DEF WInv
<1>2. status' \in [Checks -> Statuses] /\ \A c \in Checks : status'[c] \in StatusesOf(Kind(c))
  <2>1. CASE status' = status
    BY <2>1 DEF WInv, Rows
  <2>2. CASE Finish(s)
    <3>1. req[s] \in Requests /\ Kind(Check(s)) \in {"receivable", "payable"}
      BY RequestFacts DEF WInv, IInv, Tables
    <3>2. /\ req[s].op \in Ops /\ (req[s].op = "clear" => Kind(Check(s)) = "payable")
          /\ req[s].op \in {"collect", "governance_bounce"} => Kind(Check(s)) = "receivable"
      BY <3>1, ChecksAssumption DEF ChecksAssumption, Check
    <3>3. After(req[s].op, Kind(Check(s))) \in StatusesOf(Kind(Check(s))) \cap Statuses
      BY <3>1, <3>2, AfterFits
    <3> QED BY <2>2, <3>3 DEF Finish, WInv, Rows
  <2> QED BY <1>1, <2>1, <2>2
<1> QED BY <1>1, <1>2 DEF WInv, Rows, Check

\* A commit adds the entry of its session, if it has one, and no other.
LEMMA Committing ==
  ASSUME WInv, NEW s \in Sessions, Finish(s)
  PROVE  /\ s \notin Entries /\ \A e \in Entries : je'[e] = je[e]
         /\ tx[s].ins = NoEntry => je' = je
         /\ tx[s].ins # NoEntry => Entries' = Entries \cup {s} /\ je'[s] = NewEntry(s)
<1>1. s \notin Entries /\ je[s] = NoEntry
  BY DEF Finish, At, WInv, Origin, Entries
<1>2. je' = [je EXCEPT ![s] = tx[s].ins] /\ je = [q \in Sessions |-> je[q]]
  BY DEF Finish, WInv, IInv, Tables
<1>3. \A q \in Sessions \ {s} : je'[q] = je[q]
  BY <1>2
<1>4. je'[s] = tx[s].ins
  BY <1>2
<1>5. ASSUME tx[s].ins = NoEntry PROVE je' = je
  BY <1>1, <1>2, <1>5
<1>6. ASSUME tx[s].ins # NoEntry PROVE Entries' = Entries \cup {s} /\ je'[s] = NewEntry(s)
  BY <1>3, <1>4, <1>6 DEF Entries, WInv, Own
<1>7. \A e \in Entries : je'[e] = je[e]
  BY <1>1, <1>3 DEF Entries
<1> QED BY <1>1, <1>5, <1>6, <1>7

LEMMA OriginStep ==
  ASSUME WInv, NEW s \in Sessions, Step(s)
  PROVE  Origin'
<1>0. /\ req' = req /\ s \in DOMAIN pc /\ \A q \in Sessions \ {s} : pc'[q] = pc[q]
  BY Others DEF WInv, IInv, Tables
<1>1. CASE ~Finish(s)
  <2>1. je' = je
    BY <1>1, Others DEF WInv
  <2>2. s \notin Entries
    BY DEF WInv, Origin, Step, Probe, LockCheck, Guards, Insert, ReadSum, WriteTreasury,
       Finish, Abort, At
  <2> QED BY <1>0, <2>1, <2>2 DEF WInv, Origin, Entries, Check
<1>2. CASE Finish(s)
  <2>1. pc'[s] = "done"
    BY <1>0, <1>2 DEF Finish, Go
  <2>2. \A e \in Entries : pc'[e] = "done" /\ je'[e] = je[e]
    BY <1>0, <1>2, <2>1, Committing DEF WInv, Origin, Entries
  <2>3. /\ NewEntry(s).check = Check(s) /\ NewEntry(s).key = req[s].key
        /\ NewEntry(s).date = req[s].date
    BY DEF NewEntry, Check
  <2>4. \A e \in Entries' : e \in Entries \/ (e = s /\ je'[s] = NewEntry(s))
    BY <1>2, Committing DEF Entries
  <2>5. \A e \in Entries' : /\ pc'[e] = "done" /\ je'[e].check = Check(e)
                            /\ je'[e].key = req[e].key /\ je'[e].date = req[e].date
    BY <2>1, <2>2, <2>3, <2>4 DEF WInv, Origin
  <2> QED BY <1>0, <2>5 DEF Origin, Check
<1> QED BY <1>1, <1>2

LEMMA InitW == Init => WInv
<1> SUFFICES ASSUME Init PROVE WInv
  OBVIOUS
<1>1. \A s \in Sessions : tx[s] = EmptyTx /\ je[s] = NoEntry
  BY DEF Init
<1>2. IInv
  BY InitInv
<1>3. Rows
  BY DEF Init, Rows, Check
<1>4. Origin
  BY <1>1 DEF Origin, Entries
<1>5. \A s \in Sessions : Own(s)
  BY <1>1, EmptyShaped DEF Own
<1>6. \A s \in Sessions : Works(s)
  <2>1. \A s \in Sessions : pc[s] = IF req[s].op = "create" THEN "insert" ELSE "probe"
    BY DEF Init
  <2>2. EmptyTx.from = "none"
    BY DEF EmptyTx
  <2> QED BY <1>1, <2>1, <2>2 DEF Works, Creates, Holds, Busy, Inserted
<1> QED BY <1>2, <1>3, <1>4, <1>5, <1>6 DEF WInv

LEMMA NextW == WInv /\ [Next]_vars => WInv'
<1>1. ASSUME WInv, NEW s \in Sessions, Step(s) PROVE WInv'
  <2>1. IInv'
    BY <1>1, StepInv DEF WInv
  <2> QED BY <1>1, <2>1, RowsStep, OriginStep, OwnStep, WorksStep DEF WInv
<1>2. ASSUME WInv, UNCHANGED vars PROVE WInv'
  <2>1. UNCHANGED <<status, je, treasury, rowLock, numLock, opening, req, pc, tx>>
    BY <1>2 DEF vars
  <2>2. IInv'
    BY <1>2, StutterInv DEF WInv
  <2>3. Rows' /\ Origin'
    BY <1>2, <2>1 DEF WInv, Rows, Origin, Entries, Check
  <2>4. ASSUME NEW s \in Sessions PROVE Own(s)' /\ Works(s)'
    BY <1>2, <2>1 DEF WInv, Own, Works, Creates, Holds, NewEntry, Check, Orderly
  <2> QED BY <2>2, <2>3, <2>4 DEF WInv
<1> QED BY <1>1, <1>2 DEF Next, Step

(***************************************************************************)
(* The sums                                                                *)
(***************************************************************************)
LEMMA EffectInt == \A e, a : Effect(e, a) \in Int
  BY DEF Effect

LEMMA EntriesFinite ==
  /\ IsFiniteSet(Entries) /\ \A c : IsFiniteSet(EntriesOf(c))
  /\ \A a : \A e \in Entries : Moves(a)[e] \in Int
<1>1. Entries \subseteq Sessions /\ \A c : EntriesOf(c) \subseteq Sessions
  BY DEF Entries, EntriesOf
<1>2. IsFiniteSet(Sessions)
  BY ChecksAssumption DEF ChecksAssumption
<1> QED BY <1>1, <1>2, FS_Subset, EffectInt DEF Moves

\* Entries that stay as they are have the sum they had.
LEMMA SumStays ==
  ASSUME NEW S \in SUBSET Entries, NEW a,
         \A e \in S : e \in Entries' /\ je'[e] = je[e]
  PROVE  SumFunctionOnSet(Moves(a)', S) = SumFunctionOnSet(Moves(a), S)
<1>1. \A e \in S : Moves(a)[e] = Moves(a)'[e]
  BY DEF Moves
<1>2. IsFiniteSet(S)
  BY EntriesFinite, FS_Subset
<1> QED BY <1>1, <1>2, SumSame

\* One more entry adds its effect.
LEMMA SumGrows ==
  ASSUME WInv, NEW s \in Sessions, Finish(s), tx[s].ins # NoEntry,
         NEW S \in SUBSET Entries, NEW a
  PROVE  SumFunctionOnSet(Moves(a)', S \cup {s})
           = SumFunctionOnSet(Moves(a), S) + Effect(NewEntry(s), a)
<1>1. /\ s \notin S /\ Entries' = Entries \cup {s} /\ je'[s] = NewEntry(s)
      /\ \A e \in S : e \in Entries' /\ je'[e] = je[e]
  BY Committing
<1>2. SumFunctionOnSet(Moves(a)', S) = SumFunctionOnSet(Moves(a), S)
  BY <1>1, SumStays
<1>3. \A e \in S \cup {s} : Moves(a)'[e] \in Int
  BY <1>1, EffectInt DEF Moves
<1>4. IsFiniteSet(S)
  BY EntriesFinite, FS_Subset
<1>5. SumFunctionOnSet(Moves(a)', S \cup {s})
        = SumFunctionOnSet(Moves(a)', S) + Moves(a)'[s]
  BY <1>1, <1>3, <1>4, SumAdd
<1>6. Moves(a)'[s] = Effect(NewEntry(s), a)
  BY <1>1 DEF Moves
<1> QED BY <1>2, <1>5, <1>6

LEMMA ExpectedInt ==
  ASSUME NEW kind, NEW st, NEW a \in Accounts
  PROVE  Expected(kind, st)[a] \in Int
  BY DEF Expected

\* A step that leaves the entries and the status of a check alone.
LEMMA Unmoved ==
  ASSUME NEW c \in Checks, InStep(c), opening' = opening, status'[c] = status[c],
         EntriesOf(c)' = EntriesOf(c),
         \A e \in EntriesOf(c) : e \in Entries' /\ je'[e] = je[e]
  PROVE  InStep(c)'
<1> SUFFICES ASSUME NEW a \in Accounts
             PROVE  Position(c, a)' = Expected(Kind(c), status'[c])[a]
  BY DEF InStep
<1>1. EntriesOf(c) \in SUBSET Entries
  BY DEF EntriesOf
<1>2. SumFunctionOnSet(Moves(a)', EntriesOf(c)) = SumFunctionOnSet(Moves(a), EntriesOf(c))
  BY <1>1, SumStays
<1> QED BY <1>2 DEF InStep, Position

LEMMA FollowedStep ==
  ASSUME WInv, Followed, NEW s \in Sessions, Step(s)
  PROVE  Followed'
<1> SUFFICES ASSUME NEW c \in Checks, Orderly(Id(c)) PROVE InStep(c)'
  BY OrderlyStays DEF Followed
<1>0. InStep(c) /\ opening' = opening
  BY Others DEF Followed, WInv
<1>1. CASE ~Finish(s)
  <2>1. UNCHANGED <<status, je>>
    BY <1>1, Others DEF WInv
  <2> QED BY <1>0, <2>1, Unmoved DEF EntriesOf, Entries
<1>2. CASE Finish(s) /\ c # Check(s)
  <2>1. status'[c] = status[c]
    BY <1>2 DEF Finish, WInv, Rows
  <2>2. NewEntry(s).check = Check(s)
    BY DEF NewEntry, Check
  <2>3. CASE tx[s].ins = NoEntry
    <3>1. je' = je
      BY <1>2, <2>3, Committing
    <3> QED BY <1>0, <2>1, <3>1, Unmoved DEF EntriesOf, Entries
  <2>4. CASE tx[s].ins # NoEntry
    <3>1. /\ Entries' = Entries \cup {s} /\ je'[s] = NewEntry(s) /\ s \notin Entries
          /\ \A e \in Entries : je'[e] = je[e]
      BY <1>2, <2>4, Committing
    <3>2. EntriesOf(c)' = EntriesOf(c)
      BY <1>2, <2>2, <3>1 DEF EntriesOf
    <3> QED BY <1>0, <2>1, <3>1, <3>2, Unmoved DEF EntriesOf
  <2> QED BY <2>3, <2>4
<1>3. CASE Finish(s) /\ c = Check(s)
  <2>1. /\ pc[s] = "finish" /\ s \in Sessions
        /\ status' = [status EXCEPT ![c] = After(req[s].op, Kind(c))]
    BY <1>3 DEF Finish, At
  <2>2. /\ tx[s].ins # NoEntry /\ (req[s].op = "create" => status[c] = "none")
    BY <1>3, <2>1 DEF WInv, Works, Creates, Inserted
  <2>3. /\ tx[s].from = status[c]
        /\ \A a \in Accounts :
             Effect(NewEntry(s), a)
               = Expected(Kind(c), After(req[s].op, Kind(c)))[a]
                 - Expected(Kind(c), tx[s].from)[a]
    BY <1>3, <2>1, <2>2, AtWork DEF Inserted
  <2>4. status'[c] = After(req[s].op, Kind(c))
    BY <2>1 DEF WInv, Rows
  <2>5. /\ Entries' = Entries \cup {s} /\ je'[s] = NewEntry(s) /\ s \notin Entries
        /\ \A e \in Entries : je'[e] = je[e]
    BY <1>3, <2>2, Committing
  <2>6. EntriesOf(c)' = EntriesOf(c) \cup {s}
    <3>1. NewEntry(s).check = c
      BY <1>3 DEF NewEntry, Check
    <3> QED BY <2>5, <3>1 DEF EntriesOf
  <2> SUFFICES ASSUME NEW a \in Accounts
               PROVE  Position(c, a)' = Expected(Kind(c), status'[c])[a]
    BY DEF InStep
  <2>7. SumFunctionOnSet(Moves(a)', EntriesOf(c) \cup {s})
          = SumFunctionOnSet(Moves(a), EntriesOf(c)) + Effect(NewEntry(s), a)
    BY <1>3, <2>2, SumGrows DEF EntriesOf
  <2>8. Position(c, a)' = Expected(Kind(c), opening[c])[a]
                          + (SumFunctionOnSet(Moves(a), EntriesOf(c)) + Effect(NewEntry(s), a))
    BY <1>0, <2>6, <2>7 DEF Position
  <2>9. Expected(Kind(c), opening[c])[a] + SumFunctionOnSet(Moves(a), EntriesOf(c))
          = Expected(Kind(c), status[c])[a]
    BY <1>0 DEF InStep, Position
  <2>10. SumFunctionOnSet(Moves(a), EntriesOf(c)) \in Int
    BY EntriesFinite, SumType DEF EntriesOf
  <2> DEFINE x == Expected(Kind(c), opening[c])[a]
             y == SumFunctionOnSet(Moves(a), EntriesOf(c))
             z == Expected(Kind(c), status[c])[a]
             w == Expected(Kind(c), After(req[s].op, Kind(c)))[a]
  <2>11. x \in Int /\ y \in Int /\ z \in Int /\ w \in Int
    BY <2>10, ExpectedInt
  <2>12. Effect(NewEntry(s), a) = w - z /\ x + y = z
    BY <2>3, <2>9
  <2>13. Position(c, a)' = x + (y + (w - z)) /\ Expected(Kind(c), status'[c])[a] = w
    BY <2>4, <2>8, <2>12
  <2> HIDE DEF x, y, z, w
  <2> QED BY <2>11, <2>12, <2>13
<1> QED BY <1>1, <1>2, <1>3

(***************************************************************************)
(* The treasury balance.  Whoever has read the ledger sum holds the        *)
(* number's lock, and nobody else commits an entry until it ends.          *)
(***************************************************************************)
AllOrderly == \A c \in Checks : Orderly(Id(c))

Recomputing(s) == Recomputes(req[s].op, tx[s].from)

Fresh(s) == tx[s].sum = BankSum(Entries) + Effect(tx[s].ins, "bank")

Treasure(s) ==
  /\ pc[s] \in {"recalc", "treasury"} => Recomputing(s)
  /\ pc[s] = "treasury" => Fresh(s)
  /\ pc[s] = "finish" /\ Recomputing(s) => Fresh(s)
  /\ tx[s].treasury = (pc[s] = "finish" /\ Recomputing(s))

Cached == AllOrderly => treasury = BankSum(Entries) /\ \A s \in Sessions : Treasure(s)

LEMMA BankInt == BankSum(Entries) \in Int
<1>1. "bank" \in Accounts /\ IsFiniteSet(Checks)
  BY ChecksAssumption DEF ChecksAssumption, Accounts
<1> DEFINE w == [c \in Checks |-> Expected(Kind(c), opening[c])["bank"]]
<1>2. \A c \in Checks : w[c] \in Int
  BY <1>1, ExpectedInt
<1>3. SumFunctionOnSet(w, Checks) \in Int
  <2> HIDE DEF w
  <2> QED BY <1>1, <1>2, SumType
<1>4. SumFunctionOnSet(Moves("bank"), Entries) \in Int
  BY EntriesFinite, SumType
<1> QED BY <1>3, <1>4 DEF BankSum

LEMMA BankGrows ==
  ASSUME WInv, NEW s \in Sessions, Finish(s), tx[s].ins # NoEntry
  PROVE  BankSum(Entries)' = BankSum(Entries) + Effect(NewEntry(s), "bank")
<1>1. Entries' = Entries \cup {s} /\ opening' = opening
  BY Committing, Others DEF WInv, Step
<1>2. SumFunctionOnSet(Moves("bank")', Entries \cup {s})
        = SumFunctionOnSet(Moves("bank"), Entries) + Effect(NewEntry(s), "bank")
  BY SumGrows
<1> DEFINE x == SumFunctionOnSet([c \in Checks |-> Expected(Kind(c), opening[c])["bank"]],
                                 Checks)
           y == SumFunctionOnSet(Moves("bank"), Entries)
           z == Effect(NewEntry(s), "bank")
<1>3. y \in Int /\ z \in Int /\ x \in Int
  <2>1. "bank" \in Accounts /\ IsFiniteSet(Checks)
    BY ChecksAssumption DEF ChecksAssumption, Accounts
  <2> DEFINE w == [c \in Checks |-> Expected(Kind(c), opening[c])["bank"]]
  <2>2. \A c \in Checks : w[c] \in Int
    BY <2>1, ExpectedInt
  <2>3. SumFunctionOnSet(w, Checks) \in Int
    <3> HIDE DEF w
    <3> QED BY <2>1, <2>2, SumType
  <2> QED BY <2>3, EntriesFinite, EffectInt, SumType
<1>4. BankSum(Entries)' = x + (y + z) /\ BankSum(Entries) = x + y
  BY <1>1, <1>2 DEF BankSum
<1>5. BankSum(Entries)' = BankSum(Entries) + z
  <2> HIDE DEF x, y, z
  <2> QED BY <1>3, <1>4
<1> QED BY <1>5

\* Nothing committed: the sum stands.
LEMMA BankStands ==
  ASSUME UNCHANGED <<je, opening>>
  PROVE  BankSum(Entries)' = BankSum(Entries)
  BY DEF BankSum, Moves, Entries

LEMMA CachedStep ==
  ASSUME WInv, Cached, NEW s \in Sessions, Step(s)
  PROVE  Cached'
<1> SUFFICES ASSUME AllOrderly
             PROVE  /\ treasury' = BankSum(Entries)'
                    /\ \A q \in Sessions : Treasure(q)'
  BY OrderlyStays DEF Cached, AllOrderly
<1>0. /\ treasury = BankSum(Entries) /\ \A q \in Sessions : Treasure(q)
      /\ \A q \in Sessions : Orderly(Id(Check(q)))
      /\ req' = req /\ opening' = opening
      /\ \A q \in Sessions \ {s} : pc'[q] = pc[q] /\ tx'[q] = tx[q]
  BY RequestFacts, Others DEF Cached, AllOrderly, WInv, IInv
<1>1. Shaped(tx[s]) /\ s \in DOMAIN tx /\ s \in DOMAIN pc
  BY DEF WInv, IInv, Tables
<1>2. ASSUME ~Finish(s) PROVE BankSum(Entries)' = BankSum(Entries) /\ treasury' = treasury
  BY <1>0, <1>2, Others, BankStands DEF WInv
<1>3. ASSUME NEW q \in Sessions \ {s}, ~Finish(s) PROVE Treasure(q)'
  BY <1>0, <1>2, <1>3 DEF Treasure, Fresh, Recomputing
<1>4. CASE Finish(s)
  <2>1. pc[s] = "finish" /\ tx[s].ins # NoEntry
    BY <1>0, <1>4 DEF Finish, At, WInv, Works, Inserted
  <2>2. numLock = s /\ tx[s].ins = NewEntry(s)
    BY <2>1 DEF WInv, IInv, Alone, Own
  <2>3. ASSUME NEW q \in Sessions \ {s} PROVE Treasure(q)'
    <3>1. pc[q] \notin Inserted
      BY <1>0, <2>2 DEF WInv, IInv, Alone, Works
    <3>2. tx[q].treasury = FALSE
      BY <1>0, <3>1 DEF Treasure, Inserted
    <3> QED BY <1>0, <3>1, <3>2 DEF Treasure, Inserted
  <2>4. Treasure(s)'
    <3>1. pc'[s] = "done" /\ tx'[s].treasury = FALSE
      BY <1>1, <1>4 DEF Finish, Go, EmptyTx
    <3> QED BY <3>1 DEF Treasure
  <2>5. BankSum(Entries)' = BankSum(Entries) + Effect(NewEntry(s), "bank")
    BY <1>4, <2>1, BankGrows
  <2>6. CASE Recomputing(s)
    <3>1. treasury' = tx[s].sum /\ Fresh(s)
      BY <1>0, <1>4, <2>1, <2>6 DEF Treasure, Finish
    <3> QED BY <2>2, <2>3, <2>4, <2>5, <3>1 DEF Fresh
  <2>7. CASE ~Recomputing(s)
    <3>1. treasury' = treasury
      BY <1>0, <1>4, <2>7 DEF Treasure, Finish
    <3>2. req[s].op = "create" => status[Check(s)] = "none"
      BY <1>0, <2>1 DEF WInv, Works, Creates, Inserted
    <3>3. Effect(NewEntry(s), "bank") = 0
      BY <1>0, <2>1, <2>7, <3>2, AtWork DEF Recomputing, Inserted
    <3> QED BY <1>0, <2>3, <2>4, <2>5, <3>1, <3>3, BankInt
  <2> QED BY <2>6, <2>7
<1>5. CASE ~Finish(s)
  <2> SUFFICES Treasure(s)'
    BY <1>0, <1>2, <1>3, <1>5
  <2>1. CASE Abort(s)
    <3>1. pc'[s] = "done" /\ tx'[s].treasury = FALSE
      BY <1>1, <2>1 DEF Abort, Go, EmptyTx
    <3> QED BY <3>1 DEF Treasure
  <2>2. CASE Probe(s) \/ Guards(s) \/ LockCheck(s)
    <3>1. pc[s] \in {"probe", "guards", "lock"} /\ tx'[s].treasury = tx[s].treasury
      BY <1>1, <2>2 DEF Probe, Guards, LockCheck, At, Shaped
    <3>2. pc'[s] \in {"lock", "done", "guards", "insert"}
      <4>1. Guards(s) => Duplicates(s) = {}
        BY <1>0, NothingFound DEF Guards, At
      <4> QED BY <1>1, <2>2, <4>1 DEF Probe, Guards, LockCheck, Go
    <3> QED BY <1>0, <3>1, <3>2 DEF Treasure
  <2>3. CASE Insert(s)
    <3>1. pc[s] = "insert" /\ Duplicates(s) = {}
      BY <1>0, <2>3, NothingFound DEF Insert, At
    <3> DEFINE v == NewEntry(s)
    <3>2. tx'[s] = [tx[s] EXCEPT !.ins = v]
      BY <1>1, <2>3, <3>1 DEF Insert
    <3>3. tx'[s].from = tx[s].from /\ tx'[s].treasury = tx[s].treasury
      <4> HIDE DEF v
      <4> QED BY <1>1, <3>2 DEF Shaped
    <3>4. pc'[s] = IF Recomputing(s) THEN "recalc" ELSE "finish"
      BY <1>1, <2>3 DEF Insert, Go, Posted, Recomputing
    <3>5. Recomputing(s)' = Recomputing(s)
      BY <1>0, <3>3 DEF Recomputing
    <3> QED BY <1>0, <3>1, <3>3, <3>4, <3>5 DEF Treasure
  <2>4. CASE ReadSum(s)
    <3>1. pc[s] = "recalc" /\ tx[s].ins # NoEntry /\ pc'[s] = "treasury"
      BY <1>0, <1>1, <2>4 DEF ReadSum, At, Go, WInv, Works, Inserted
    <3> DEFINE v == BankSum(Entries) + Effect(tx[s].ins, "bank")
    <3>2. tx'[s] = [tx[s] EXCEPT !.sum = v]
      BY <1>1, <2>4, <3>1 DEF ReadSum
    <3>3. /\ tx'[s].from = tx[s].from /\ tx'[s].treasury = tx[s].treasury
          /\ tx'[s].ins = tx[s].ins /\ tx'[s].sum = v
      <4> HIDE DEF v
      <4> QED BY <1>1, <3>2 DEF Shaped
    <3>4. Fresh(s)' /\ Recomputing(s)' = Recomputing(s)
      BY <1>0, <1>2, <1>5, <3>3 DEF Fresh, Recomputing
    <3> QED BY <1>0, <3>1, <3>3, <3>4 DEF Treasure
  <2>5. CASE WriteTreasury(s)
    <3>1. pc[s] = "treasury" /\ pc'[s] = "finish" /\ tx'[s] = [tx[s] EXCEPT !.treasury = TRUE]
      BY <1>1, <2>5 DEF WriteTreasury, At, Go
    <3>2. /\ tx'[s].from = tx[s].from /\ tx'[s].treasury = TRUE
          /\ tx'[s].ins = tx[s].ins /\ tx'[s].sum = tx[s].sum
      BY <1>1, <3>1 DEF Shaped
    <3>3. Fresh(s)' = Fresh(s) /\ Recomputing(s)' = Recomputing(s)
      BY <1>0, <1>2, <1>5, <3>2 DEF Fresh, Recomputing
    <3> QED BY <1>0, <3>1, <3>2, <3>3 DEF Treasure
  <2> QED BY <1>5, <2>1, <2>2, <2>3, <2>4, <2>5 DEF Step
<1> QED BY <1>4, <1>5

LEMMA Ledger ==
  Spec => [](WInv /\ Followed /\ Cached)
<1>1. Init => Followed /\ Cached
  <2> SUFFICES ASSUME Init PROVE Followed /\ Cached
    OBVIOUS
  <2>1. Entries = {} /\ \A c : EntriesOf(c) = {}
    BY DEF Init, Entries, EntriesOf
  <2>2. \A c \in Checks : InStep(c)
    <3> SUFFICES ASSUME NEW c \in Checks, NEW a \in Accounts
                 PROVE  Position(c, a) = Expected(Kind(c), status[c])[a]
      BY DEF InStep
    <3>1. SumFunctionOnSet(Moves(a), EntriesOf(c)) = 0
      BY <2>1, SumNone
    <3>2. Expected(Kind(c), opening[c])[a] \in Int
      BY ExpectedInt
    <3> QED BY <3>1, <3>2 DEF Position, Init
  <2>3. treasury = BankSum(Entries)
    BY <2>1 DEF Init
  <2>4. \A s \in Sessions : Treasure(s)
    <3>1. \A s \in Sessions : pc[s] \in {"insert", "probe"} /\ tx[s].treasury = FALSE
      BY DEF Init, EmptyTx
    <3> QED BY <3>1 DEF Treasure
  <2> QED BY <2>2, <2>3, <2>4 DEF Followed, Cached
<1>2. WInv /\ Followed /\ Cached /\ [Next]_vars => Followed' /\ Cached'
  <2>1. ASSUME WInv, Followed, Cached, UNCHANGED vars PROVE Followed' /\ Cached'
    <3>1. UNCHANGED <<status, je, treasury, opening, req, pc, tx>>
      BY <2>1 DEF vars
    <3>2. BankSum(Entries)' = BankSum(Entries)
      BY <3>1, BankStands
    <3>3. \A id : Orderly(id)' = Orderly(id)
      BY <3>1 DEF Orderly, Check
    <3>4. \A c \in Checks : InStep(c)' = InStep(c)
      BY <3>1 DEF InStep, Position, Moves, EntriesOf, Entries
    <3>5. \A s \in Sessions : Treasure(s)' = Treasure(s)
      BY <3>1, <3>2 DEF Treasure, Fresh, Recomputing
    <3> QED BY <2>1, <3>1, <3>2, <3>3, <3>4, <3>5 DEF Followed, Cached, AllOrderly
  <2> QED BY <2>1, FollowedStep, CachedStep DEF Next, Step
<1> QED BY <1>1, <1>2, InitW, NextW, PTL DEF Spec

\* Every committed change of a check's status came with its own entry, once,
\* and moved every account by what the statuses say, for any requests,
\* checks, dates and keys (checks.py).
THEOREM StatusesPosted == Spec => []LedgerFollowsStatus
<1>1. WInv /\ Followed => LedgerFollowsStatus
  BY DEF WInv, IInv, Followed, LedgerFollowsStatus
<1> QED BY <1>1, Ledger, PTL

\* The treasury balance is the ledger sum of the bank, for any requests: a
\* recomputation never overwrites a later one (recalc_treasury_from_gl).
THEOREM TreasuryCurrent == Spec => []TreasuryIsBankSum
<1>1. Cached => TreasuryIsBankSum
  BY DEF Cached, AllOrderly, TreasuryIsBankSum
<1> QED BY <1>1, Ledger, PTL

(***************************************************************************)
(* Types.  The accounts of an entry come from the status read, so it must  *)
(* be known that the operation accepts it.                                 *)
(***************************************************************************)
TxType == [from : Statuses, ins : Entry \cup {NoEntry}, sum : Int, treasury : BOOLEAN]

Accepts(s) ==
  /\ req[s].op = "create" => /\ pc[s] \in {"insert", "done"} \cup Inserted
                             /\ tx[s].from = "none"
  /\ req[s].op # "create" /\ pc[s] \in Busy
       => tx[s].from \in Allowed(req[s].op, Kind(Check(s)))

Typed == TypeOK /\ \A s \in Sessions : Accepts(s)

LEMMA PostingAccounts ==
  ASSUME NEW op \in Ops, NEW kind \in {"receivable", "payable"},
         op = "clear" => kind = "payable",
         op \in {"collect", "governance_bounce"} => kind = "receivable",
         NEW from \in Allowed(op, kind)
  PROVE  Posting(op, kind, from) \in Accounts \X Accounts
<1>1. CASE op = "governance_bounce"
  BY <1>1 DEF Posting, Accounts, Drawn
<1>2. CASE op \in {"collect", "clear"}
  BY <1>2 DEF Posting, Accounts, Drawn
<1>3. CASE op = "bounce"
  <2>1. from \in {"pending", "collected", "issued", "cleared"}
    BY <1>3 DEF Allowed
  <2> QED BY <1>3, <2>1 DEF Posting, Accounts, Drawn
<1>4. CASE op \in {"create", "represent"}
  BY <1>4 DEF Posting, Accounts, Drawn
<1> QED BY <1>1, <1>2, <1>3, <1>4 DEF Ops

LEMMA EntryTyped ==
  ASSUME Tables, NEW s \in Sessions,
         tx[s].from \in Allowed(req[s].op, Kind(Check(s)))
  PROVE  NewEntry(s) \in Entry
<1> DEFINE p == Posting(req[s].op, Kind(Check(s)), tx[s].from)
<1>1. req[s] \in Requests
  BY DEF Tables
<1>2. /\ req[s].op = "clear" => Kind(Check(s)) = "payable"
      /\ req[s].op \in {"collect", "governance_bounce"} => Kind(Check(s)) = "receivable"
  BY <1>1, ChecksAssumption DEF ChecksAssumption, Check
<1>3. p \in Accounts \X Accounts
  BY <1>2, PostingAccounts, RequestFacts
<1>4. NewEntry(s) = [ check |-> Check(s), key |-> req[s].key, source |-> "system",
                      withId |-> HasSourceId(req[s]), date |-> req[s].date,
                      debit |-> p[1], credit |-> p[2] ]
  BY Requested DEF NewEntry, Check
<1> HIDE DEF p
<1>5. /\ req[s].key \in Keys \cup {NoKey} /\ req[s].date \in Dates /\ Check(s) \in Checks
      /\ HasSourceId(req[s]) \in BOOLEAN /\ "system" \in Values
      /\ p[1] \in Accounts /\ p[2] \in Accounts
  BY <1>3, RequestFacts DEF HasSourceId, Values
<1> QED BY <1>4, <1>5 DEF Entry

LEMMA TypedStep ==
  ASSUME WInv, Typed, NEW s \in Sessions, Step(s)
  PROVE  Typed'
<1>0. /\ req' = req /\ opening' = opening /\ s \in DOMAIN pc /\ s \in DOMAIN tx
      /\ Finish(s) \/ UNCHANGED <<status, je, treasury>>
      /\ \A q \in Sessions \ {s} : pc'[q] = pc[q] /\ tx'[q] = tx[q]
      /\ tx \in [Sessions -> TxType] /\ tx[s] \in TxType /\ Shaped(tx[s]) /\ Accepts(s)
      /\ Check(s) \in Checks
  BY Others, RequestFacts DEF WInv, IInv, Tables, Typed, TypeOK, TxType
<1>1. EmptyTx \in TxType /\ EmptyTx.from = "none"
  BY DEF EmptyTx, TxType, Statuses
<1>2. tx'[s] \in TxType /\ Accepts(s)'
  <2>1. CASE Probe(s)
    BY <1>0, <2>1 DEF Probe, Go, At, Accepts, Busy, Inserted, Check
  <2>2. CASE LockCheck(s)
    <3>1. /\ tx'[s] = [tx[s] EXCEPT !.from = status[Check(s)]] /\ req[s].op # "create"
          /\ status[Check(s)] \in Allowed(req[s].op, Kind(Check(s))) \cap Statuses
      BY <1>0, <2>2 DEF LockCheck, At, Accepts, Inserted, WInv, Rows
    <3>2. tx'[s].from = status[Check(s)] /\ tx'[s] \in TxType
      BY <1>0, <3>1 DEF Shaped, TxType
    <3> QED BY <1>0, <3>1, <3>2 DEF Accepts, Check
  <2>3. CASE Guards(s)
    BY <1>0, <2>3 DEF Guards, Go, At, Accepts, Busy, Inserted, Check, Posted
  <2>4. CASE Insert(s)
    <3>1. pc[s] = "insert" /\ pc'[s] \in Inserted
      BY <1>0, <2>4 DEF Insert, At, Go, Posted, Inserted
    <3>2. CASE Duplicates(s) # {}
      BY <1>0, <2>4, <3>1, <3>2 DEF Insert, Accepts, Busy, Check
    <3>3. CASE Duplicates(s) = {}
      <4> DEFINE v == NewEntry(s)
      <4>1. tx'[s] = [tx[s] EXCEPT !.ins = v]
        BY <1>0, <2>4, <3>3 DEF Insert
      <4>2. tx[s].from \in Allowed(req[s].op, Kind(Check(s)))
        BY <1>0, <3>1 DEF Accepts, Busy, Allowed
      <4>3. v \in Entry
        BY <4>2, EntryTyped DEF WInv, IInv
      <4>4. tx'[s].from = tx[s].from /\ tx'[s] \in TxType
        <5> HIDE DEF v
        <5> QED BY <1>0, <4>1, <4>3 DEF Shaped, TxType
      <4> QED BY <1>0, <3>1, <4>4 DEF Accepts, Busy, Check
    <3> QED BY <3>2, <3>3
  <2>5. CASE ReadSum(s)
    <3> DEFINE v == BankSum(Entries) + IF tx[s].ins = NoEntry THEN 0
                                       ELSE Effect(tx[s].ins, "bank")
    <3>1. tx'[s] = [tx[s] EXCEPT !.sum = v]
      BY <1>0, <2>5 DEF ReadSum
    <3>2. v \in Int
      BY BankInt, EffectInt
    <3>3. tx'[s].from = tx[s].from /\ tx'[s] \in TxType
      <4> HIDE DEF v
      <4> QED BY <1>0, <3>1, <3>2 DEF Shaped, TxType
    <3> QED BY <1>0, <2>5, <3>3 DEF ReadSum, Go, At, Accepts, Busy, Inserted, Check
  <2>6. CASE WriteTreasury(s)
    <3>1. tx'[s] = [tx[s] EXCEPT !.treasury = TRUE]
      BY <1>0, <2>6 DEF WriteTreasury
    <3>2. tx'[s].from = tx[s].from /\ tx'[s] \in TxType
      BY <1>0, <3>1 DEF Shaped, TxType
    <3> QED BY <1>0, <2>6, <3>2 DEF WriteTreasury, Go, At, Accepts, Busy, Inserted, Check
  <2>7. CASE Finish(s) \/ Abort(s)
    <3>1. tx'[s] = EmptyTx /\ pc'[s] = "done"
      BY <1>0, <2>7 DEF Finish, Abort, Go
    <3> QED BY <1>0, <1>1, <3>1 DEF Accepts, Busy, Inserted
  <2> QED BY <2>1, <2>2, <2>3, <2>4, <2>5, <2>6, <2>7 DEF Step
<1>3. \A q \in Sessions : Accepts(q)'
  BY <1>0, <1>2 DEF Typed, Accepts, Check
<1>4. tx' \in [Sessions -> TxType]
  <2>1. PICK t : tx' = [tx EXCEPT ![s] = t]
    BY Effects DEF WInv
  <2> QED BY <1>0, <1>2, <2>1
<1>5. pc' \in [Sessions -> {"probe", "lock", "guards", "insert", "recalc", "treasury",
                            "finish", "done"}]
  BY DEF Step, Probe, LockCheck, Guards, Insert, ReadSum, WriteTreasury, Finish, Abort, Go,
     Posted, Typed, TypeOK
<1>6. /\ rowLock' \in [Checks -> Sessions \cup {NoSession}]
      /\ numLock' \in Sessions \cup {NoSession} /\ treasuryLock' \in Sessions \cup {NoSession}
  BY DEF Step, Probe, LockCheck, Guards, Insert, ReadSum, WriteTreasury, Finish, Abort,
     Locks, ReleaseLocks, Typed, TypeOK
<1>7. Rows'
  BY RowsStep
<1>8. je' \in [Sessions -> Entry \cup {NoEntry}] /\ treasury' \in Int
  <2>1. CASE ~Finish(s)
    BY <1>0, <2>1 DEF Typed, TypeOK
  <2>2. CASE Finish(s)
    BY <1>0, <2>2 DEF Finish, Typed, TypeOK, TxType
  <2> QED BY <2>1, <2>2
<1> QED BY <1>0, <1>3, <1>4, <1>5, <1>6, <1>7, <1>8 DEF Typed, TypeOK, Rows, TxType

\* Every reachable state is well typed: statuses that fit the check's table,
\* entries between accounts, uncommitted work and lock holders.
THEOREM TypeCorrect == Spec => []TypeOK
<1>1. Init => Typed
  <2> SUFFICES ASSUME Init PROVE Typed
    OBVIOUS
  <2>1. treasury \in Int
    <3>1. Entries = {}
      BY DEF Init, Entries
    <3> QED BY <3>1, BankInt DEF Init
  <2>2. EmptyTx \in TxType
    BY DEF EmptyTx, TxType, Statuses
  <2> QED BY <2>1, <2>2 DEF Init, Typed, TypeOK, Accepts, TxType, Busy, Inserted, EmptyTx
<1>2. WInv /\ Typed /\ [Next]_vars => Typed'
  <2>1. Typed /\ UNCHANGED vars => Typed'
    BY DEF vars, Typed, TypeOK, Accepts, Check
  <2> QED BY <2>1, TypedStep DEF Next, Step
<1>3. Typed => TypeOK
  BY DEF Typed
<1> QED BY <1>1, <1>2, <1>3, Ledger, PTL DEF Spec
=============================================================================
