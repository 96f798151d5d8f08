------------------------ MODULE GeneralLedgerProofs ------------------------
(***************************************************************************)
(* What the GL engine guarantees for any number of sessions, accounts and  *)
(* requests: types, the history of an entry, that it is reversed once, the *)
(* refinement of JournalLedger, the balances and the answers.  TypeOK      *)
(* alone is not inductive: a row is read from, or written to, the target   *)
(* of a request, so it must be known which requests have a target.         *)
(* StepsFit says it, by listing the statements of each operation.          *)
(***************************************************************************)
EXTENDS GeneralLedger, Sums, TLAPS

CreationSteps == { "key", "source", "period", "number", "insert", "recheck",
                   "lines", "commit", "done" }

StepsOf(op) ==
  CASE op = "create"  -> CreationSteps \cup {"probe", "precheck"}
    [] op = "void"    -> CreationSteps \cup {"probe", "precheck", "rkey", "lock",
                                             "mark"}
    [] op = "reverse" -> CreationSteps \cup {"precheck", "rkey", "lock", "mark"}
    [] op = "post"    -> { "pread", "pkey", "lock", "period", "flip", "lines",
                           "commit", "done" }

StepsFit ==
  \A s \in Sessions : /\ pc[s] \in StepsOf(req[s].op)
                      /\ pc[s] = "lines" => tx[s].at \in Accounts

Inv == TypeOK /\ StepsFit

(***************************************************************************)
(* Source tags: what the column can hold (the CHECK constraint of          *)
(* migration 022g), and that a value read back from the column is its own  *)
(* normal form.                                                            *)
(***************************************************************************)
THEOREM NormalizeInValues == \A v : Normalize(v) \in Values
  BY DEF Normalize, Alias, Values

\* JESource.normalize does not change what it has returned.
THEOREM NormalizeIdempotent == \A v : Normalize(Normalize(v)) = Normalize(v)
  BY NormalizeInValues DEF Normalize

(***************************************************************************)
(* Rows                                                                    *)
(***************************************************************************)
LEMMA RequestFacts ==
  ASSUME TypeOK, NEW s \in Sessions
  PROVE  /\ req[s] \in RequestType
         /\ req[s].op # "create" => Target(s) \in Sessions
         /\ \E a \in Accounts : req[s].lines[a] # 0
  BY RequestsAssumption DEF TypeOK, Target

LEMMA NoRowType == NoRow \in Entry /\ EmptyTx \in TxType /\ Zero \in [Accounts -> Int]
<1>1. (CHOOSE d \in Dates : TRUE) \in Dates
  BY NamesAssumption
<1>2. Zero \in [Accounts -> Int]
  BY DEF Zero
<1>3. "manual" \in Values
  BY DEF Values
<1>4. NoRow \in Entry
  BY <1>1, <1>2, <1>3 DEF NoRow, Entry, Statuses
<1>5. EmptyTx \in TxType
  BY <1>2, <1>4 DEF EmptyTx, TxType
<1> QED
  BY <1>2, <1>4, <1>5

LEMMA OppositeType == \A l \in [Accounts -> Int] : Opposite(l) \in [Accounts -> Int]
  BY DEF Opposite

LEMMA BaseType ==
  \A rate \in Int : \A l \in [Accounts -> Int] : Base(rate, l) \in [Accounts -> Int]
<1> SUFFICES ASSUME NEW rate \in Int, NEW l \in [Accounts -> Int], NEW a \in Accounts
             PROVE  rate * l[a] \in Int
  BY DEF Base
<1>1. l[a] \in Int
  OBVIOUS
<1> QED
  BY <1>1

\* The row a session sees and the row it inserts are rows.
LEMMA RowType ==
  ASSUME TypeOK, NEW s \in Sessions, req[s].op # "create"
  PROVE  /\ Row(s) \in Entry
         /\ je[Target(s)] \in Entry
  BY RequestFacts DEF TypeOK, Row, TxType

LEMMA NewRowType ==
  ASSUME TypeOK, NEW s \in Sessions
  PROVE  NewRow(s) \in Entry
<1>1. req[s] \in RequestType
  BY RequestFacts
<1>2. CASE Reversing(s)
  <2>1. Target(s) \in Sessions
    BY <1>2, RequestFacts DEF Reversing
  <2>2. /\ je[Target(s)].rate \in Nat \ {0}
        /\ Opposite(je[Target(s)].lines) \in [Accounts -> Int]
    BY <2>1, OppositeType DEF TypeOK, Entry
  <2>4. Base(je[Target(s)].rate, Opposite(je[Target(s)].lines)) \in [Accounts -> Int]
    BY <2>2, BaseType
  <2>3. "reversal" \in Values
    BY DEF Values
  <2> QED
    BY <1>1, <1>2, <2>1, <2>2, <2>3, <2>4 DEF NewRow, Entry, Statuses, RequestType
<1>3. CASE ~Reversing(s)
  <2>1. StoredSource(req[s]) \in Values
    BY NormalizeInValues DEF StoredSource
  <2>2. Base(req[s].rate, req[s].lines) \in [Accounts -> Int]
    BY <1>1, BaseType DEF RequestType
  <2> QED
    BY <1>1, <1>3, <2>1, <2>2 DEF NewRow, Entry, Statuses, RequestType
<1> QED
  BY <1>2, <1>3

(***************************************************************************)
(* Ends of a session keep the invariant                                    *)
(***************************************************************************)
LEMMA DropWorkType ==
  ASSUME Inv, NEW s \in Sessions, DropWork(s)
  PROVE  /\ rowLock' \in [Sessions -> Sessions \cup {NoSession}]
         /\ acctLock' \in [Accounts -> Sessions \cup {NoSession}]
         /\ numLock' \in Sessions \cup {NoSession}
         /\ tx' \in [Sessions -> TxType]
         /\ \A q \in Sessions \ {s} : tx'[q] = tx[q]
  BY NoRowType DEF Inv, TypeOK, DropWork, ReleaseLocks

\* Moving one session to a step of its own operation.
LEMMA GoFits ==
  ASSUME Inv, NEW s \in Sessions, NEW step \in StepsOf(req[s].op), Go(s, step),
         req' = req,
         \A q \in Sessions \ {s} : tx'[q] = tx[q],
         step = "lines" => tx'[s].at \in Accounts
  PROVE  StepsFit' /\ pc' \in [Sessions -> Steps]
<1>1. req[s].op \in Ops
  BY RequestFacts DEF Inv, RequestType
<1>2. step \in Steps
  BY <1>1 DEF StepsOf, CreationSteps, Steps, Ops
<1> QED
  BY <1>2 DEF Inv, TypeOK, StepsFit, Go

LEMMA DoneFits ==
  ASSUME Inv, NEW s \in Sessions
  PROVE  {"commit", "done"} \subseteq StepsOf(req[s].op)
<1>1. req[s].op \in Ops
  BY RequestFacts DEF Inv, RequestType
<1> QED
  BY <1>1 DEF StepsOf, CreationSteps, Ops

LEMMA RollbackInv ==
  ASSUME Inv, NEW s \in Sessions, Rollback(s)
  PROVE  Inv'
<1>1. StepsFit' /\ pc' \in [Sessions -> Steps]
  BY GoFits, DoneFits, DropWorkType DEF Rollback
<1>2. answer' \in [Sessions -> Sessions \cup {NoSession, Refused}]
  BY DEF Rollback, Answers, Inv, TypeOK
<1> QED
  BY <1>1, <1>2, DropWorkType DEF Inv, TypeOK, Rollback

LEMMA CommitInv ==
  ASSUME Inv, NEW s \in Sessions, Commit(s)
  PROVE  Inv'
<1>1. StepsFit' /\ pc' \in [Sessions -> Steps]
  BY GoFits, DoneFits, DropWorkType DEF Commit
<1>2. je' \in [Sessions -> Entry] /\ bal' \in [Accounts -> Int]
  BY DEF Commit, Inv, TypeOK, TxType
<1>3. docs' \subseteq Sessions
  BY DEF Commit, Inv, TypeOK
<1> QED
  BY <1>1, <1>2, <1>3, DropWorkType DEF Inv, TypeOK, Commit

(***************************************************************************)
(* Reads, which write nothing, and locks                                   *)
(***************************************************************************)
LEMMA ReadInv ==
  ASSUME Inv, NEW s \in Sessions, NEW step \in StepsOf(req[s].op) \ {"lines"},
         Go(s, step), NothingWritten,
         \/ UNCHANGED answer
         \/ \E e \in Sessions : Answers(s, e)
  PROVE  Inv'
<1>1. StepsFit' /\ pc' \in [Sessions -> Steps]
  BY GoFits DEF NothingWritten
<1>2. answer' \in [Sessions -> Sessions \cup {NoSession, Refused}]
  BY DEF Answers, Inv, TypeOK
<1> QED
  BY <1>1, <1>2 DEF Inv, TypeOK, NothingWritten, locks

\* Steps that take the target's row, with or without writing it.
LEMMA RowInv ==
  ASSUME Inv, NEW s \in Sessions, NEW step \in StepsOf(req[s].op) \ {"lines"},
         Go(s, step), TakeRow(s), KeepCommitted, UNCHANGED <<acctLock, numLock>>,
         UNCHANGED tx \/ \E row \in Entry : Update(s, row),
         \/ UNCHANGED answer
         \/ \E e \in Sessions : Answers(s, e)
  PROVE  Inv'
<1>1. tx' \in [Sessions -> TxType] /\ \A q \in Sessions \ {s} : tx'[q] = tx[q]
  <2>1. CASE UNCHANGED tx
    BY <2>1 DEF Inv, TypeOK
  <2>2. ASSUME NEW row \in Entry, Update(s, row)
        PROVE  /\ tx' \in [Sessions -> TxType]
               /\ \A q \in Sessions \ {s} : tx'[q] = tx[q]
    <3>1. tx[s] \in TxType
      BY DEF Inv, TypeOK
    <3>2. [tx[s] EXCEPT !.upd = row] \in TxType
      BY <3>1 DEF TxType
    <3> QED
      BY <2>2, <3>2 DEF Update, Inv, TypeOK
  <2> QED
    BY <2>1, <2>2
<1>2. StepsFit' /\ pc' \in [Sessions -> Steps]
  BY <1>1, GoFits DEF KeepCommitted
<1>3. rowLock' \in [Sessions -> Sessions \cup {NoSession}]
  BY DEF TakeRow, Inv, TypeOK
<1>4. answer' \in [Sessions -> Sessions \cup {NoSession, Refused}]
  BY DEF Answers, Inv, TypeOK
<1> QED
  BY <1>1, <1>2, <1>3, <1>4 DEF Inv, TypeOK, KeepCommitted

\* Which operations reach a step, and which steps they may go to.
LEMMA WhoIsAt ==
  ASSUME Inv, NEW s \in Sessions
  PROVE  /\ pc[s] \in {"pread", "pkey", "flip"} => req[s].op = "post"
         /\ pc[s] \in {"rkey", "mark"} => Reversing(s)
         /\ pc[s] = "lock" => req[s].op = "post" \/ Reversing(s)
         /\ pc[s] \in {"probe", "precheck", "key", "source", "number", "insert",
                       "recheck"}
            => req[s].op # "post"
         /\ pc[s] = "probe" => "precheck" \in StepsOf(req[s].op)
<1>1. req[s].op \in Ops /\ pc[s] \in StepsOf(req[s].op)
  BY RequestFacts DEF Inv, StepsFit, RequestType
<1> QED
  BY <1>1 DEF StepsOf, CreationSteps, Ops, Reversing

LEMMA WhereTo ==
  ASSUME Inv, NEW s \in Sessions
  PROVE  /\ req[s].op # "post" => CreationSteps \subseteq StepsOf(req[s].op)
         /\ Reversing(s) => {"rkey", "lock", "mark"} \subseteq StepsOf(req[s].op)
         /\ req[s].op = "post" => {"pkey", "lock", "period", "flip", "lines"}
                                    \subseteq StepsOf(req[s].op)
<1>1. req[s].op \in Ops
  BY RequestFacts DEF Inv, RequestType
<1> QED
  BY <1>1 DEF StepsOf, CreationSteps, Ops, Reversing

LEMMA KeysAndSourcesNameSessions ==
  /\ \A k : WithKey(k) \subseteq Sessions
  /\ \A src, id, date : WithSource(src, id, date) \subseteq Sessions
  BY DEF WithKey, WithSource, SameSource

\* An existing entry is handed back to the handler or to the reversal.
LEMMA ReturnInv ==
  ASSUME Inv, NEW s \in Sessions, NEW e \in Sessions, req[s].op # "post",
         ReturnExisting(s, e), NothingWritten
  PROVE  Inv'
<1>1. CASE Reversing(s)
  BY <1>1, WhereTo, ReadInv DEF ReturnExisting
<1>2. CASE ~Reversing(s)
  BY <1>2, DoneFits, ReadInv DEF ReturnExisting
<1> QED
  BY <1>1, <1>2

LEMMA ProbeInv == ASSUME Inv, NEW s \in Sessions, Probe(s) PROVE Inv'
<1>1. CASE \E e \in WithKey(req[s].key) : Answers(s, e) /\ Go(s, "commit")
  BY <1>1, DoneFits, ReadInv, KeysAndSourcesNameSessions DEF Probe
<1>2. CASE Go(s, "precheck") /\ UNCHANGED answer
  BY <1>2, WhoIsAt, ReadInv DEF Probe, At
<1> QED
  BY <1>1, <1>2 DEF Probe

LEMMA PrecheckInv == ASSUME Inv, NEW s \in Sessions, Precheck(s) PROVE Inv'
<1>1. CASE Rollback(s)
  BY <1>1, RollbackInv
<1>2. CASE ~Rollback(s)
  <2> DEFINE doc == req[s].op = "create" /\ req[s].doc # NoDoc
             step == IF Reversing(s) THEN "rkey" ELSE "key"
  <2>1. /\ tx' = [tx EXCEPT ![s].doc = doc] /\ Go(s, step)
        /\ UNCHANGED <<je, bal, closed, docs, locks, req, answer>>
    BY <1>2 DEF Precheck
  <2>2. step \in StepsOf(req[s].op) \ {"lines"}
    BY WhoIsAt, WhereTo DEF Precheck, At, CreationSteps
  <2>3. [tx[s] EXCEPT !.doc = doc] \in TxType
    BY DEF Inv, TypeOK, TxType
  <2>4. tx' \in [Sessions -> TxType] /\ \A q \in Sessions \ {s} : tx'[q] = tx[q]
    BY <2>1, <2>3 DEF Inv, TypeOK
  <2> HIDE DEF doc, step
  <2>5. StepsFit' /\ pc' \in [Sessions -> Steps]
    BY <2>1, <2>2, <2>4, GoFits
  <2> QED
    BY <2>1, <2>4, <2>5 DEF Inv, TypeOK, locks
<1> QED
  BY <1>1, <1>2

LEMMA ReverseKeyInv == ASSUME Inv, NEW s \in Sessions, ReverseKey(s) PROVE Inv'
<1>1. CASE \E e \in WithKey(req[s].key) : Answers(s, e) /\ Go(s, "commit")
  BY <1>1, DoneFits, ReadInv, KeysAndSourcesNameSessions DEF ReverseKey
<1>2. CASE Go(s, "lock") /\ UNCHANGED answer
  BY <1>2, WhoIsAt, WhereTo, ReadInv DEF ReverseKey, At
<1> QED
  BY <1>1, <1>2 DEF ReverseKey

LEMMA ReadDraftInv == ASSUME Inv, NEW s \in Sessions, ReadDraft(s) PROVE Inv'
<1>1. req[s].op = "post" /\ Target(s) \in Sessions
  BY WhoIsAt, RequestFacts DEF ReadDraft, At, Inv
<1>2. CASE Answers(s, Target(s)) /\ Go(s, "commit") /\ NothingWritten
  BY <1>1, <1>2, DoneFits, ReadInv
<1>3. CASE /\ Go(s, IF req[s].key \in {NoKey, je[Target(s)].key} THEN "lock"
                                                               ELSE "pkey")
           /\ NothingWritten /\ UNCHANGED answer
  BY <1>1, <1>3, WhereTo, ReadInv
<1>4. CASE Rollback(s)
  BY <1>4, RollbackInv
<1> QED
  BY <1>2, <1>3, <1>4 DEF ReadDraft

LEMMA WriteKeyInv == ASSUME Inv, NEW s \in Sessions, WriteKey(s) PROVE Inv'
<1>1. req[s].op = "post" /\ je[Target(s)] \in Entry
  BY WhoIsAt, RowType DEF WriteKey, At, Inv
<1>2. CASE Go(s, "lock") /\ NothingWritten /\ UNCHANGED answer
  BY <1>1, <1>2, WhereTo, ReadInv
<1>3. CASE Rollback(s)
  BY <1>3, RollbackInv
<1>4. CASE /\ TakeRow(s) /\ Go(s, "lock") /\ KeepCommitted
           /\ Update(s, [je[Target(s)] EXCEPT !.key = req[s].key])
           /\ UNCHANGED <<acctLock, numLock, answer>>
  <2>1. [je[Target(s)] EXCEPT !.key = req[s].key] \in Entry
    BY <1>1, RequestFacts DEF Inv, Entry, RequestType
  <2> QED
    BY <1>1, <1>4, <2>1, WhereTo, RowInv
<1> QED
  BY <1>2, <1>3, <1>4 DEF WriteKey

LEMMA LockTargetInv == ASSUME Inv, NEW s \in Sessions, LockTarget(s) PROVE Inv'
<1>1. (req[s].op = "post" \/ Reversing(s)) /\ Target(s) \in Sessions
  BY WhoIsAt, RequestFacts DEF LockTarget, At, Inv, Reversing
<1> DEFINE moves(step) == /\ TakeRow(s) /\ Go(s, step)
                          /\ KeepCommitted /\ UNCHANGED <<acctLock, numLock, tx>>
<1>2. CASE Reversing(s) /\ moves("key") /\ UNCHANGED answer
  BY <1>2, WhereTo, RowInv DEF Reversing, CreationSteps
<1>3. CASE req[s].op = "post" /\ moves("period") /\ UNCHANGED answer
  BY <1>3, WhereTo, RowInv
<1>4. CASE moves("commit") /\ Answers(s, Target(s))
  BY <1>1, <1>4, DoneFits, RowInv
<1>5. CASE Rollback(s)
  BY <1>5, RollbackInv
<1> QED
  BY <1>2, <1>3, <1>4, <1>5 DEF LockTarget

LEMMA LookupKeyInv == ASSUME Inv, NEW s \in Sessions, LookupKey(s) PROVE Inv'
<1>1. req[s].op # "post"
  BY WhoIsAt DEF LookupKey, At
<1>2. CASE \E e \in WithKey(req[s].key) : ReturnExisting(s, e)
  BY <1>1, <1>2, ReturnInv, KeysAndSourcesNameSessions DEF LookupKey
<1>3. CASE Go(s, "source") /\ UNCHANGED answer
  BY <1>1, <1>3, WhereTo, ReadInv DEF LookupKey, CreationSteps
<1> QED
  BY <1>2, <1>3 DEF LookupKey

LEMMA LookupSourceInv == ASSUME Inv, NEW s \in Sessions, LookupSource(s) PROVE Inv'
<1>1. req[s].op # "post"
  BY WhoIsAt DEF LookupSource, At
<1>2. ASSUME NEW e \in Sessions, ReturnExisting(s, e) PROVE Inv'
  BY <1>1, <1>2, ReturnInv DEF LookupSource
<1>3. CASE Go(s, "period") /\ UNCHANGED answer
  BY <1>1, <1>3, WhereTo, ReadInv DEF LookupSource, CreationSteps
<1> QED
  BY <1>2, <1>3, KeysAndSourcesNameSessions DEF LookupSource

LEMMA CheckPeriodInv == ASSUME Inv, NEW s \in Sessions, CheckPeriod(s) PROVE Inv'
<1>1. CASE Rollback(s)
  BY <1>1, RollbackInv
<1>2. CASE /\ Go(s, IF req[s].op = "post" THEN "flip" ELSE "number")
           /\ NothingWritten /\ UNCHANGED answer
  BY <1>2, WhereTo, ReadInv DEF CreationSteps
<1> QED
  BY <1>1, <1>2 DEF CheckPeriod

LEMMA TakeNumberInv == ASSUME Inv, NEW s \in Sessions, TakeNumber(s) PROVE Inv'
<1>1. "insert" \in StepsOf(req[s].op)
  BY WhoIsAt, WhereTo DEF TakeNumber, At, CreationSteps
<1>2. StepsFit' /\ pc' \in [Sessions -> Steps]
  BY <1>1, GoFits DEF TakeNumber, KeepCommitted
<1> QED
  BY <1>2 DEF TakeNumber, KeepCommitted, Inv, TypeOK

\* The entry is written and its first line is chosen.
LEMMA StartLines ==
  ASSUME Inv, NEW s \in Sessions, NEW row \in Entry, NEW a \in Touched(row.lines),
         \/ tx' = [tx EXCEPT ![s].ins = row, ![s].todo = Touched(row.lines),
                             ![s].at = a]
         \/ tx' = [tx EXCEPT ![s].upd = row, ![s].todo = Touched(row.lines),
                             ![s].at = a]
  PROVE  /\ tx' \in [Sessions -> TxType]
         /\ \A q \in Sessions \ {s} : tx'[q] = tx[q]
         /\ tx'[s].at \in Accounts
<1>1. tx[s] \in TxType
  BY DEF Inv, TypeOK
<1>2. a \in Accounts /\ Touched(row.lines) \subseteq Accounts
  BY DEF Touched
<1>3. /\ [tx[s] EXCEPT !.ins = row, !.todo = Touched(row.lines), !.at = a] \in TxType
      /\ [tx[s] EXCEPT !.upd = row, !.todo = Touched(row.lines), !.at = a] \in TxType
  BY <1>1, <1>2 DEF TxType
<1>4. \/ tx' = [tx EXCEPT ![s] = [tx[s] EXCEPT !.ins = row,
                                    !.todo = Touched(row.lines), !.at = a]]
      \/ tx' = [tx EXCEPT ![s] = [tx[s] EXCEPT !.upd = row,
                                    !.todo = Touched(row.lines), !.at = a]]
  BY DEF Inv, TypeOK
<1>5. \/ tx'[s] = [tx[s] EXCEPT !.ins = row, !.todo = Touched(row.lines), !.at = a]
      \/ tx'[s] = [tx[s] EXCEPT !.upd = row, !.todo = Touched(row.lines), !.at = a]
  BY <1>4 DEF Inv, TypeOK
<1>6. tx'[s].at = a
  BY <1>1, <1>5 DEF TxType
<1> QED
  BY <1>2, <1>3, <1>4, <1>6 DEF Inv, TypeOK

LEMMA InsertInv == ASSUME Inv, NEW s \in Sessions, Insert(s) PROVE Inv'
<1> DEFINE row == NewRow(s)
<1>1. row \in Entry /\ req[s].op # "post"
  BY NewRowType, WhoIsAt DEF Inv, Insert, At
<1>2. CreationSteps \subseteq StepsOf(req[s].op)
  BY <1>1, WhereTo
<1>3. CASE DropWork(s) /\ Go(s, "recheck") /\ UNCHANGED answer
  <2>1. StepsFit' /\ pc' \in [Sessions -> Steps]
    BY <1>2, <1>3, GoFits, DropWorkType DEF Insert, KeepCommitted, CreationSteps
  <2> QED
    BY <1>3, <2>1, DropWorkType DEF Insert, KeepCommitted, Inv, TypeOK
<1>4. CASE /\ tx' = [tx EXCEPT ![s].ins = row]
           /\ Answers(s, s) /\ Go(s, "commit") /\ UNCHANGED locks
  <2>1. [tx[s] EXCEPT !.ins = row] \in TxType
    BY <1>1 DEF Inv, TypeOK, TxType
  <2>2. tx' \in [Sessions -> TxType] /\ \A q \in Sessions \ {s} : tx'[q] = tx[q]
    BY <1>4, <2>1 DEF Inv, TypeOK
  <2>3. StepsFit' /\ pc' \in [Sessions -> Steps]
    BY <1>4, <2>2, GoFits, DoneFits DEF Insert, KeepCommitted
  <2> QED
    BY <1>4, <2>2, <2>3 DEF Insert, KeepCommitted, Answers, locks, Inv, TypeOK
<1>5. CASE /\ \E a \in Touched(row.lines) :
                tx' = [tx EXCEPT ![s].ins = row, ![s].todo = Touched(row.lines),
                                 ![s].at = a]
           /\ Go(s, "lines") /\ UNCHANGED <<locks, answer>>
  <2>1. /\ tx' \in [Sessions -> TxType]
        /\ \A q \in Sessions \ {s} : tx'[q] = tx[q]
        /\ tx'[s].at \in Accounts
    BY <1>1, <1>5, StartLines
  <2>2. StepsFit' /\ pc' \in [Sessions -> Steps]
    BY <1>2, <1>5, <2>1, GoFits DEF Insert, KeepCommitted, CreationSteps
  <2> QED
    BY <1>5, <2>1, <2>2 DEF Insert, KeepCommitted, locks, Inv, TypeOK
<1> QED
  BY <1>3, <1>4, <1>5 DEF Insert

LEMMA RecheckInv == ASSUME Inv, NEW s \in Sessions, Recheck(s) PROVE Inv'
<1>1. req[s].op # "post"
  BY WhoIsAt DEF Recheck, At
<1>2. ASSUME NEW e \in Sessions, ReturnExisting(s, e), NothingWritten PROVE Inv'
  BY <1>1, <1>2, ReturnInv
<1>3. CASE Rollback(s)
  BY <1>3, RollbackInv
<1> QED
  BY <1>2, <1>3, KeysAndSourcesNameSessions DEF Recheck

LEMMA FlipInv == ASSUME Inv, NEW s \in Sessions, Flip(s) PROVE Inv'
<1> DEFINE row == [Row(s) EXCEPT !.status = "posted"]
<1>1. req[s].op = "post" /\ row \in Entry /\ row.lines = Row(s).lines
  BY WhoIsAt, RowType DEF Flip, At, Inv, Entry, Statuses
<1>2. CASE Rollback(s)
  BY <1>2, RollbackInv
<1>3. ASSUME NEW a \in Touched(Row(s).lines),
             tx' = [tx EXCEPT ![s].upd = row, ![s].todo = Touched(Row(s).lines),
                              ![s].at = a],
             Go(s, "lines"), KeepCommitted, UNCHANGED <<locks, answer>>
      PROVE  Inv'
  <2>1. /\ tx' \in [Sessions -> TxType]
        /\ \A q \in Sessions \ {s} : tx'[q] = tx[q]
        /\ tx'[s].at \in Accounts
    BY <1>1, <1>3, StartLines
  <2>2. StepsFit' /\ pc' \in [Sessions -> Steps]
    BY <1>1, <1>3, <2>1, WhereTo, GoFits DEF KeepCommitted
  <2> QED
    BY <1>3, <2>1, <2>2 DEF KeepCommitted, locks, Inv, TypeOK
<1> QED
  BY <1>2, <1>3 DEF Flip

LEMMA MarkReversedInv == ASSUME Inv, NEW s \in Sessions, MarkReversed(s) PROVE Inv'
<1>1. req[s].op # "create"
  BY WhoIsAt DEF MarkReversed, At, Reversing
<1>2. [Row(s) EXCEPT !.status = "reversed"] \in Entry
  BY <1>1, RowType DEF Inv, Entry, Statuses
<1> QED
  BY <1>2, DoneFits, RowInv DEF MarkReversed

LEMMA ApplyLineInv == ASSUME Inv, NEW s \in Sessions, ApplyLine(s) PROVE Inv'
<1> DEFINE a    == tx[s].at
           rest == tx[s].todo \ {a}
           done(next) == tx' = [tx EXCEPT
                                  ![s].newBal[a] = bal[a] + Posting(s).lines[a],
                                  ![s].todo = rest, ![s].at = next]
<1>1. tx[s] \in TxType /\ a \in Accounts /\ bal[a] \in Int
  BY DEF ApplyLine, At, Inv, TypeOK, StepsFit
<1>2. Posting(s).lines[a] \in Int
  BY <1>1 DEF Posting, TxType, Entry
<1>3. ASSUME NEW next \in Accounts \cup {NoAccount}, done(next)
      PROVE  /\ tx' \in [Sessions -> TxType]
             /\ \A q \in Sessions \ {s} : tx'[q] = tx[q]
             /\ tx'[s].at = next
  <2> DEFINE v == bal[a] + Posting(s).lines[a]
             t == [tx[s] EXCEPT !.newBal[a] = v, !.todo = rest, !.at = next]
  <2>1. v \in Int
    BY <1>1, <1>2
  <2> HIDE DEF v
  <2>2. t \in TxType /\ t.at = next
    BY <1>1, <2>1 DEF TxType
  <2>3. tx' = [tx EXCEPT ![s] = t]
    BY <1>3 DEF Inv, TypeOK, v
  <2> QED
    BY <2>2, <2>3 DEF Inv, TypeOK
<1>4. acctLock' \in [Accounts -> Sessions \cup {NoSession}]
  BY DEF ApplyLine, Inv, TypeOK
<1>5. CASE \E b \in rest : done(b) /\ UNCHANGED <<pc, answer>>
  <2>1. PICK b \in rest : done(b) /\ UNCHANGED <<pc, answer>>
    BY <1>5
  <2>2. b \in Accounts
    BY <1>1, <2>1 DEF TxType
  <2>3. /\ tx' \in [Sessions -> TxType]
        /\ \A q \in Sessions \ {s} : tx'[q] = tx[q]
        /\ tx'[s].at = b
    BY <1>3, <2>1, <2>2
  <2>4. UNCHANGED <<pc, answer, req>>
    BY <2>1 DEF ApplyLine, KeepCommitted
  <2>5. StepsFit'
    BY <2>2, <2>3, <2>4 DEF Inv, StepsFit
  <2> QED
    BY <1>4, <2>3, <2>4, <2>5 DEF ApplyLine, KeepCommitted, Inv, TypeOK
<1>6. CASE /\ done(NoAccount)
           /\ Answers(s, IF req[s].op = "post" THEN Target(s) ELSE s)
           /\ Go(s, IF Reversing(s) THEN "mark" ELSE "commit")
  <2>1. (IF Reversing(s) THEN "mark" ELSE "commit") \in StepsOf(req[s].op) \ {"lines"}
    BY WhereTo, DoneFits
  <2>2. StepsFit' /\ pc' \in [Sessions -> Steps]
    BY <1>3, <1>6, <2>1, GoFits DEF ApplyLine, KeepCommitted
  <2>3. answer' \in [Sessions -> Sessions \cup {NoSession, Refused}]
    BY <1>6, RequestFacts DEF Answers, Inv, TypeOK
  <2> QED
    BY <1>3, <1>4, <1>6, <2>2, <2>3 DEF ApplyLine, KeepCommitted, Inv, TypeOK
<1> QED
  BY <1>5, <1>6 DEF ApplyLine

(***************************************************************************)
(* Type correctness                                                        *)
(***************************************************************************)
LEMMA InitInv == Init => Inv
<1> SUFFICES ASSUME Init PROVE Inv
  OBVIOUS
<1>1. \A s \in Sessions : req[s] \in RequestType
  BY RequestsAssumption DEF Init
<1>2. \A s \in Sessions : FirstStep(req[s]) \in (StepsOf(req[s].op) \cap Steps) \ {"lines"}
  BY <1>1 DEF RequestType, Ops, FirstStep, StepsOf, CreationSteps, Steps
<1>3. StepsFit /\ pc \in [Sessions -> Steps]
  BY <1>2 DEF Init, StepsFit
<1> QED
  BY <1>3, NoRowType DEF Init, Inv, TypeOK

LEMMA NextInv == Inv /\ [Next]_vars => Inv'
<1> SUFFICES ASSUME Inv, [Next]_vars PROVE Inv'
  OBVIOUS
<1>1. ASSUME NEW s \in Sessions, Step(s) PROVE Inv'
  BY <1>1, ProbeInv, PrecheckInv, ReverseKeyInv, ReadDraftInv, WriteKeyInv,
     LockTargetInv, LookupKeyInv, LookupSourceInv, CheckPeriodInv,
     TakeNumberInv, InsertInv, RecheckInv, ApplyLineInv, FlipInv,
     MarkReversedInv, CommitInv DEF Step
<1>2. ASSUME NEW s \in Sessions, Abort(s) \/ BreakDeadlock(s) PROVE Inv'
  BY <1>2, RollbackInv DEF Abort, BreakDeadlock
<1>3. ASSUME NEW d \in Dates, ClosePeriod(d) \/ ReopenPeriod(d) PROVE Inv'
  BY <1>3 DEF ClosePeriod, ReopenPeriod, Inv, TypeOK, StepsFit, locks
<1>4. CASE UNCHANGED vars
  BY <1>4 DEF vars, locks, Inv, TypeOK, StepsFit
<1> QED
  BY <1>1, <1>2, <1>3, <1>4 DEF Next

\* Every variable keeps its type, for any sets of sessions, accounts, dates
\* and requests that satisfy the assumptions.
THEOREM TypeCorrect == Spec => []TypeOK
<1>1. Inv => TypeOK
  BY DEF Inv
<1> QED
  BY InitInv, NextInv, <1>1, PTL DEF Spec

(***************************************************************************)
(* The history of an entry                                                 *)
(*                                                                         *)
(* EntryHistory is about one step, Commit, but whether the rows it writes  *)
(* follow the committed ones is decided earlier, when the target was read. *)
(* The invariant says what holds in between: a new version of a row is     *)
(* written only under the row's lock and follows the committed version,    *)
(* an entry is inserted only where none exists, and what a guard saw of    *)
(* the target is still true when the step that relies on it runs, even     *)
(* after an IntegrityError dropped the lock.                               *)
(***************************************************************************)
AfterLock == {"key", "source", "period", "number", "insert", "recheck",
              "lines", "mark"}

Held(s) ==
  /\ pc[s] # "done" => ~Exists(je[s])
  /\ Exists(tx[s].upd) => /\ req[s].op # "create"
                          /\ rowLock[Target(s)] = s
                          /\ Exists(je[Target(s)])
                          /\ Follows(je[Target(s)], tx[s].upd)
  /\ pc[s] = "pkey" => Exists(je[Target(s)])
  /\ req[s].op = "post" /\ pc[s] \in {"period", "flip"}
     => rowLock[Target(s)] = s /\ Row(s).status = "draft"
  /\ Reversing(s) /\ pc[s] \in AfterLock
     => je[Target(s)].status \in {"posted", "reversed"}
  /\ Reversing(s) /\ pc[s] \notin {"commit", "done"} => ~Exists(tx[s].upd)

History == \A s \in Sessions : Held(s)

\* What a step of s that commits nothing must not disturb.
Frame(s) ==
  /\ UNCHANGED <<je, req>>
  /\ \A q \in Sessions \ {s} : pc'[q] = pc[q] /\ tx'[q] = tx[q]
  /\ \A e \in Sessions : \A q \in Sessions \ {s} : rowLock[e] = q => rowLock'[e] = q

LEMMA FrameHistory ==
  ASSUME Inv, History, NEW s \in Sessions, Frame(s), Held(s)'
  PROVE  History'
<1> SUFFICES ASSUME NEW q \in Sessions, q # s PROVE Held(q)'
  BY DEF History
<1>1. /\ Held(q) /\ je' = je /\ req' = req /\ pc'[q] = pc[q] /\ tx'[q] = tx[q]
      /\ Target(q) \in Sessions /\ rowLock[Target(q)] = q => rowLock'[Target(q)] = q
  BY DEF History, Frame
<1>2. req[q].op # "create" => Target(q) \in Sessions
  BY RequestFacts DEF Inv
<1>3. Target(q)' = Target(q) /\ Row(q)' = Row(q) /\ Reversing(q)' = Reversing(q)
  BY <1>1 DEF Target, Row, Reversing
<1> QED
  BY <1>1, <1>2, <1>3 DEF Held

LEMMA DropWorkFrame ==
  ASSUME Inv, NEW s \in Sessions, DropWork(s)
  PROVE  /\ \A q \in Sessions \ {s} : tx'[q] = tx[q]
         /\ \A e \in Sessions : \A q \in Sessions \ {s} :
              rowLock[e] = q => rowLock'[e] = q
         /\ ~Exists(tx'[s].upd) /\ ~Exists(tx'[s].ins)
<1>1. tx'[s] = EmptyTx
  BY DEF DropWork, Inv, TypeOK
<1>2. ~Exists(EmptyTx.upd) /\ ~Exists(EmptyTx.ins)
  BY DEF EmptyTx, NoRow, Exists
<1> QED
  BY <1>1, <1>2, DropWorkType DEF DropWork, ReleaseLocks, Inv, TypeOK

LEMMA GoFrame ==
  ASSUME Inv, NEW s \in Sessions, NEW step, Go(s, step)
  PROVE  pc'[s] = step /\ \A q \in Sessions \ {s} : pc'[q] = pc[q]
  BY DEF Go, Inv, TypeOK

LEMMA RollbackHistory ==
  ASSUME Inv, History, NEW s \in Sessions, Rollback(s)
  PROVE  History'
<1>1. /\ pc'[s] = "done" /\ \A q \in Sessions \ {s} : pc'[q] = pc[q]
      /\ UNCHANGED <<je, req>>
  BY GoFrame DEF Rollback
<1>2. Frame(s)
  BY <1>1, DropWorkFrame DEF Rollback, Frame
<1>3. Held(s)'
  BY <1>1, DropWorkFrame DEF Rollback, Held, AfterLock
<1> QED
  BY <1>2, <1>3, FrameHistory

\* A committed row only ever changes into one that follows it.
LEMMA FollowsReflexive == \A row : Follows(row, row)
  BY DEF Follows

LEMMA CommitFollows ==
  ASSUME Inv, History, NEW s \in Sessions, Commit(s), NEW e \in Sessions, Exists(je[e])
  PROVE  Follows(je[e], je'[e])
<1>1. je'[e] = IF e = s /\ Exists(tx[s].ins) THEN tx[s].ins
               ELSE IF e = Target(s) /\ Exists(tx[s].upd) THEN tx[s].upd
               ELSE je[e]
  BY DEF Commit
<1>2. e # s
  BY DEF Commit, At, History, Held
<1>3. e = Target(s) /\ Exists(tx[s].upd) => Follows(je[e], tx[s].upd)
  BY DEF History, Held
<1> QED
  BY <1>1, <1>2, <1>3, FollowsReflexive

LEMMA FollowsExists ==
  \A old, new : Follows(old, new) /\ Exists(old) => Exists(new)
  BY DEF Follows, Exists

LEMMA FollowsTransitive ==
  \A a, b, c : Follows(a, b) /\ Follows(b, c)
             /\ (a.status = b.status \/ b.status = c.status) => Follows(a, c)
  BY DEF Follows

LEMMA CommitHistory ==
  ASSUME Inv, History, NEW s \in Sessions, Commit(s)
  PROVE  History'
<1>1. /\ pc'[s] = "done" /\ \A q \in Sessions \ {s} : pc'[q] = pc[q]
      /\ UNCHANGED req /\ pc[s] = "commit"
  BY GoFrame DEF Commit, At
<1>2. Held(s)'
  BY <1>1, DropWorkFrame DEF Commit, Held, AfterLock
<1>3. ASSUME NEW q \in Sessions, q # s PROVE Held(q)'
  <2>1. /\ Held(q) /\ pc'[q] = pc[q] /\ tx'[q] = tx[q] /\ req' = req
        /\ \A e \in Sessions : rowLock[e] = q => rowLock'[e] = q
    BY <1>1, <1>3, DropWorkFrame DEF Commit, History
  <2>2. req[q].op # "create" => Target(q) \in Sessions
    BY RequestFacts DEF Inv
  <2>3. Target(q)' = Target(q) /\ Reversing(q)' = Reversing(q)
    BY <2>1 DEF Target, Reversing
  \* s inserts its own entry and no other, and updates existing ones only.
  <2>4. pc[q] # "done" => je'[q] = je[q]
    <3>1. q = Target(s) /\ Exists(tx[s].upd) => Exists(je[q])
      BY DEF History, Held
    <3> QED
      BY <1>3, <2>1, <3>1 DEF Commit, Held
  \* A row q has locked is left alone.
  <2>5. ASSUME NEW e \in Sessions, rowLock[e] = q, Exists(je[e]) PROVE je'[e] = je[e]
    <3>1. e # s
      BY <1>1, <2>5 DEF History, Held
    <3>2. ~(e = Target(s) /\ Exists(tx[s].upd))
      BY <1>3, <2>5 DEF History, Held
    <3> QED
      BY <3>1, <3>2 DEF Commit
  <2>6. \A e \in Sessions : Exists(je[e]) => Follows(je[e], je'[e])
    BY CommitFollows
  <2>7. pc'[q] # "done" => ~Exists(je'[q])
    BY <2>1, <2>4 DEF Held
  <2>8. Exists(tx[q].upd) => je'[Target(q)] = je[Target(q)]
    BY <2>2, <2>5 DEF History, Held
  <2>9. pc[q] = "pkey" => Exists(je'[Target(q)])
    <3> HAVE pc[q] = "pkey"
    <3>1. Target(q) \in Sessions /\ Exists(je[Target(q)])
      BY <2>1, <2>2, WhoIsAt DEF Held
    <3> QED
      BY <2>6, <3>1, FollowsExists
  <2>10. req[q].op = "post" /\ pc[q] \in {"period", "flip"} => Row(q)' = Row(q)
    <3> HAVE req[q].op = "post" /\ pc[q] \in {"period", "flip"}
    <3>1. rowLock[Target(q)] = q /\ Row(q).status = "draft" /\ Target(q) \in Sessions
      BY <2>1, <2>2 DEF Held
    <3>2. CASE Exists(tx[q].upd)
      BY <2>1, <3>2 DEF Row
    <3>3. CASE ~Exists(tx[q].upd)
      <4>1. Row(q) = je[Target(q)] /\ Exists(je[Target(q)])
        BY <3>1, <3>3 DEF Row, Exists
      <4> QED
        BY <2>1, <2>3, <2>5, <3>1, <3>3, <4>1 DEF Row
    <3> QED
      BY <3>2, <3>3
  <2>11. Reversing(q) /\ pc[q] \in AfterLock
         => je'[Target(q)].status \in {"posted", "reversed"}
    <3> HAVE Reversing(q) /\ pc[q] \in AfterLock
    <3>1. /\ je[Target(q)].status \in {"posted", "reversed"}
          /\ Target(q) \in Sessions /\ Exists(je[Target(q)])
      BY <2>1, <2>2 DEF Held, Reversing, Exists
    <3> QED
      BY <2>6, <3>1 DEF Follows
  <2> QED
    BY <2>1, <2>2, <2>3, <2>7, <2>8, <2>9, <2>10, <2>11 DEF Held
<1> QED
  BY <1>2, <1>3 DEF History

\* A step of s that writes no row and takes no lock, to a step where
\* nothing new is claimed of the target.
LEMMA QuietHistory ==
  ASSUME Inv, History, NEW s \in Sessions, NEW step, Go(s, step),
         UNCHANGED <<je, req>>, step # "done", pc[s] # "done",
         \A q \in Sessions \ {s} : tx'[q] = tx[q],
         tx'[s].upd = tx[s].upd,
         \A e \in Sessions : \A q \in Sessions : rowLock[e] = q => rowLock'[e] = q,
         step = "pkey" => Exists(je[Target(s)]),
         req[s].op = "post" /\ step \in {"period", "flip"}
           => pc[s] \in {"period", "flip"},
         Reversing(s) /\ step \in AfterLock => pc[s] \in AfterLock,
         Reversing(s) => pc[s] # "commit"
  PROVE  History'
<1>1. pc'[s] = step /\ \A q \in Sessions \ {s} : pc'[q] = pc[q]
  BY GoFrame
<1>2. Frame(s)
  BY <1>1 DEF Frame
<1>3. /\ Target(s)' = Target(s) /\ Row(s)' = Row(s) /\ Reversing(s)' = Reversing(s)
  BY DEF Target, Row, Reversing
<1>4. Held(s) /\ (req[s].op # "create" => Target(s) \in Sessions)
  BY RequestFacts DEF History, Inv
<1>5. Reversing(s) => req[s].op \notin {"create", "post"}
  BY DEF Reversing
<1>6. Held(s)'
  BY <1>1, <1>3, <1>4, <1>5 DEF Held
<1> QED
  BY <1>2, <1>6, FrameHistory

LEMMA NothingWrittenQuiet ==
  ASSUME NEW s \in Sessions, NothingWritten
  PROVE  /\ UNCHANGED <<je, req>> /\ tx' = tx /\ rowLock' = rowLock
  BY DEF NothingWritten, locks

LEMMA ReturnHistory ==
  ASSUME Inv, History, NEW s \in Sessions, NEW e \in Sessions,
         ReturnExisting(s, e), NothingWritten, pc[s] \in AfterLock
  PROVE  History'
  BY NothingWrittenQuiet, QuietHistory DEF ReturnExisting, AfterLock, Reversing

LEMMA ProbeHistory ==
  ASSUME Inv, History, NEW s \in Sessions, Probe(s) PROVE History'
<1>1. pc[s] = "probe" /\ req[s].op # "post" /\ NothingWritten
  BY WhoIsAt DEF Probe, At
<1>2. CASE Go(s, "commit")
  BY <1>1, <1>2, NothingWrittenQuiet, QuietHistory DEF AfterLock
<1>3. CASE Go(s, "precheck")
  BY <1>1, <1>3, NothingWrittenQuiet, QuietHistory DEF AfterLock
<1> QED
  BY <1>2, <1>3 DEF Probe

LEMMA PrecheckHistory ==
  ASSUME Inv, History, NEW s \in Sessions, Precheck(s) PROVE History'
<1>1. CASE Rollback(s)
  BY <1>1, RollbackHistory
<1>2. CASE ~Rollback(s)
  <2>1. /\ tx' = [tx EXCEPT ![s].doc = req[s].op = "create" /\ req[s].doc # NoDoc]
        /\ UNCHANGED <<je, req, rowLock>>
        /\ Go(s, IF Reversing(s) THEN "rkey" ELSE "key")
    BY <1>2 DEF Precheck, locks
  <2>2. tx'[s].upd = tx[s].upd /\ \A q \in Sessions \ {s} : tx'[q] = tx[q]
    BY <2>1 DEF Inv, TypeOK, TxType
  <2>3. pc[s] = "precheck" /\ req[s].op # "post"
    BY WhoIsAt DEF Precheck, At
  <2>4. CASE Reversing(s)
    BY <2>1, <2>2, <2>3, <2>4, QuietHistory DEF AfterLock
  <2>5. CASE ~Reversing(s)
    BY <2>1, <2>2, <2>3, <2>5, QuietHistory DEF AfterLock
  <2> QED
    BY <2>4, <2>5
<1> QED
  BY <1>1, <1>2

LEMMA ReverseKeyHistory ==
  ASSUME Inv, History, NEW s \in Sessions, ReverseKey(s) PROVE History'
<1>1. pc[s] = "rkey" /\ NothingWritten
  BY DEF ReverseKey, At
<1>2. CASE Go(s, "commit")
  BY <1>1, <1>2, NothingWrittenQuiet, QuietHistory DEF AfterLock
<1>3. CASE Go(s, "lock")
  BY <1>1, <1>3, NothingWrittenQuiet, QuietHistory DEF AfterLock
<1> QED
  BY <1>2, <1>3 DEF ReverseKey

LEMMA ReadDraftHistory ==
  ASSUME Inv, History, NEW s \in Sessions, ReadDraft(s) PROVE History'
<1>1. pc[s] = "pread" /\ req[s].op = "post" /\ ~Reversing(s)
  BY WhoIsAt DEF ReadDraft, At, Reversing
<1>2. CASE Go(s, "commit") /\ NothingWritten
  BY <1>1, <1>2, NothingWrittenQuiet, QuietHistory DEF AfterLock
<1>3. CASE /\ je[Target(s)].status = "draft" /\ NothingWritten
           /\ Go(s, IF req[s].key \in {NoKey, je[Target(s)].key} THEN "lock"
                                                               ELSE "pkey")
  <2>1. Exists(je[Target(s)])
    BY <1>3 DEF Exists
  <2>2. CASE Go(s, "lock")
    BY <1>1, <1>3, <2>2, NothingWrittenQuiet, QuietHistory DEF AfterLock
  <2>3. CASE Go(s, "pkey")
    BY <1>1, <1>3, <2>1, <2>3, NothingWrittenQuiet, QuietHistory DEF AfterLock
  <2> QED
    BY <1>3, <2>2, <2>3
<1>4. CASE Rollback(s)
  BY <1>4, RollbackHistory
<1> QED
  BY <1>2, <1>3, <1>4 DEF ReadDraft

LEMMA LookupHistory ==
  ASSUME Inv, History, NEW s \in Sessions, LookupKey(s) \/ LookupSource(s)
  PROVE  History'
<1>1. pc[s] \in {"key", "source"} /\ req[s].op # "post" /\ NothingWritten
  BY WhoIsAt DEF LookupKey, LookupSource, At
<1>2. ASSUME NEW e \in Sessions, ReturnExisting(s, e) PROVE History'
  BY <1>1, <1>2, ReturnHistory DEF AfterLock
<1>3. CASE Go(s, "source")
  BY <1>1, <1>3, NothingWrittenQuiet, QuietHistory DEF AfterLock
<1>4. CASE Go(s, "period")
  BY <1>1, <1>4, NothingWrittenQuiet, QuietHistory DEF AfterLock
<1> QED
  BY <1>2, <1>3, <1>4, KeysAndSourcesNameSessions DEF LookupKey, LookupSource

LEMMA RecheckHistory ==
  ASSUME Inv, History, NEW s \in Sessions, Recheck(s) PROVE History'
<1>1. pc[s] = "recheck"
  BY DEF Recheck, At
<1>2. ASSUME NEW e \in Sessions, ReturnExisting(s, e), NothingWritten PROVE History'
  BY <1>1, <1>2, ReturnHistory DEF AfterLock
<1>3. CASE Rollback(s)
  BY <1>3, RollbackHistory
<1> QED
  BY <1>2, <1>3, KeysAndSourcesNameSessions DEF Recheck

LEMMA CheckPeriodHistory ==
  ASSUME Inv, History, NEW s \in Sessions, CheckPeriod(s) PROVE History'
<1>1. pc[s] = "period"
  BY DEF CheckPeriod, At
<1>2. CASE Rollback(s)
  BY <1>2, RollbackHistory
<1>3. CASE Go(s, "flip") /\ NothingWritten
  BY <1>1, <1>3, NothingWrittenQuiet, QuietHistory DEF AfterLock
<1>4. CASE Go(s, "number") /\ NothingWritten
  BY <1>1, <1>4, NothingWrittenQuiet, QuietHistory DEF AfterLock
<1> QED
  BY <1>2, <1>3, <1>4 DEF CheckPeriod

LEMMA TakeNumberHistory ==
  ASSUME Inv, History, NEW s \in Sessions, TakeNumber(s) PROVE History'
  BY QuietHistory DEF TakeNumber, At, KeepCommitted, AfterLock

LEMMA InsertHistory ==
  ASSUME Inv, History, NEW s \in Sessions, Insert(s) PROVE History'
<1>1. pc[s] = "insert" /\ req[s].op # "post" /\ UNCHANGED <<je, req>>
  BY WhoIsAt DEF Insert, At, KeepCommitted
<1>2. CASE DropWork(s) /\ Go(s, "recheck")
  <2>1. pc'[s] = "recheck" /\ \A q \in Sessions \ {s} : pc'[q] = pc[q]
    BY <1>2, GoFrame
  <2>2. Frame(s)
    BY <1>1, <1>2, <2>1, DropWorkFrame DEF Frame
  <2>3. Held(s)'
    BY <1>1, <1>2, <2>1, DropWorkFrame DEF Held, AfterLock, History, Target, Reversing
  <2> QED
    BY <2>2, <2>3, FrameHistory
<1>3. CASE /\ tx' = [tx EXCEPT ![s].ins = NewRow(s)]
           /\ Go(s, "commit") /\ UNCHANGED locks
  <2>1. tx'[s].upd = tx[s].upd /\ \A q \in Sessions \ {s} : tx'[q] = tx[q]
    BY <1>3 DEF Inv, TypeOK, TxType
  <2> QED
    BY <1>1, <1>3, <2>1, QuietHistory DEF AfterLock, locks
<1>4. ASSUME NEW a \in Touched(NewRow(s).lines), Go(s, "lines"), UNCHANGED locks,
             tx' = [tx EXCEPT ![s].ins = NewRow(s),
                              ![s].todo = Touched(NewRow(s).lines), ![s].at = a]
      PROVE  History'
  <2>1. tx'[s].upd = tx[s].upd /\ \A q \in Sessions \ {s} : tx'[q] = tx[q]
    BY <1>4 DEF Inv, TypeOK, TxType
  <2> QED
    BY <1>1, <1>4, <2>1, QuietHistory DEF AfterLock, locks
<1> QED
  BY <1>2, <1>3, <1>4 DEF Insert

LEMMA ApplyLineHistory ==
  ASSUME Inv, History, NEW s \in Sessions, ApplyLine(s) PROVE History'
<1> DEFINE a == tx[s].at
<1>1. /\ pc[s] = "lines" /\ UNCHANGED <<je, req>> /\ UNCHANGED rowLock
      /\ \E rest, next : tx' = [tx EXCEPT
                                 ![s].newBal[a] = bal[a] + Posting(s).lines[a],
                                 ![s].todo = rest, ![s].at = next]
  BY DEF ApplyLine, At, KeepCommitted
<1>2. tx'[s].upd = tx[s].upd /\ \A q \in Sessions \ {s} : tx'[q] = tx[q]
  BY <1>1 DEF Inv, TypeOK, TxType
<1>3. CASE UNCHANGED pc
  <2>1. Frame(s)
    BY <1>1, <1>2, <1>3 DEF Frame
  <2>2. Held(s)'
    BY <1>1, <1>2, <1>3 DEF History, Held, Target, Row, Reversing
  <2> QED
    BY <2>1, <2>2, FrameHistory
<1>4. CASE Go(s, IF Reversing(s) THEN "mark" ELSE "commit")
  <2>1. CASE Reversing(s)
    BY <1>1, <1>2, <1>4, <2>1, QuietHistory DEF AfterLock, Reversing
  <2>2. CASE ~Reversing(s)
    BY <1>1, <1>2, <1>4, <2>2, QuietHistory DEF AfterLock
  <2> QED
    BY <2>1, <2>2
<1> QED
  BY <1>3, <1>4 DEF ApplyLine

\* Steps that take the row of the target, which nobody else holds.
LEMMA TakeRowFrame ==
  ASSUME Inv, NEW s \in Sessions, Target(s) \in Sessions, RowFree(s), TakeRow(s),
         NEW step, Go(s, step), KeepCommitted,
         \A q \in Sessions \ {s} : tx'[q] = tx[q]
  PROVE  Frame(s) /\ rowLock'[Target(s)] = s /\ pc'[s] = step
<1>1. NoSession # s
  BY NamesAssumption
<1>2. \A e \in Sessions : \A q \in Sessions \ {s} : rowLock[e] = q => rowLock'[e] = q
  BY NamesAssumption DEF RowFree, TakeRow, Inv, TypeOK
<1>3. rowLock'[Target(s)] = s
  BY DEF TakeRow, Inv, TypeOK
<1> QED
  BY <1>2, <1>3, GoFrame DEF Frame, KeepCommitted

LEMMA WriteKeyHistory ==
  ASSUME Inv, History, NEW s \in Sessions, WriteKey(s) PROVE History'
<1> DEFINE row == je[Target(s)]
           new == [row EXCEPT !.key = req[s].key]
<1>1. /\ pc[s] = "pkey" /\ req[s].op = "post" /\ ~Reversing(s)
      /\ Target(s) \in Sessions /\ row \in Entry /\ Exists(row)
  BY WhoIsAt, RequestFacts, RowType DEF WriteKey, At, Reversing, Inv, History, Held
<1>2. CASE Go(s, "lock") /\ NothingWritten
  BY <1>1, <1>2, NothingWrittenQuiet, QuietHistory DEF AfterLock
<1>3. CASE Rollback(s)
  BY <1>3, RollbackHistory
<1>4. CASE /\ row.key = NoKey /\ RowFree(s) /\ TakeRow(s) /\ Update(s, new)
           /\ Go(s, "lock") /\ KeepCommitted
  <2>1. tx'[s].upd = new /\ \A q \in Sessions \ {s} : tx'[q] = tx[q]
    BY <1>4 DEF Update, Inv, TypeOK, TxType
  <2>2. Frame(s) /\ rowLock'[Target(s)] = s /\ pc'[s] = "lock" /\ UNCHANGED <<je, req>>
    BY <1>1, <1>4, <2>1, TakeRowFrame DEF KeepCommitted
  <2>3. Follows(row, new)
    BY <1>1, <1>4 DEF Follows, Entry
  <2>4. Held(s)'
    BY <1>1, <2>1, <2>2, <2>3 DEF Held, Target, Reversing, History
  <2> QED
    BY <2>2, <2>4, FrameHistory
<1> QED
  BY <1>2, <1>3, <1>4 DEF WriteKey

LEMMA LockTargetHistory ==
  ASSUME Inv, History, NEW s \in Sessions, LockTarget(s) PROVE History'
<1> DEFINE moves(step) == /\ TakeRow(s) /\ Go(s, step)
                          /\ KeepCommitted /\ UNCHANGED <<acctLock, numLock, tx>>
<1>1. /\ pc[s] = "lock" /\ RowFree(s) /\ Target(s) \in Sessions
      /\ req[s].op # "create"
  BY WhoIsAt, RequestFacts DEF LockTarget, At, Inv, Reversing
<1>2. CASE Rollback(s)
  BY <1>2, RollbackHistory
<1>3. ASSUME NEW step, moves(step)
      PROVE  /\ Frame(s) /\ rowLock'[Target(s)] = s /\ pc'[s] = step
             /\ UNCHANGED <<je, req, tx>>
             /\ Target(s)' = Target(s) /\ Row(s)' = Row(s)
             /\ Reversing(s)' = Reversing(s)
  <2>1. UNCHANGED <<je, req, tx>>
    BY <1>3 DEF KeepCommitted
  <2>2. Frame(s) /\ rowLock'[Target(s)] = s /\ pc'[s] = step
    BY <1>1, <1>3, TakeRowFrame
  <2> QED
    BY <2>1, <2>2 DEF Target, Row, Reversing
<1>4. CASE Reversing(s) /\ Reversible(s) /\ moves("key")
  <2>1. ~Exists(tx[s].upd)
    BY <1>1, <1>4 DEF History, Held
  <2>2. je[Target(s)].status = "posted"
    BY <1>4, <2>1 DEF Reversible, Row
  <2>3. Held(s)'
    BY <1>1, <1>3, <1>4, <2>1, <2>2 DEF Held, History, Reversing
  <2> QED
    BY <1>3, <1>4, <2>3, FrameHistory
<1>5. CASE req[s].op = "post" /\ Row(s).status = "draft" /\ moves("period")
  <2>1. Held(s)'
    BY <1>1, <1>3, <1>5 DEF Held, History, Reversing
  <2> QED
    BY <1>3, <1>5, <2>1, FrameHistory
<1>6. CASE req[s].op = "post" /\ moves("commit")
  <2>1. Held(s)'
    BY <1>1, <1>3, <1>6 DEF Held, History, Reversing
  <2> QED
    BY <1>3, <1>6, <2>1, FrameHistory
<1> QED
  BY <1>2, <1>4, <1>5, <1>6 DEF LockTarget

LEMMA FlipHistory ==
  ASSUME Inv, History, NEW s \in Sessions, Flip(s) PROVE History'
<1> DEFINE new == [Row(s) EXCEPT !.status = "posted"]
<1>1. /\ pc[s] = "flip" /\ req[s].op = "post" /\ ~Reversing(s)
      /\ Target(s) \in Sessions /\ Row(s) \in Entry
      /\ rowLock[Target(s)] = s /\ Row(s).status = "draft"
  BY WhoIsAt, RequestFacts, RowType DEF Flip, At, Reversing, Inv, History, Held
<1>2. CASE Rollback(s)
  BY <1>2, RollbackHistory
<1>3. ASSUME NEW a \in Touched(Row(s).lines),
             tx' = [tx EXCEPT ![s].upd = new, ![s].todo = Touched(Row(s).lines),
                              ![s].at = a],
             Go(s, "lines"), KeepCommitted, UNCHANGED locks
      PROVE  History'
  <2>1. tx'[s].upd = new /\ \A q \in Sessions \ {s} : tx'[q] = tx[q]
    BY <1>3 DEF Inv, TypeOK, TxType
  <2>2. pc'[s] = "lines" /\ \A q \in Sessions \ {s} : pc'[q] = pc[q]
    BY <1>3, GoFrame
  <2>3. Frame(s) /\ rowLock' = rowLock /\ UNCHANGED <<je, req>>
    BY <1>3, <2>1, <2>2 DEF Frame, KeepCommitted, locks
  <2>4. Follows(je[Target(s)], Row(s)) /\ Exists(je[Target(s)])
        /\ je[Target(s)].status = "draft"
    BY <1>1, FollowsReflexive DEF Row, History, Held, Exists, Follows
  <2>5. Follows(je[Target(s)], new)
    <3>1. Follows(Row(s), new)
      BY <1>1 DEF Follows, Entry
    <3> QED
      BY <1>1, <2>4, <3>1, FollowsTransitive
  <2>6. Held(s)'
    BY <1>1, <2>1, <2>2, <2>3, <2>4, <2>5 DEF Held, Target, Reversing, History
  <2> QED
    BY <2>3, <2>6, FrameHistory
<1> QED
  BY <1>2, <1>3 DEF Flip

LEMMA MarkReversedHistory ==
  ASSUME Inv, History, NEW s \in Sessions, MarkReversed(s) PROVE History'
<1> DEFINE new == [Row(s) EXCEPT !.status = "reversed"]
<1>1. /\ pc[s] = "mark" /\ Reversing(s) /\ req[s].op \notin {"create", "post"}
      /\ Target(s) \in Sessions
  BY WhoIsAt, RequestFacts DEF MarkReversed, At, Reversing, Inv
<1>2. Row(s) = je[Target(s)] /\ Row(s).status \in {"posted", "reversed"}
  BY <1>1 DEF History, Held, Row, AfterLock
<1>3. Exists(je[Target(s)]) /\ Follows(je[Target(s)], new)
  BY <1>1, <1>2, RowType DEF Exists, Follows, Entry, Inv
<1>4. tx'[s].upd = new /\ \A q \in Sessions \ {s} : tx'[q] = tx[q]
  BY DEF MarkReversed, Update, Inv, TypeOK, TxType
<1>5. Frame(s) /\ rowLock'[Target(s)] = s /\ pc'[s] = "commit" /\ UNCHANGED <<je, req>>
  BY <1>1, <1>4, TakeRowFrame DEF MarkReversed, KeepCommitted
<1>6. Held(s)'
  BY <1>1, <1>3, <1>4, <1>5 DEF Held, Target, Reversing, History, AfterLock
<1> QED
  BY <1>5, <1>6, FrameHistory

LEMMA InitHistory == Init => History
<1> SUFFICES ASSUME Init, NEW s \in Sessions PROVE Held(s)
  BY DEF History
<1>1. req[s] \in RequestType
  BY RequestsAssumption DEF Init
<1>2. pc[s] \in {"probe", "precheck", "pread"}
  BY <1>1 DEF Init, FirstStep, RequestType, Ops
<1>3. ~Exists(je[s]) /\ ~Exists(tx[s].upd)
  BY DEF Init, EmptyTx, NoRow, Exists
<1> QED
  BY <1>2, <1>3 DEF Held, AfterLock

LEMMA NextHistory == Inv /\ History /\ [Next]_vars => History'
<1> SUFFICES ASSUME Inv, History, [Next]_vars PROVE History'
  OBVIOUS
<1>1. ASSUME NEW s \in Sessions, Step(s) PROVE History'
  BY <1>1, ProbeHistory, PrecheckHistory, ReverseKeyHistory, ReadDraftHistory,
     WriteKeyHistory, LockTargetHistory, LookupHistory, CheckPeriodHistory,
     TakeNumberHistory, InsertHistory, RecheckHistory, ApplyLineHistory,
     FlipHistory, MarkReversedHistory, CommitHistory DEF Step
<1>2. ASSUME NEW s \in Sessions, Abort(s) \/ BreakDeadlock(s) PROVE History'
  BY <1>2, RollbackHistory DEF Abort, BreakDeadlock
<1>3. CASE UNCHANGED <<je, rowLock, req, pc, tx>>
  BY <1>3 DEF History, Held, Row, Target, Reversing
<1>4. ASSUME NEW d \in Dates, ClosePeriod(d) \/ ReopenPeriod(d) PROVE History'
  BY <1>3, <1>4 DEF ClosePeriod, ReopenPeriod, locks
<1>5. CASE UNCHANGED vars
  BY <1>3, <1>5 DEF vars, locks
<1> QED
  BY <1>1, <1>2, <1>4, <1>5 DEF Next

\* Only Commit changes a committed row.
LEMMA NextFollows ==
  ASSUME Inv, History, [Next]_vars, NEW e \in Sessions, Exists(je[e])
  PROVE  Follows(je[e], je'[e])
<1>1. CASE UNCHANGED je
  BY <1>1, FollowsReflexive
<1>2. ASSUME NEW s \in Sessions, Step(s), ~Commit(s) PROVE UNCHANGED je
  BY <1>2 DEF Step, Probe, Precheck, ReverseKey, ReadDraft, WriteKey, LockTarget,
     LookupKey, LookupSource, CheckPeriod, TakeNumber, Insert, Recheck, ApplyLine,
     Flip, MarkReversed, NothingWritten, KeepCommitted, Rollback
<1>3. ASSUME NEW s \in Sessions, Abort(s) \/ BreakDeadlock(s) PROVE UNCHANGED je
  BY <1>3 DEF Abort, BreakDeadlock, Rollback
<1>4. ASSUME NEW d \in Dates, ClosePeriod(d) \/ ReopenPeriod(d) PROVE UNCHANGED je
  BY <1>4 DEF ClosePeriod, ReopenPeriod
<1>5. CASE UNCHANGED vars
  BY <1>1, <1>5 DEF vars
<1> QED
  BY <1>1, <1>2, <1>3, <1>4, <1>5, CommitFollows DEF Next

\* No interleaving of creations, posts, voids and reversals rewrites a
\* committed entry or moves its status back, however many sessions there are
\* and whatever keys they share.
THEOREM HistoryKept == Spec => EntryHistory
<1>1. Inv /\ History /\ [Next]_vars
      => [\A e \in Sessions : Exists(je[e]) => Follows(je[e], je'[e])]_vars
  BY NextFollows
<1> QED
  BY InitInv, NextInv, InitHistory, NextHistory, <1>1, PTL DEF Spec, EntryHistory

(***************************************************************************)
(* One reversal                                                            *)
(*                                                                         *)
(* Whether a reversal is the only one is decided when the target is read   *)
(* under its row lock; the insert and the mark come much later, the lock   *)
(* may be lost to an IntegrityError in between, and a key may lead to an   *)
(* entry that somebody else wrote.  The invariant says where every         *)
(* committed entry and every key came from (Provenance), and what a        *)
(* reversal may rely on at each of its statements (Claims).                *)
(***************************************************************************)
BeforeInsert == {"key", "source", "period", "number", "insert"}

\* Key k of entry e was given by the request that created it, or by one that
\* posted it.
KeyedBy(q, e, k) == req[q].op = "post" /\ Target(q) = e /\ req[q].key = k
Keyed(e, k) == k # NoKey => req[e].key = k \/ \E q \in Sessions : KeyedBy(q, e, k)

Provenance(e) ==
  /\ Keyed(e, je[e].key)
  /\ ~Exists(je[e]) => je[e] = NoRow
  /\ Exists(je[e]) =>
       /\ req[e].op # "post"
       /\ (je[e].source = "reversal") <=> Reversing(e)
       /\ Reversing(e) => je[e].sid = Target(e)

\* Row is the one that reverses the target of s.
Undone(row, s) ==
  LET old == je[Target(s)] IN
  /\ row.status = "posted" /\ row.sid = Target(s) /\ row.rate = old.rate
  /\ row.lines = Base(old.rate, Opposite(old.lines))

\* The inserted row, and the new version of the target's.
InsClaim(s) ==
  Exists(tx[s].ins) =>
    /\ pc[s] \in {"lines", "mark", "commit"} /\ req[s].op # "post"
    /\ tx[s].ins.key = req[s].key /\ tx[s].ins.status # "reversed"
    /\ (tx[s].ins.source = "reversal") <=> Reversing(s)
    /\ Reversing(s) => Undone(tx[s].ins, s)

UpdClaim(s) ==
  /\ Exists(tx[s].upd) => Keyed(Target(s), tx[s].upd.key)
  /\ req[s].op = "post" =>
       /\ pc[s] \in {"pread", "pkey"} => ~Exists(tx[s].upd)
       /\ pc[s] \in {"lines", "commit"} /\ Exists(tx[s].upd)
          => tx[s].upd.status = "posted"

\* Until its own entry is committed, a reversal past the lock keeps the
\* target to itself, and finds it posted and not reversed.
Alone(s) == /\ rowLock[Target(s)] = s /\ je[Target(s)].status = "posted"
            /\ ReversalsOf(Target(s)) = {} /\ je[Target(s)].source # "reversal"

Settled(s) == Exists(tx[s].ins) \/ ReversalsOf(Target(s)) # {}

ReversalClaim(s) ==
  Reversing(s) =>
    /\ pc[s] \in BeforeInsert \/ Exists(tx[s].ins) => Alone(s)
    /\ pc[s] = "lines" => Exists(tx[s].ins)
    /\ pc[s] = "mark" => Settled(s)
    /\ pc[s] = "commit" => /\ Exists(tx[s].ins) => Exists(tx[s].upd)
                           /\ Exists(tx[s].upd) => /\ tx[s].upd.status = "reversed"
                                                   /\ Settled(s)

Claims(s) == InsClaim(s) /\ UpdClaim(s) /\ ReversalClaim(s)

ClaimsInv == /\ KeysIdentifyRequests /\ ReversedOnce
             /\ \A s \in Sessions : Provenance(s) /\ Claims(s)

\* An entry found by the key of a reversal is a reversal of the same target.
LEMMA KeyLeadsHome ==
  ASSUME Inv, ClaimsInv, NEW s \in Sessions, Reversing(s)
  PROVE  /\ WithKey(req[s].key) \subseteq ReversalsOf(Target(s))
         /\ SameSource("reversal", Target(s), req[s].date) \subseteq ReversalsOf(Target(s))
<1>1. ASSUME NEW e \in WithKey(req[s].key) PROVE e \in ReversalsOf(Target(s))
  <2>1. /\ e \in Sessions /\ Exists(je[e]) /\ je[e].key = req[s].key
        /\ req[s].key # NoKey /\ req[s].op \notin {"create", "post"}
    BY <1>1 DEF WithKey, Reversing
  <2>2. \A q \in Sessions : req[q] \in Requests
    BY DEF Inv, TypeOK
  <2>3. ASSUME NEW q \in Sessions, req[q].key = req[s].key
        PROVE  SamePurpose(req[s], req[q])
    BY <2>1, <2>2, <2>3 DEF ClaimsInv, KeysIdentifyRequests
  <2>4. ~ \E q \in Sessions : KeyedBy(q, e, req[s].key)
    BY <2>1, <2>3 DEF KeyedBy, SamePurpose
  <2>5. req[e].key = req[s].key
    BY <2>1, <2>4 DEF ClaimsInv, Provenance, Keyed
  <2>6. SamePurpose(req[s], req[e])
    BY <2>1, <2>3, <2>5
  <2>7. Reversing(e) /\ Target(e) = Target(s)
    <3>1. req[e].op \in Ops
      BY <2>1, RequestFacts DEF Inv, RequestType
    <3> QED
      BY <2>1, <2>6, <3>1 DEF SamePurpose, Reversing, Target, Ops
  <2> QED
    BY <2>1, <2>7 DEF ClaimsInv, Provenance, ReversalsOf
<1> QED
  BY <1>1 DEF SameSource, ReversalsOf

LEMMA FrameClaims ==
  ASSUME Inv, ClaimsInv, NEW s \in Sessions, Frame(s), Claims(s)'
  PROVE  ClaimsInv'
<1>1. je' = je /\ req' = req
  BY DEF Frame
<1>2. KeysIdentifyRequests' /\ ReversedOnce'
  BY <1>1 DEF ClaimsInv, ReversedOnce, KeysIdentifyRequests, ReversalsOf, Foreign
<1>3. ASSUME NEW q \in Sessions PROVE Provenance(q)'
  BY <1>1 DEF ClaimsInv, Provenance, Keyed, KeyedBy, Reversing, Target
<1>4. ASSUME NEW q \in Sessions, q # s PROVE Claims(q)'
  <2>1. pc'[q] = pc[q] /\ tx'[q] = tx[q] /\ Claims(q)
    BY <1>4 DEF Frame, ClaimsInv
  <2>2. Reversing(q) => Target(q) \in Sessions
    BY RequestFacts DEF Inv, Reversing
  <2>3. Alone(q) /\ Reversing(q) => Alone(q)'
    BY <1>1, <1>4, <2>2 DEF Frame, Alone, ReversalsOf, Target
  <2>4. InsClaim(q)'
    BY <1>1, <2>1 DEF Claims, InsClaim, Reversing, Target, Undone
  <2>5. UpdClaim(q)'
    BY <1>1, <2>1 DEF Claims, UpdClaim, Keyed, KeyedBy, Target
  <2>6. ReversalClaim(q)'
    BY <1>1, <2>1, <2>3 DEF Claims, ReversalClaim, Reversing, Settled, ReversalsOf, Target
  <2> QED
    BY <2>4, <2>5, <2>6 DEF Claims
<1> QED
  BY <1>2, <1>3, <1>4 DEF ClaimsInv

(***************************************************************************)
(* Steps that commit nothing                                               *)
(***************************************************************************)
LEMMA RollbackClaims ==
  ASSUME Inv, ClaimsInv, NEW s \in Sessions, Rollback(s)
  PROVE  ClaimsInv'
<1>1. /\ pc'[s] = "done" /\ \A q \in Sessions \ {s} : pc'[q] = pc[q]
      /\ UNCHANGED <<je, req>>
  BY GoFrame DEF Rollback
<1>2. Frame(s)
  BY <1>1, DropWorkFrame DEF Rollback, Frame
<1>3. Claims(s)'
  BY <1>1, DropWorkFrame
  DEF Rollback, Claims, InsClaim, UpdClaim, ReversalClaim, BeforeInsert
<1> QED
  BY <1>2, <1>3, FrameClaims

\* A step of s that writes no row.
LEMMA QuietClaims ==
  ASSUME Inv, ClaimsInv, NEW s \in Sessions, NEW step, Go(s, step),
         UNCHANGED <<je, req>>,
         \A q \in Sessions \ {s} : tx'[q] = tx[q],
         tx'[s].upd = tx[s].upd, tx'[s].ins = tx[s].ins,
         \A e \in Sessions : \A q \in Sessions : rowLock[e] = q => rowLock'[e] = q,
         Exists(tx[s].ins) => step \in {"lines", "mark", "commit"},
         step \in {"pread", "pkey"} => ~Exists(tx[s].upd),
         req[s].op = "post" /\ step \in {"lines", "commit"} /\ Exists(tx[s].upd)
           => tx[s].upd.status = "posted",
         Reversing(s) =>
           /\ step \in BeforeInsert => pc[s] \in BeforeInsert
           /\ step = "lines" => Exists(tx[s].ins)
           /\ step = "mark" => Settled(s)
           /\ step = "commit" => ~Exists(tx[s].ins) /\ ~Exists(tx[s].upd)
  PROVE  ClaimsInv'
<1>1. pc'[s] = step /\ \A q \in Sessions \ {s} : pc'[q] = pc[q]
  BY GoFrame
<1>2. Frame(s)
  BY <1>1 DEF Frame
<1>3. /\ Target(s)' = Target(s) /\ Reversing(s)' = Reversing(s) /\ Claims(s)
      /\ \A t \in Sessions : ReversalsOf(t)' = ReversalsOf(t)
      /\ Reversing(s) => Target(s) \in Sessions
  BY RequestFacts DEF Target, Reversing, ClaimsInv, ReversalsOf, Inv
<1>4. Alone(s) /\ Reversing(s) => Alone(s)'
  BY <1>3 DEF Alone
<1>5. InsClaim(s)'
  BY <1>1, <1>3 DEF Claims, InsClaim, Undone
<1>6. UpdClaim(s)'
  BY <1>1, <1>3 DEF Claims, UpdClaim, Keyed, KeyedBy, Target
<1>7. ReversalClaim(s)'
  BY <1>1, <1>3, <1>4 DEF Claims, ReversalClaim, Settled
<1> QED
  BY <1>2, <1>5, <1>6, <1>7, FrameClaims DEF Claims

\* What a session does not have yet at the statements before the insert.
LEMMA NotYet ==
  ASSUME Inv, History, ClaimsInv, NEW s \in Sessions
  PROVE  /\ pc[s] \notin {"lines", "mark", "commit"} => ~Exists(tx[s].ins)
         /\ req[s].op = "post" => ~Exists(tx[s].ins)
         /\ Reversing(s) /\ pc[s] \notin {"commit", "done"} => ~Exists(tx[s].upd)
         /\ pc[s] \in {"pread", "pkey"} => ~Exists(tx[s].upd)
         /\ req[s].op = "create" => ~Exists(tx[s].upd)
  BY WhoIsAt DEF ClaimsInv, Claims, InsClaim, UpdClaim, History, Held

\* An entry handed back to a reversal is a reversal of its target.
LEMMA ReturnClaims ==
  ASSUME Inv, History, ClaimsInv, NEW s \in Sessions, NEW e \in Sessions,
         ReturnExisting(s, e), NothingWritten,
         pc[s] \in {"key", "source", "recheck"},
         Reversing(s) => ReversalsOf(Target(s)) # {}
  PROVE  ClaimsInv'
<1>1. CASE Reversing(s)
  <2>1. Go(s, "mark") /\ req[s].op # "post"
    BY <1>1 DEF ReturnExisting, Reversing
  <2> QED
    BY <1>1, <2>1, NotYet, NothingWrittenQuiet, QuietClaims DEF Settled, BeforeInsert
<1>2. CASE ~Reversing(s)
  <2>1. Go(s, "commit") /\ req[s].op # "post"
    BY <1>2, WhoIsAt DEF ReturnExisting
  <2> QED
    BY <1>2, <2>1, NotYet, NothingWrittenQuiet, QuietClaims
<1> QED
  BY <1>1, <1>2

LEMMA ProbeClaims ==
  ASSUME Inv, History, ClaimsInv, NEW s \in Sessions, Probe(s) PROVE ClaimsInv'
<1>1. pc[s] = "probe" /\ req[s].op # "post" /\ NothingWritten
  BY WhoIsAt DEF Probe, At
<1>2. CASE Go(s, "commit")
  BY <1>1, <1>2, NotYet, NothingWrittenQuiet, QuietClaims DEF BeforeInsert
<1>3. CASE Go(s, "precheck")
  BY <1>1, <1>3, NotYet, NothingWrittenQuiet, QuietClaims DEF BeforeInsert
<1> QED
  BY <1>2, <1>3 DEF Probe

LEMMA PrecheckClaims ==
  ASSUME Inv, History, ClaimsInv, NEW s \in Sessions, Precheck(s) PROVE ClaimsInv'
<1>1. CASE Rollback(s)
  BY <1>1, RollbackClaims
<1>2. CASE ~Rollback(s)
  <2>1. /\ tx' = [tx EXCEPT ![s].doc = req[s].op = "create" /\ req[s].doc # NoDoc]
        /\ UNCHANGED <<je, req, rowLock>>
        /\ Go(s, IF Reversing(s) THEN "rkey" ELSE "key")
    BY <1>2 DEF Precheck, locks
  <2>2. /\ tx'[s].upd = tx[s].upd /\ tx'[s].ins = tx[s].ins
        /\ \A q \in Sessions \ {s} : tx'[q] = tx[q]
    BY <2>1 DEF Inv, TypeOK, TxType
  <2>3. pc[s] = "precheck" /\ req[s].op # "post"
    BY WhoIsAt DEF Precheck, At
  <2>4. CASE Reversing(s)
    BY <2>1, <2>2, <2>3, <2>4, NotYet, QuietClaims DEF BeforeInsert
  <2>5. CASE ~Reversing(s)
    BY <2>1, <2>2, <2>3, <2>5, NotYet, QuietClaims DEF BeforeInsert
  <2> QED
    BY <2>4, <2>5
<1> QED
  BY <1>1, <1>2

LEMMA ReverseKeyClaims ==
  ASSUME Inv, History, ClaimsInv, NEW s \in Sessions, ReverseKey(s) PROVE ClaimsInv'
<1>1. pc[s] = "rkey" /\ NothingWritten /\ Reversing(s) /\ req[s].op # "post"
  BY WhoIsAt DEF ReverseKey, At, Reversing
<1>2. CASE Go(s, "commit")
  BY <1>1, <1>2, NotYet, NothingWrittenQuiet, QuietClaims DEF BeforeInsert
<1>3. CASE Go(s, "lock")
  BY <1>1, <1>3, NotYet, NothingWrittenQuiet, QuietClaims DEF BeforeInsert
<1> QED
  BY <1>2, <1>3 DEF ReverseKey

LEMMA ReadDraftClaims ==
  ASSUME Inv, History, ClaimsInv, NEW s \in Sessions, ReadDraft(s) PROVE ClaimsInv'
<1>1. pc[s] = "pread" /\ req[s].op = "post" /\ ~Reversing(s)
  BY WhoIsAt DEF ReadDraft, At, Reversing
<1>2. ASSUME NEW step \in {"commit", "lock", "pkey"}, Go(s, step), NothingWritten
      PROVE  ClaimsInv'
  BY <1>1, <1>2, NotYet, NothingWrittenQuiet, QuietClaims
<1>3. CASE Rollback(s)
  BY <1>3, RollbackClaims
<1> QED
  BY <1>2, <1>3 DEF ReadDraft

LEMMA LookupClaims ==
  ASSUME Inv, History, ClaimsInv, NEW s \in Sessions, LookupKey(s) \/ LookupSource(s)
  PROVE  ClaimsInv'
<1>1. pc[s] \in {"key", "source"} /\ req[s].op # "post" /\ NothingWritten
  BY WhoIsAt DEF LookupKey, LookupSource, At
<1>2. Reversing(s) => ReversalsOf(Target(s)) = {}
  BY <1>1 DEF ClaimsInv, Claims, ReversalClaim, BeforeInsert, Alone
<1>3. ASSUME NEW e \in Sessions, ReturnExisting(s, e),
             e \in WithKey(req[s].key)
                \/ e \in WithSource(NewRow(s).source, NewRow(s).sid, NewRow(s).date)
      PROVE  ClaimsInv'
  <2>1. ~Reversing(s)
    BY <1>2, <1>3, KeyLeadsHome DEF NewRow, WithSource
  <2> QED
    BY <1>1, <1>3, <2>1, ReturnClaims
<1>4. ASSUME NEW step \in {"source", "period"}, Go(s, step) PROVE ClaimsInv'
  BY <1>1, <1>4, NotYet, NothingWrittenQuiet, QuietClaims DEF BeforeInsert
<1> QED
  BY <1>3, <1>4, KeysAndSourcesNameSessions DEF LookupKey, LookupSource

LEMMA RecheckClaims ==
  ASSUME Inv, History, ClaimsInv, NEW s \in Sessions, Recheck(s) PROVE ClaimsInv'
<1>1. pc[s] = "recheck" /\ (Reversing(s) => NewRow(s).source = "reversal"
         /\ NewRow(s).sid = Target(s) /\ NewRow(s).date = req[s].date)
         /\ NewRow(s).key = req[s].key
  BY DEF Recheck, At, NewRow
<1>2. ASSUME NEW e \in Sessions, ReturnExisting(s, e), NothingWritten,
             e \in WithKey(NewRow(s).key)
                \/ e \in WithSource(NewRow(s).source, NewRow(s).sid, NewRow(s).date)
      PROVE  ClaimsInv'
  <2>1. Reversing(s) => ReversalsOf(Target(s)) # {}
    BY <1>1, <1>2, KeyLeadsHome DEF WithSource
  <2> QED
    BY <1>1, <1>2, <2>1, ReturnClaims
<1>3. CASE Rollback(s)
  BY <1>3, RollbackClaims
<1> QED
  BY <1>2, <1>3, KeysAndSourcesNameSessions DEF Recheck

LEMMA CheckPeriodClaims ==
  ASSUME Inv, History, ClaimsInv, NEW s \in Sessions, CheckPeriod(s) PROVE ClaimsInv'
<1>1. pc[s] = "period"
  BY DEF CheckPeriod, At
<1>2. CASE Rollback(s)
  BY <1>2, RollbackClaims
<1>3. CASE Go(s, "flip") /\ NothingWritten
  BY <1>1, <1>3, NotYet, NothingWrittenQuiet, QuietClaims DEF BeforeInsert
<1>4. CASE Go(s, "number") /\ NothingWritten
  BY <1>1, <1>4, NotYet, NothingWrittenQuiet, QuietClaims DEF BeforeInsert
<1> QED
  BY <1>2, <1>3, <1>4 DEF CheckPeriod

LEMMA TakeNumberClaims ==
  ASSUME Inv, History, ClaimsInv, NEW s \in Sessions, TakeNumber(s) PROVE ClaimsInv'
  BY NotYet, QuietClaims DEF TakeNumber, At, KeepCommitted, BeforeInsert

(***************************************************************************)
(* Steps that write rows or take the target's lock                         *)
(***************************************************************************)
LEMMA NewRowFacts ==
  ASSUME Inv, NEW s \in Sessions, req[s].op # "post"
  PROVE  /\ NewRow(s).key = req[s].key /\ NewRow(s).status \in {"draft", "posted"}
         /\ (NewRow(s).source = "reversal") <=> Reversing(s)
         /\ Reversing(s) => Undone(NewRow(s), s)
<1>1. req[s] \in Requests /\ req[s].op \in Ops /\ req[s].status \in {"draft", "posted"}
  BY RequestFacts DEF Inv, TypeOK, RequestType
<1>2. CASE Reversing(s)
  BY <1>2 DEF NewRow, Undone
<1>3. CASE ~Reversing(s)
  <2>1. Normalize(req[s].source) # "reversal"
    BY <1>1, <1>3, RequestsAssumption DEF Reversing, Ops
  <2> QED
    BY <1>1, <1>3, <2>1 DEF NewRow, StoredSource
<1> QED
  BY <1>2, <1>3

LEMMA InsertClaims ==
  ASSUME Inv, History, ClaimsInv, NEW s \in Sessions, Insert(s) PROVE ClaimsInv'
<1>1. pc[s] = "insert" /\ req[s].op # "post" /\ UNCHANGED <<je, req>>
  BY WhoIsAt DEF Insert, At, KeepCommitted
<1>2. CASE DropWork(s) /\ Go(s, "recheck")
  <2>1. pc'[s] = "recheck" /\ \A q \in Sessions \ {s} : pc'[q] = pc[q]
    BY <1>2, GoFrame
  <2>2. Frame(s)
    BY <1>1, <1>2, <2>1, DropWorkFrame DEF Frame
  <2>3. Claims(s)'
    BY <1>1, <1>2, <2>1, DropWorkFrame
    DEF Claims, InsClaim, UpdClaim, ReversalClaim, BeforeInsert
  <2> QED
    BY <2>2, <2>3, FrameClaims
<1>3. ASSUME tx'[s].ins = NewRow(s), tx'[s].upd = tx[s].upd, UNCHANGED locks,
             \A q \in Sessions \ {s} : tx'[q] = tx[q],
             NEW step \in {"lines", "commit"}, Go(s, step),
             Reversing(s) => step = "lines"
      PROVE  ClaimsInv'
  <2>1. pc'[s] = step /\ \A q \in Sessions \ {s} : pc'[q] = pc[q]
    BY <1>3, GoFrame
  <2>2. Frame(s)
    BY <1>1, <1>3, <2>1 DEF Frame, locks
  <2>3. /\ Target(s)' = Target(s) /\ Reversing(s)' = Reversing(s)
        /\ \A t \in Sessions : ReversalsOf(t)' = ReversalsOf(t)
        /\ Reversing(s) => Target(s) \in Sessions
    BY <1>1, RequestFacts DEF Target, Reversing, ReversalsOf, Inv
  <2>4. Reversing(s) => Alone(s)'
    BY <1>1, <1>3, <2>3 DEF ClaimsInv, Claims, ReversalClaim, BeforeInsert, Alone, locks
  <2>5. InsClaim(s)'
    BY <1>1, <1>3, <2>1, <2>3, NewRowFacts DEF InsClaim, Undone
  <2>6. UpdClaim(s)'
    BY <1>1, <1>3, <2>1, <2>3 DEF ClaimsInv, Claims, UpdClaim, Keyed, KeyedBy, Target
  <2>7. Exists(tx'[s].ins)
    BY <1>1, <1>3, NewRowFacts DEF Exists
  <2>8. ReversalClaim(s)'
    BY <1>3, <2>1, <2>3, <2>4, <2>7 DEF ReversalClaim
  <2> QED
    BY <2>2, <2>5, <2>6, <2>8, FrameClaims DEF Claims
<1>4. CASE /\ NewRow(s).status = "draft" /\ tx' = [tx EXCEPT ![s].ins = NewRow(s)]
           /\ Go(s, "commit") /\ UNCHANGED locks
  <2>1. /\ tx'[s].upd = tx[s].upd /\ tx'[s].ins = NewRow(s)
        /\ \A q \in Sessions \ {s} : tx'[q] = tx[q]
    BY <1>4 DEF Inv, TypeOK, TxType
  <2>2. ~Reversing(s)
    BY <1>1, <1>4, NewRowFacts DEF Undone
  <2> QED
    BY <1>3, <1>4, <2>1, <2>2
<1>5. ASSUME NEW a \in Touched(NewRow(s).lines), Go(s, "lines"), UNCHANGED locks,
             tx' = [tx EXCEPT ![s].ins = NewRow(s),
                              ![s].todo = Touched(NewRow(s).lines), ![s].at = a]
      PROVE  ClaimsInv'
  <2>1. /\ tx'[s].upd = tx[s].upd /\ tx'[s].ins = NewRow(s)
        /\ \A q \in Sessions \ {s} : tx'[q] = tx[q]
    BY <1>5 DEF Inv, TypeOK, TxType
  <2> QED
    BY <1>3, <1>5, <2>1
<1> QED
  BY <1>2, <1>4, <1>5 DEF Insert

LEMMA ApplyLineClaims ==
  ASSUME Inv, History, ClaimsInv, NEW s \in Sessions, ApplyLine(s) PROVE ClaimsInv'
<1> DEFINE a == tx[s].at
<1>1. /\ pc[s] = "lines" /\ UNCHANGED <<je, req>> /\ UNCHANGED rowLock
      /\ \E rest, next : tx' = [tx EXCEPT
                                 ![s].newBal[a] = bal[a] + Posting(s).lines[a],
                                 ![s].todo = rest, ![s].at = next]
  BY DEF ApplyLine, At, KeepCommitted
<1>2. /\ tx'[s].upd = tx[s].upd /\ tx'[s].ins = tx[s].ins
      /\ \A q \in Sessions \ {s} : tx'[q] = tx[q]
  BY <1>1 DEF Inv, TypeOK, TxType
<1>3. /\ Reversing(s) => Exists(tx[s].ins) /\ req[s].op # "post"
      /\ req[s].op = "post" /\ Exists(tx[s].upd) => tx[s].upd.status = "posted"
  BY <1>1 DEF ClaimsInv, Claims, UpdClaim, ReversalClaim, Reversing
<1>4. CASE UNCHANGED pc
  <2>1. Go(s, "lines")
    BY <1>1, <1>4 DEF Go, Inv, TypeOK
  <2> QED
    BY <1>1, <1>2, <1>3, <2>1, QuietClaims DEF BeforeInsert
<1>5. CASE Go(s, IF Reversing(s) THEN "mark" ELSE "commit")
  <2>1. CASE Reversing(s)
    BY <1>1, <1>2, <1>3, <1>5, <2>1, QuietClaims DEF BeforeInsert, Settled
  <2>2. CASE ~Reversing(s)
    BY <1>1, <1>2, <1>3, <1>5, <2>2, QuietClaims DEF BeforeInsert
  <2> QED
    BY <2>1, <2>2
<1> QED
  BY <1>4, <1>5 DEF ApplyLine

LEMMA WriteKeyClaims ==
  ASSUME Inv, History, ClaimsInv, NEW s \in Sessions, WriteKey(s) PROVE ClaimsInv'
<1> DEFINE new == [je[Target(s)] EXCEPT !.key = req[s].key]
<1>1. /\ pc[s] = "pkey" /\ req[s].op = "post" /\ ~Reversing(s)
      /\ Target(s) \in Sessions /\ je[Target(s)] \in Entry
  BY WhoIsAt, RequestFacts, RowType DEF WriteKey, At, Reversing, Inv
<1>2. CASE Go(s, "lock") /\ NothingWritten
  BY <1>1, <1>2, NotYet, NothingWrittenQuiet, QuietClaims
<1>3. CASE Rollback(s)
  BY <1>3, RollbackClaims
<1>4. CASE /\ RowFree(s) /\ TakeRow(s) /\ Update(s, new)
           /\ Go(s, "lock") /\ KeepCommitted
  <2>1. /\ tx'[s].upd = new /\ tx'[s].ins = tx[s].ins
        /\ \A q \in Sessions \ {s} : tx'[q] = tx[q]
    BY <1>4 DEF Update, Inv, TypeOK, TxType
  <2>2. Frame(s) /\ pc'[s] = "lock" /\ UNCHANGED <<je, req>>
    BY <1>1, <1>4, <2>1, TakeRowFrame DEF KeepCommitted
  <2>3. new.key = req[s].key
    BY <1>1 DEF Entry
  <2>4. Keyed(Target(s), tx[s].upd.key)'
    BY <1>1, <2>1, <2>2, <2>3 DEF Keyed, KeyedBy, Target
  <2>5. Claims(s)'
    BY <1>1, <2>1, <2>2, <2>4, NotYet
    DEF Claims, InsClaim, UpdClaim, ReversalClaim, Target, Reversing
  <2> QED
    BY <2>2, <2>5, FrameClaims
<1> QED
  BY <1>2, <1>3, <1>4 DEF WriteKey

LEMMA LockTargetClaims ==
  ASSUME Inv, History, ClaimsInv, NEW s \in Sessions, LockTarget(s) PROVE ClaimsInv'
<1> DEFINE moves(step) == /\ TakeRow(s) /\ Go(s, step)
                          /\ KeepCommitted /\ UNCHANGED <<acctLock, numLock, tx>>
<1>1. /\ pc[s] = "lock" /\ RowFree(s) /\ Target(s) \in Sessions
      /\ ~Exists(tx[s].ins) /\ (Reversing(s) => ~Exists(tx[s].upd))
  BY WhoIsAt, RequestFacts, NotYet DEF LockTarget, At, Inv, Reversing
<1>2. CASE Rollback(s)
  BY <1>2, RollbackClaims
<1>3. ASSUME NEW step, moves(step)
      PROVE  /\ Frame(s) /\ rowLock'[Target(s)] = s /\ pc'[s] = step
             /\ UNCHANGED <<je, req, tx>>
             /\ Target(s)' = Target(s) /\ Reversing(s)' = Reversing(s)
             /\ \A t \in Sessions : ReversalsOf(t)' = ReversalsOf(t)
             /\ Keyed(Target(s), tx[s].upd.key)' = Keyed(Target(s), tx[s].upd.key)
  <2>1. UNCHANGED <<je, req, tx>>
    BY <1>3 DEF KeepCommitted
  <2>2. Frame(s) /\ rowLock'[Target(s)] = s /\ pc'[s] = step
    BY <1>1, <1>3, TakeRowFrame
  <2> QED
    BY <2>1, <2>2 DEF Target, Reversing, ReversalsOf, Keyed, KeyedBy
<1>4. CASE Reversing(s) /\ Reversible(s) /\ moves("key")
  <2>1. /\ je[Target(s)].status = "posted" /\ ReversalsOf(Target(s)) = {}
          /\ je[Target(s)].source # "reversal"
    BY <1>1, <1>4 DEF Reversible, Row
  <2>2. Alone(s)'
    BY <1>1, <1>3, <1>4, <2>1 DEF Alone
  <2>3. Claims(s)'
    BY <1>1, <1>3, <1>4, <2>2
    DEF Claims, InsClaim, UpdClaim, ReversalClaim, Reversing
  <2> QED
    BY <1>3, <1>4, <2>3, FrameClaims
<1>5. CASE req[s].op = "post" /\ moves("period")
  <2>1. Claims(s)'
    BY <1>1, <1>3, <1>5
    DEF ClaimsInv, Claims, InsClaim, UpdClaim, ReversalClaim, Reversing
  <2> QED
    BY <1>3, <1>5, <2>1, FrameClaims
<1>6. CASE req[s].op = "post" /\ Row(s).status = "posted" /\ moves("commit")
  <2>1. Claims(s)'
    BY <1>1, <1>3, <1>6
    DEF ClaimsInv, Claims, InsClaim, UpdClaim, ReversalClaim, Reversing, Row
  <2> QED
    BY <1>3, <1>6, <2>1, FrameClaims
<1> QED
  BY <1>2, <1>4, <1>5, <1>6 DEF LockTarget

LEMMA FlipClaims ==
  ASSUME Inv, History, ClaimsInv, NEW s \in Sessions, Flip(s) PROVE ClaimsInv'
<1> DEFINE new == [Row(s) EXCEPT !.status = "posted"]
<1>1. /\ pc[s] = "flip" /\ req[s].op = "post" /\ ~Reversing(s)
      /\ Target(s) \in Sessions /\ Row(s) \in Entry /\ ~Exists(tx[s].ins)
  BY WhoIsAt, RequestFacts, RowType, NotYet DEF Flip, At, Reversing, Inv
<1>2. CASE Rollback(s)
  BY <1>2, RollbackClaims
<1>3. ASSUME NEW a \in Touched(Row(s).lines),
             tx' = [tx EXCEPT ![s].upd = new, ![s].todo = Touched(Row(s).lines),
                              ![s].at = a],
             Go(s, "lines"), KeepCommitted, UNCHANGED locks
      PROVE  ClaimsInv'
  <2>1. /\ tx'[s].upd = new /\ tx'[s].ins = tx[s].ins
        /\ \A q \in Sessions \ {s} : tx'[q] = tx[q]
    BY <1>3 DEF Inv, TypeOK, TxType
  <2>2. pc'[s] = "lines" /\ \A q \in Sessions \ {s} : pc'[q] = pc[q]
    BY <1>3, GoFrame
  <2>3. Frame(s) /\ UNCHANGED <<je, req>>
    BY <1>3, <2>1, <2>2 DEF Frame, KeepCommitted, locks
  <2>4. new.key = Row(s).key /\ new.status = "posted"
    BY <1>1 DEF Entry
  <2>5. Keyed(Target(s), Row(s).key)
    BY <1>1 DEF Row, ClaimsInv, Provenance, Claims, UpdClaim
  <2>6. Keyed(Target(s), tx[s].upd.key)'
    BY <2>1, <2>3, <2>4, <2>5 DEF Keyed, KeyedBy, Target
  <2>7. Claims(s)'
    BY <1>1, <2>1, <2>2, <2>3, <2>4, <2>6
    DEF Claims, InsClaim, UpdClaim, ReversalClaim, Target, Reversing
  <2> QED
    BY <2>3, <2>7, FrameClaims
<1> QED
  BY <1>2, <1>3 DEF Flip

LEMMA MarkReversedClaims ==
  ASSUME Inv, History, ClaimsInv, NEW s \in Sessions, MarkReversed(s) PROVE ClaimsInv'
<1> DEFINE new == [Row(s) EXCEPT !.status = "reversed"]
<1>1. /\ pc[s] = "mark" /\ Reversing(s) /\ req[s].op # "post"
      /\ Target(s) \in Sessions /\ Row(s) = je[Target(s)] /\ Row(s) \in Entry
  BY WhoIsAt, RequestFacts, RowType, NotYet
  DEF MarkReversed, At, Reversing, Inv, Row
<1>2. /\ tx'[s].upd = new /\ tx'[s].ins = tx[s].ins
      /\ \A q \in Sessions \ {s} : tx'[q] = tx[q]
  BY DEF MarkReversed, Update, Inv, TypeOK, TxType
<1>3. Frame(s) /\ rowLock'[Target(s)] = s /\ pc'[s] = "commit" /\ UNCHANGED <<je, req>>
  BY <1>1, <1>2, TakeRowFrame DEF MarkReversed, KeepCommitted
<1>4. new.status = "reversed" /\ new.key = je[Target(s)].key /\ Exists(new)
  BY <1>1 DEF Entry, Exists
<1>5. Keyed(Target(s), tx[s].upd.key)'
  BY <1>1, <1>2, <1>3, <1>4 DEF Keyed, KeyedBy, Target, ClaimsInv, Provenance
<1>6. /\ Target(s)' = Target(s) /\ Reversing(s)' = Reversing(s)
      /\ ReversalsOf(Target(s))' = ReversalsOf(Target(s)) /\ Claims(s) /\ Settled(s)
  BY <1>1, <1>3 DEF Target, Reversing, ReversalsOf, ClaimsInv, Claims, ReversalClaim
<1>7. Exists(tx[s].ins) => Alone(s)'
  BY <1>1, <1>3, <1>6 DEF Claims, ReversalClaim, Alone
<1>8. InsClaim(s)' /\ UpdClaim(s)'
  BY <1>1, <1>2, <1>3, <1>5, <1>6 DEF Claims, InsClaim, UpdClaim, Undone
<1>9. ReversalClaim(s)'
  BY <1>2, <1>3, <1>4, <1>6, <1>7 DEF ReversalClaim, Settled, BeforeInsert
<1> QED
  BY <1>3, <1>8, <1>9, FrameClaims DEF Claims

LEMMA BaseOne ==
  \A l \in [Accounts -> Int] : Base(1, Opposite(l)) = Opposite(l)
  BY OppositeType DEF Base

(***************************************************************************)
(* Commit                                                                  *)
(***************************************************************************)
\* The entry of s is new, nobody else's comes or goes, and no row changes
\* that a session has locked.
LEMMA CommitRows ==
  ASSUME Inv, History, ClaimsInv, NEW s \in Sessions, Commit(s)
  PROVE  /\ ~Exists(je[s]) /\ req' = req
         /\ je'[s] = IF Exists(tx[s].ins) THEN tx[s].ins ELSE je[s]
         /\ \A e \in Sessions \ {s} :
              /\ je'[e] = IF e = Target(s) /\ Exists(tx[s].upd) THEN tx[s].upd
                                                               ELSE je[e]
              /\ Exists(je'[e]) <=> Exists(je[e])
              /\ Exists(je[e]) => Follows(je[e], je'[e])
         /\ \A q \in Sessions \ {s}, e \in Sessions :
              rowLock[e] = q /\ Exists(je[e]) => je'[e] = je[e]
<1>1. ~Exists(je[s]) /\ req' = req
  BY DEF Commit, At, History, Held
<1>2. s = Target(s) => ~Exists(tx[s].upd)
  BY <1>1 DEF History, Held
<1>3. /\ je'[s] = IF Exists(tx[s].ins) THEN tx[s].ins ELSE je[s]
      /\ \A e \in Sessions \ {s} :
           je'[e] = IF e = Target(s) /\ Exists(tx[s].upd) THEN tx[s].upd ELSE je[e]
  BY <1>2 DEF Commit
<1>4. ASSUME NEW e \in Sessions \ {s}
      PROVE  /\ Exists(je'[e]) <=> Exists(je[e])
             /\ Exists(je[e]) => Follows(je[e], je'[e])
  BY <1>3, CommitFollows, FollowsExists DEF History, Held
<1>5. ASSUME NEW q \in Sessions \ {s}, NEW e \in Sessions,
             rowLock[e] = q, Exists(je[e])
      PROVE  je'[e] = je[e]
  BY <1>1, <1>3, <1>5 DEF History, Held
<1> QED
  BY <1>1, <1>3, <1>4, <1>5

Adds(s, t) == Exists(tx[s].ins) /\ Reversing(s) /\ Target(s) = t

\* A commit adds at most one reversal, of the target.
LEMMA CommitReversals ==
  ASSUME Inv, History, ClaimsInv, NEW s \in Sessions, Commit(s), NEW t \in Sessions
  PROVE  ReversalsOf(t)' = ReversalsOf(t) \cup (IF Adds(s, t) THEN {s} ELSE {})
<1>1. \A e \in Sessions \ {s} : e \in ReversalsOf(t)' <=> e \in ReversalsOf(t)
  BY CommitRows DEF ReversalsOf, Follows
<1>2. s \notin ReversalsOf(t)
  BY CommitRows DEF ReversalsOf
<1>3. s \in ReversalsOf(t)' <=> Adds(s, t)
  BY CommitRows DEF ClaimsInv, Claims, InsClaim, Undone, ReversalsOf, Adds
<1> QED
  BY <1>1, <1>2, <1>3 DEF ReversalsOf

\* The status of an entry becomes reversed exactly with its reversal.
LEMMA CommitMarks ==
  ASSUME Inv, History, ClaimsInv, NEW s \in Sessions, Commit(s), NEW t \in Sessions
  PROVE  (je'[t].status = "reversed") <=> je[t].status = "reversed" \/ Adds(s, t)
<1>1. pc[s] = "commit" /\ Claims(s) /\ Held(s)
  BY DEF Commit, At, ClaimsInv, History
<1>2. CASE t = s
  <2>1. je[t].status = "none" /\ je'[t].status # "reversed"
    BY <1>1, <1>2, CommitRows DEF Exists, Claims, InsClaim
  <2>2. ~Adds(s, t)
    BY <1>1, <1>2, <2>1 DEF Adds, Claims, ReversalClaim, Alone
  <2> QED
    BY <2>1, <2>2
<1>3. CASE t # s /\ t = Target(s) /\ Exists(tx[s].upd)
  <2>1. je'[t] = tx[s].upd /\ req[s].op # "create" /\ Follows(je[t], tx[s].upd)
    BY <1>1, <1>3, CommitRows DEF Held
  <2>2. CASE req[s].op = "post"
    BY <1>1, <1>3, <2>1, <2>2
    DEF Claims, InsClaim, UpdClaim, Adds, Follows, Reversing
  <2>3. CASE Reversing(s)
    <3>1. je'[t].status = "reversed" /\ (~Adds(s, t) => ReversalsOf(t) # {})
      BY <1>1, <1>3, <2>1, <2>3 DEF Claims, ReversalClaim, Settled, Adds
    <3> QED
      BY <1>1, <1>3, <3>1 DEF ClaimsInv, ReversedOnce
  <2> QED
    BY <2>1, <2>2, <2>3, RequestFacts DEF Inv, RequestType, Ops, Reversing
<1>4. CASE t # s /\ ~(t = Target(s) /\ Exists(tx[s].upd))
  <2>1. je'[t] = je[t] /\ ~Adds(s, t)
    BY <1>1, <1>4, CommitRows DEF Adds, Claims, ReversalClaim
  <2> QED
    BY <2>1
<1> QED
  BY <1>2, <1>3, <1>4

LEMMA CommitOnce ==
  ASSUME Inv, History, ClaimsInv, NEW s \in Sessions, Commit(s)
  PROVE  ReversedOnce'
<1> SUFFICES ASSUME NEW t \in Sessions
             PROVE  /\ (je'[t].status = "reversed") <=> ReversalsOf(t)' # {}
                    /\ \A r1, r2 \in ReversalsOf(t)' :
                         /\ r1 = r2
                         /\ ~Foreign(je'[t]) => je'[r1].lines = Opposite(je'[t].lines)
  BY DEF ReversedOnce, Foreign, Opposite
<1>1. /\ (je[t].status = "reversed") <=> ReversalsOf(t) # {}
      /\ \A r1, r2 \in ReversalsOf(t) :
           /\ r1 = r2
           /\ ~Foreign(je[t]) => je[r1].lines = Opposite(je[t].lines)
  BY DEF ClaimsInv, ReversedOnce
<1>2. (je'[t].status = "reversed") <=> ReversalsOf(t)' # {}
  BY <1>1, CommitMarks, CommitReversals
<1>3. CASE Adds(s, t)
  <2>1. /\ Claims(s) /\ ReversalsOf(t) = {} /\ Exists(je[t])
        /\ tx[s].ins.lines = Base(je[t].rate, Opposite(je[t].lines))
    BY <1>3 DEF Adds, ClaimsInv, Claims, InsClaim, Undone, ReversalClaim, Alone, Exists
  <2>2. ReversalsOf(t)' = {s} /\ je'[s] = tx[s].ins
    BY <1>3, <2>1, CommitReversals, CommitRows DEF Adds
  <2>3. Follows(je[t], je'[t])
    BY <2>1, CommitFollows
  <2>4. Base(1, Opposite(je[t].lines)) = Opposite(je[t].lines)
    BY BaseOne DEF Inv, TypeOK, Entry
  <2> QED
    BY <1>2, <2>1, <2>2, <2>3, <2>4 DEF Follows, Foreign
<1>4. CASE ~Adds(s, t)
  <2>1. ReversalsOf(t)' = ReversalsOf(t)
    BY <1>4, CommitReversals
  <2>2. ASSUME NEW r \in ReversalsOf(t)
        PROVE  Follows(je[r], je'[r]) /\ Follows(je[t], je'[t])
    <3>1. r \in Sessions /\ Exists(je[r]) /\ Exists(je[t])
      BY <1>1, <2>2 DEF ReversalsOf, Exists
    <3> QED
      BY <3>1, CommitFollows
  <2> QED
    BY <1>1, <1>2, <2>1, <2>2 DEF Follows, Foreign
<1> QED
  BY <1>3, <1>4

LEMMA CommitProvenance ==
  ASSUME Inv, History, ClaimsInv, NEW s \in Sessions, Commit(s), NEW e \in Sessions
  PROVE  Provenance(e)'
<1>1. Claims(s) /\ Provenance(e) /\ req' = req
  BY CommitRows DEF ClaimsInv
<1>2. /\ Reversing(e)' = Reversing(e) /\ Target(e)' = Target(e)
      /\ \A k : Keyed(e, k) => (k # NoKey => req'[e].key = k
                                  \/ \E q \in Sessions : KeyedBy(q, e, k)')
  BY <1>1 DEF Reversing, Target, Keyed, KeyedBy
<1>3. Keyed(e, je'[e].key) => Keyed(e, je[e].key)'
  BY <1>2 DEF Keyed
<1>4. CASE e = s
  BY <1>1, <1>2, <1>3, <1>4, CommitRows
  DEF Provenance, Claims, InsClaim, Undone, Keyed
<1>5. CASE e # s
  <2>1. Keyed(e, je'[e].key)
    BY <1>1, <1>5, CommitRows DEF Provenance, Claims, UpdClaim
  <2>2. Exists(je'[e]) => Exists(je[e]) /\ Follows(je[e], je'[e])
    BY <1>5, CommitRows
  <2> QED
    BY <1>1, <1>2, <1>3, <1>5, <2>1, <2>2, CommitRows DEF Provenance, Follows
<1> QED
  BY <1>4, <1>5

LEMMA CommitClaims ==
  ASSUME Inv, History, ClaimsInv, NEW s \in Sessions, Commit(s)
  PROVE  ClaimsInv'
<1>1. /\ pc'[s] = "done" /\ \A q \in Sessions \ {s} : pc'[q] = pc[q] /\ tx'[q] = tx[q]
      /\ \A e \in Sessions : \A q \in Sessions \ {s} : rowLock[e] = q => rowLock'[e] = q
      /\ req' = req
  BY GoFrame, DropWorkFrame DEF Commit
<1>2. Claims(s)'
  BY <1>1, DropWorkFrame
  DEF Commit, Claims, InsClaim, UpdClaim, ReversalClaim, BeforeInsert
<1>3. ASSUME NEW q \in Sessions, q # s PROVE Claims(q)'
  <2>1. pc'[q] = pc[q] /\ tx'[q] = tx[q] /\ Claims(q)
        /\ Target(q)' = Target(q) /\ Reversing(q)' = Reversing(q)
    BY <1>1, <1>3 DEF ClaimsInv, Target, Reversing
  <2>2. Reversing(q) => Target(q) \in Sessions
    BY RequestFacts DEF Inv, Reversing
  \* The target of q is q's own: s neither changed nor reversed it.
  <2>3. ASSUME Reversing(q), Alone(q)
        PROVE  Alone(q)' /\ je'[Target(q)] = je[Target(q)]
    <3>1. je'[Target(q)] = je[Target(q)]
      BY <1>3, <2>2, <2>3, CommitRows DEF Alone, Exists
    <3>2. ~Adds(s, Target(q))
      BY <1>3, <2>3 DEF Adds, Alone, ClaimsInv, Claims, ReversalClaim
    <3>3. ReversalsOf(Target(q))' = {}
      BY <2>1, <2>2, <2>3, <3>2, CommitReversals DEF Alone, ReversalsOf
    <3> QED
      BY <1>1, <1>3, <2>1, <2>2, <2>3, <3>1, <3>3 DEF Alone
  <2>4. Reversing(q) /\ ReversalsOf(Target(q)) # {} => ReversalsOf(Target(q))' # {}
    BY <2>1, <2>2, CommitReversals DEF ReversalsOf
  <2>5. InsClaim(q)'
    BY <1>1, <2>1, <2>3 DEF Claims, InsClaim, ReversalClaim, Undone
  <2>6. UpdClaim(q)'
    BY <1>1, <2>1 DEF Claims, UpdClaim, Keyed, KeyedBy, Target
  <2>7. ReversalClaim(q)'
    BY <2>1, <2>3, <2>4 DEF Claims, ReversalClaim, Settled
  <2> QED
    BY <2>5, <2>6, <2>7 DEF Claims
<1>4. KeysIdentifyRequests'
  BY DEF ClaimsInv, KeysIdentifyRequests
<1> QED
  BY <1>2, <1>3, <1>4, CommitOnce, CommitProvenance DEF ClaimsInv

LEMMA InitClaims == Init /\ KeysIdentifyRequests => ClaimsInv
<1> SUFFICES ASSUME Init, KeysIdentifyRequests PROVE ClaimsInv
  OBVIOUS
<1>1. ASSUME NEW s \in Sessions
      PROVE  /\ pc[s] \in {"probe", "precheck", "pread"}
             /\ je[s] = NoRow /\ tx[s] = EmptyTx
  <2>1. req[s] \in RequestType
    BY RequestsAssumption DEF Init
  <2> QED
    BY <2>1 DEF Init, FirstStep, RequestType, Ops
<1>2. ~Exists(NoRow) /\ NoRow.key = NoKey /\ NoRow.status # "reversed"
      /\ EmptyTx.ins = NoRow /\ EmptyTx.upd = NoRow
  BY DEF NoRow, EmptyTx, Exists
<1>3. \A t \in Sessions : ReversalsOf(t) = {}
  BY <1>1, <1>2 DEF ReversalsOf
<1>4. ReversedOnce
  BY <1>1, <1>2, <1>3 DEF ReversedOnce
<1>5. ASSUME NEW s \in Sessions PROVE Provenance(s) /\ Claims(s)
  BY <1>1, <1>2
  DEF Provenance, Keyed, Claims, InsClaim, UpdClaim, ReversalClaim, BeforeInsert
<1> QED
  BY <1>4, <1>5 DEF ClaimsInv

LEMMA NextClaims == Inv /\ History /\ ClaimsInv /\ [Next]_vars => ClaimsInv'
<1> SUFFICES ASSUME Inv, History, ClaimsInv, [Next]_vars PROVE ClaimsInv'
  OBVIOUS
<1>1. ASSUME NEW s \in Sessions, Step(s) PROVE ClaimsInv'
  BY <1>1, ProbeClaims, PrecheckClaims, ReverseKeyClaims, ReadDraftClaims,
     WriteKeyClaims, LockTargetClaims, LookupClaims, CheckPeriodClaims,
     TakeNumberClaims, InsertClaims, RecheckClaims, ApplyLineClaims,
     FlipClaims, MarkReversedClaims, CommitClaims DEF Step
<1>2. ASSUME NEW s \in Sessions, Abort(s) \/ BreakDeadlock(s) PROVE ClaimsInv'
  BY <1>2, RollbackClaims DEF Abort, BreakDeadlock
<1>3. ASSUME UNCHANGED <<je, rowLock, req, pc, tx>> PROVE ClaimsInv'
  <2>1. KeysIdentifyRequests' /\ ReversedOnce'
    BY <1>3 DEF ClaimsInv, KeysIdentifyRequests, ReversedOnce, ReversalsOf, Foreign
  <2>2. ASSUME NEW s \in Sessions PROVE Provenance(s)' /\ Claims(s)'
    BY <1>3 DEF ClaimsInv, Provenance, Claims, InsClaim, UpdClaim, ReversalClaim, Keyed,
       KeyedBy, Alone, Settled, ReversalsOf, Reversing, Target, Undone
  <2> QED
    BY <2>1, <2>2 DEF ClaimsInv
<1>4. ASSUME NEW d \in Dates, ClosePeriod(d) \/ ReopenPeriod(d) PROVE ClaimsInv'
  BY <1>3, <1>4 DEF ClosePeriod, ReopenPeriod, locks
<1>5. CASE UNCHANGED vars
  BY <1>3, <1>5 DEF vars, locks
<1> QED
  BY <1>1, <1>2, <1>4, <1>5 DEF Next

\* However voids, reversals and retries of one entry overlap, roll back or
\* lose their lock to an IntegrityError, one reversal is committed, together
\* with the mark on the original, provided that a key names one operation
\* (reverse_journal_entry, uq_je_source).
THEOREM OneReversal == KeysIdentifyRequests /\ Spec => []ReversedOnce
<1>1. ClaimsInv => ReversedOnce
  BY DEF ClaimsInv
<1> QED
  BY InitInv, NextInv, InitHistory, NextHistory, InitClaims, NextClaims, <1>1, PTL
  DEF Spec

(***************************************************************************)
(* The abstract ledger                                                     *)
(*                                                                         *)
(* Only Commit changes what JournalLedger sees.  That it then is one of    *)
(* the ledger's steps needs the balances as well: a session that posts     *)
(* has locked every account its entry touches, and nothing else, and has   *)
(* computed the new balance from one that is still committed.              *)
(***************************************************************************)
Paying == {"lines", "mark", "commit"}

HoldsNone(s) == \A a \in Accounts : acctLock[a] # s
Covered(s, row) == \A a \in Accounts : row.lines[a] # 0 => acctLock[a] = s

Computed(s) ==
  \A a \in Accounts :
    acctLock[a] = s => /\ pc[s] \in Paying
                       /\ tx[s].newBal[a] = bal[a] + Posting(s).lines[a]

\* What is not applied yet is still to do.
Remaining(s) ==
  pc[s] = "lines" =>
    /\ Posting(s).status = "posted"
    /\ req[s].op = "post" => je[Target(s)].status = "draft"
    /\ \A a \in Accounts :
         Posting(s).lines[a] # 0 /\ acctLock[a] # s => a \in tx[s].todo

\* All of it, or nothing, once the lines are done.
Applied(s) ==
  pc[s] \in {"mark", "commit"} =>
    /\ req[s].op # "post" => IF tx[s].ins.status = "posted"
                             THEN Covered(s, tx[s].ins) ELSE HoldsNone(s)
    /\ req[s].op = "post" =>
         \/ HoldsNone(s) /\ (Exists(tx[s].upd) => je[Target(s)].status = "posted")
         \/ /\ Exists(tx[s].upd) /\ Covered(s, tx[s].upd)
            /\ je[Target(s)].status = "draft"

\* A draft with a new key is otherwise the committed one.
Copied(s) ==
  req[s].op = "post" /\ pc[s] = "lock" /\ Exists(tx[s].upd)
  => tx[s].upd.status = je[Target(s)].status

Money(s) == Computed(s) /\ Remaining(s) /\ Applied(s) /\ Copied(s)
MoneyInv == \A s \in Sessions : Money(s)
\* What a step of s that commits nothing must not disturb.
MoneyFrame(s) ==
  /\ Frame(s) /\ UNCHANGED bal
  /\ \A a \in Accounts, q \in Sessions \ {s} : acctLock'[a] = q <=> acctLock[a] = q

LEMMA FrameMoney ==
  ASSUME Inv, MoneyInv, NEW s \in Sessions, MoneyFrame(s), Money(s)'
  PROVE  MoneyInv'
<1> SUFFICES ASSUME NEW q \in Sessions, q # s PROVE Money(q)'
  BY DEF MoneyInv
<1>1. /\ pc'[q] = pc[q] /\ tx'[q] = tx[q] /\ je' = je /\ req' = req /\ bal' = bal
      /\ \A a \in Accounts : acctLock'[a] = q <=> acctLock[a] = q
      /\ Money(q)
  BY DEF MoneyFrame, Frame, MoneyInv
<1>2. Target(q)' = Target(q) /\ Posting(q)' = Posting(q)
  BY <1>1 DEF Target, Posting
<1>3. HoldsNone(q)' <=> HoldsNone(q)
  BY <1>1 DEF HoldsNone
<1>4. /\ Covered(q, tx[q].ins)' <=> Covered(q, tx[q].ins)
      /\ Covered(q, tx[q].upd)' <=> Covered(q, tx[q].upd)
  BY <1>1 DEF Covered
<1>5. Computed(q)' /\ Remaining(q)'
  BY <1>1, <1>2 DEF Money, Computed, Remaining
<1>6. Applied(q)' /\ Copied(q)'
  BY <1>1, <1>2, <1>3, <1>4 DEF Money, Applied, Copied
<1> QED
  BY <1>5, <1>6 DEF Money

\* The locks of the others stay when s drops its own.
LEMMA DropWorkLocks ==
  ASSUME Inv, NEW s \in Sessions, DropWork(s)
  PROVE  /\ \A a \in Accounts, q \in Sessions \ {s} :
              acctLock'[a] = q <=> acctLock[a] = q
         /\ \A a \in Accounts : acctLock'[a] # s
  BY NamesAssumption DEF DropWork, ReleaseLocks, Inv, TypeOK

LEMMA EmptyHanded ==
  ASSUME NEW s \in Sessions, MoneyInv, pc[s] \notin Paying
  PROVE  HoldsNone(s)
  BY DEF MoneyInv, Money, Computed, HoldsNone

LEMMA RollbackMoney ==
  ASSUME Inv, MoneyInv, NEW s \in Sessions, Rollback(s)
  PROVE  MoneyInv'
<1>1. /\ pc'[s] = "done" /\ \A q \in Sessions \ {s} : pc'[q] = pc[q]
      /\ UNCHANGED <<je, req, bal>>
  BY GoFrame DEF Rollback
<1>2. MoneyFrame(s)
  BY <1>1, DropWorkFrame, DropWorkLocks DEF Rollback, Frame, MoneyFrame
<1>3. Money(s)'
  BY <1>1, DropWorkLocks DEF Rollback, Money, Computed, Remaining, Applied, Copied
<1> QED
  BY <1>2, <1>3, FrameMoney

\* A step before the lines, that changes no balance.
LEMMA QuietMoney ==
  ASSUME Inv, MoneyInv, NEW s \in Sessions, NEW step, Go(s, step),
         pc[s] \notin Paying, step # "lines", Frame(s), UNCHANGED <<bal, acctLock>>,
         step \in {"mark", "commit"} /\ req[s].op # "post"
           => tx'[s].ins.status # "posted",
         step \in {"mark", "commit"} /\ req[s].op = "post" /\ Exists(tx'[s].upd)
           => je[Target(s)].status = "posted",
         step = "lock" /\ req[s].op = "post" /\ Exists(tx'[s].upd)
           => tx'[s].upd.status = je[Target(s)].status
  PROVE  MoneyInv'
<1>1. pc'[s] = step /\ je' = je /\ req' = req /\ Target(s)' = Target(s)
  BY GoFrame DEF Frame, Target
<1>2. HoldsNone(s) /\ HoldsNone(s)'
  BY EmptyHanded DEF HoldsNone
<1>3. MoneyFrame(s)
  BY DEF MoneyFrame
<1>4. Computed(s)'
  BY <1>2 DEF Computed, HoldsNone
<1>5. Remaining(s)' /\ Applied(s)' /\ Copied(s)'
  BY <1>1, <1>2 DEF Remaining, Applied, Copied
<1> QED
  BY <1>3, <1>4, <1>5, FrameMoney DEF Money

\* The same where nothing is written.
LEMMA ReadMoney ==
  ASSUME Inv, History, ClaimsInv, MoneyInv, NEW s \in Sessions, NEW step, Go(s, step),
         NothingWritten, pc[s] \notin Paying \cup {"lock"}, step # "lines",
         step \in {"mark", "commit", "lock"} /\ req[s].op = "post"
           => ~Exists(tx[s].upd)
  PROVE  MoneyInv'
<1>1. UNCHANGED <<je, req, tx, bal, rowLock, acctLock>>
  BY DEF NothingWritten, locks
<1>2. Frame(s)
  BY <1>1, GoFrame DEF Frame
<1>3. tx[s].ins.status # "posted"
  BY NotYet DEF Paying, Exists
<1> QED
  BY <1>1, <1>2, <1>3, QuietMoney

LEMMA ReturnMoney ==
  ASSUME Inv, History, ClaimsInv, MoneyInv, NEW s \in Sessions, NEW e \in Sessions,
         ReturnExisting(s, e), NothingWritten,
         pc[s] \in {"key", "source", "recheck"}
  PROVE  MoneyInv'
<1>1. req[s].op # "post" /\ \E step \in {"mark", "commit"} : Go(s, step)
  BY WhoIsAt DEF ReturnExisting
<1> QED
  BY <1>1, ReadMoney DEF Paying

LEMMA ReadersMoney ==
  ASSUME Inv, History, ClaimsInv, MoneyInv, NEW s \in Sessions,
         \/ Probe(s) \/ ReverseKey(s) \/ ReadDraft(s) \/ LookupKey(s)
         \/ LookupSource(s) \/ CheckPeriod(s) \/ Recheck(s)
  PROVE  MoneyInv'
<1>1. CASE Rollback(s)
  BY <1>1, RollbackMoney
<1>2. CASE \E e \in Sessions : ReturnExisting(s, e) /\ NothingWritten
           /\ pc[s] \in {"key", "source", "recheck"}
  BY <1>2, ReturnMoney
<1>3. CASE /\ NothingWritten /\ pc[s] \in {"probe", "rkey", "pread", "key", "source", "period"}
           /\ \E step \in {"commit", "precheck", "lock", "pkey", "source", "period",
                           "flip", "number"} :
                /\ Go(s, step)
                /\ step \in {"commit", "lock"} => pc[s] \in {"probe", "rkey", "pread"}
  <2>1. req[s].op = "post" /\ pc[s] \in {"probe", "rkey", "pread"} => ~Exists(tx[s].upd)
    BY WhoIsAt, NotYet DEF Reversing
  <2> QED
    BY <1>3, <2>1, ReadMoney DEF Paying
<1>4. CASE Probe(s) \/ ReverseKey(s)
  BY <1>3, <1>4 DEF Probe, ReverseKey, At
<1>5. CASE ReadDraft(s)
  BY <1>1, <1>3, <1>5 DEF ReadDraft, At
<1>6. CASE LookupKey(s) \/ LookupSource(s)
  BY <1>2, <1>3, <1>6, KeysAndSourcesNameSessions DEF LookupKey, LookupSource, At
<1>7. CASE CheckPeriod(s)
  BY <1>1, <1>3, <1>7 DEF CheckPeriod, At
<1>8. CASE Recheck(s)
  BY <1>1, <1>2, <1>8, KeysAndSourcesNameSessions DEF Recheck, At
<1> QED
  BY <1>4, <1>5, <1>6, <1>7, <1>8

LEMMA PrecheckMoney ==
  ASSUME Inv, History, ClaimsInv, MoneyInv, NEW s \in Sessions, Precheck(s) PROVE MoneyInv'
<1>1. CASE Rollback(s)
  BY <1>1, RollbackMoney
<1>2. CASE ~Rollback(s)
  <2>1. /\ tx' = [tx EXCEPT ![s].doc = req[s].op = "create" /\ req[s].doc # NoDoc]
        /\ UNCHANGED <<je, req, rowLock, acctLock, bal>> /\ pc[s] = "precheck"
        /\ \E step \in {"rkey", "key"} : Go(s, step)
    BY <1>2 DEF Precheck, locks, At
  <2>2. \A q \in Sessions \ {s} : tx'[q] = tx[q]
    BY <2>1 DEF Inv, TypeOK
  <2>3. Frame(s)
    BY <2>1, <2>2, GoFrame DEF Frame
  <2> QED
    BY <2>1, <2>3, QuietMoney DEF Paying
<1> QED
  BY <1>1, <1>2

LEMMA TakeNumberMoney ==
  ASSUME Inv, History, ClaimsInv, MoneyInv, NEW s \in Sessions, TakeNumber(s) PROVE MoneyInv'
<1>1. /\ UNCHANGED <<je, req, tx, bal, rowLock, acctLock>>
      /\ pc[s] = "number" /\ Go(s, "insert")
  BY DEF TakeNumber, At, KeepCommitted
<1>2. Frame(s)
  BY <1>1, GoFrame DEF Frame
<1> QED
  BY <1>1, <1>2, QuietMoney DEF Paying

LEMMA InsertMoney ==
  ASSUME Inv, History, ClaimsInv, MoneyInv, NEW s \in Sessions, Insert(s) PROVE MoneyInv'
<1>1. pc[s] = "insert" /\ req[s].op # "post" /\ UNCHANGED <<je, req, bal>>
  BY WhoIsAt DEF Insert, At, KeepCommitted
<1>2. CASE DropWork(s) /\ Go(s, "recheck")
  <2>1. /\ pc'[s] = "recheck" /\ \A q \in Sessions \ {s} : pc'[q] = pc[q]
    BY <1>2, GoFrame
  <2>2. MoneyFrame(s)
    BY <1>1, <1>2, <2>1, DropWorkFrame, DropWorkLocks DEF Frame, MoneyFrame
  <2>3. Money(s)'
    BY <1>1, <1>2, <2>1, DropWorkLocks DEF Money, Computed, Remaining, Applied, Copied
  <2> QED
    BY <2>2, <2>3, FrameMoney
<1>3. CASE /\ NewRow(s).status = "draft" /\ tx' = [tx EXCEPT ![s].ins = NewRow(s)]
           /\ Go(s, "commit") /\ UNCHANGED locks
  <2>1. tx'[s].ins = NewRow(s) /\ \A q \in Sessions \ {s} : tx'[q] = tx[q]
    BY <1>3 DEF Inv, TypeOK, TxType
  <2>2. Frame(s)
    BY <1>1, <1>3, <2>1, GoFrame DEF Frame, locks
  <2> QED
    BY <1>1, <1>3, <2>1, <2>2, QuietMoney DEF Paying, locks
<1>4. ASSUME NEW a \in Touched(NewRow(s).lines), Go(s, "lines"), UNCHANGED locks,
             NewRow(s).status = "posted",
             tx' = [tx EXCEPT ![s].ins = NewRow(s),
                              ![s].todo = Touched(NewRow(s).lines), ![s].at = a]
      PROVE  MoneyInv'
  <2>1. /\ tx'[s].ins = NewRow(s) /\ tx'[s].todo = Touched(NewRow(s).lines)
        /\ \A q \in Sessions \ {s} : tx'[q] = tx[q]
    BY <1>4 DEF Inv, TypeOK, TxType
  <2>2. pc'[s] = "lines" /\ \A q \in Sessions \ {s} : pc'[q] = pc[q]
    BY <1>4, GoFrame
  <2>3. MoneyFrame(s)
    BY <1>1, <1>4, <2>1, <2>2 DEF Frame, MoneyFrame, locks
  <2>4. HoldsNone(s)' /\ Posting(s)' = NewRow(s)
    BY <1>1, <1>4, <2>1, EmptyHanded DEF HoldsNone, Posting, Paying, locks
  <2>5. Remaining(s)'
    BY <1>1, <1>4, <2>1, <2>4 DEF Remaining, Touched
  <2>6. Computed(s)' /\ Applied(s)' /\ Copied(s)'
    BY <2>2, <2>4 DEF Computed, HoldsNone, Applied, Copied
  <2> QED
    BY <2>3, <2>5, <2>6, FrameMoney DEF Money
<1> QED
  BY <1>2, <1>3, <1>4 DEF Insert

LEMMA FlipMoney ==
  ASSUME Inv, History, ClaimsInv, MoneyInv, NEW s \in Sessions, Flip(s) PROVE MoneyInv'
<1> DEFINE new == [Row(s) EXCEPT !.status = "posted"]
<1>1. /\ pc[s] = "flip" /\ req[s].op = "post" /\ Row(s) \in Entry
      /\ Row(s).status = "draft" /\ Held(s)
  BY WhoIsAt, RowType DEF Flip, At, Inv, History, Held
<1>2. CASE Rollback(s)
  BY <1>2, RollbackMoney
<1>3. ASSUME NEW a \in Touched(Row(s).lines),
             tx' = [tx EXCEPT ![s].upd = new, ![s].todo = Touched(Row(s).lines),
                              ![s].at = a],
             Go(s, "lines"), KeepCommitted, UNCHANGED locks
      PROVE  MoneyInv'
  <2>1. /\ tx'[s].upd = new /\ tx'[s].todo = Touched(Row(s).lines)
        /\ \A q \in Sessions \ {s} : tx'[q] = tx[q]
    BY <1>3 DEF Inv, TypeOK, TxType
  <2>2. pc'[s] = "lines" /\ \A q \in Sessions \ {s} : pc'[q] = pc[q]
    BY <1>3, GoFrame
  <2>3. MoneyFrame(s) /\ UNCHANGED <<je, req>>
    BY <1>3, <2>1, <2>2 DEF Frame, MoneyFrame, KeepCommitted, locks
  <2>4. new.status = "posted" /\ new.lines = Row(s).lines
    BY <1>1 DEF Entry
  <2>5. je[Target(s)].status = "draft"
    BY <1>1 DEF Held, Row, Follows
  <2>6. HoldsNone(s)' /\ tx'[s].upd.lines = Row(s).lines /\ tx'[s].upd.status = "posted"
    BY <1>1, <1>3, <2>1, <2>4, EmptyHanded DEF HoldsNone, Paying, locks
  <2>7. Remaining(s)'
    BY <1>1, <2>1, <2>3, <2>5, <2>6 DEF Remaining, Touched, Posting, Target
  <2>8. Computed(s)' /\ Applied(s)' /\ Copied(s)'
    BY <2>2, <2>6 DEF Computed, HoldsNone, Applied, Copied
  <2> QED
    BY <2>3, <2>7, <2>8, FrameMoney DEF Money
<1> QED
  BY <1>2, <1>3 DEF Flip

LEMMA WriteKeyMoney ==
  ASSUME Inv, History, ClaimsInv, MoneyInv, NEW s \in Sessions, WriteKey(s) PROVE MoneyInv'
<1> DEFINE new == [je[Target(s)] EXCEPT !.key = req[s].key]
<1>1. /\ pc[s] = "pkey" /\ req[s].op = "post"
      /\ Target(s) \in Sessions /\ je[Target(s)] \in Entry
  BY WhoIsAt, RequestFacts, RowType DEF WriteKey, At, Inv
<1>2. CASE Go(s, "lock") /\ NothingWritten
  BY <1>1, <1>2, NotYet, ReadMoney DEF Paying
<1>3. CASE Rollback(s)
  BY <1>3, RollbackMoney
<1>4. CASE /\ RowFree(s) /\ TakeRow(s) /\ Update(s, new)
           /\ Go(s, "lock") /\ KeepCommitted /\ UNCHANGED acctLock
  <2>1. tx'[s].upd = new /\ \A q \in Sessions \ {s} : tx'[q] = tx[q]
    BY <1>4 DEF Update, Inv, TypeOK, TxType
  <2>2. Frame(s) /\ UNCHANGED bal
    BY <1>1, <1>4, <2>1, TakeRowFrame DEF KeepCommitted
  <2>3. new.status = je[Target(s)].status
    BY <1>1 DEF Entry
  <2> QED
    BY <1>1, <1>4, <2>1, <2>2, <2>3, QuietMoney DEF Paying
<1> QED
  BY <1>2, <1>3, <1>4 DEF WriteKey

LEMMA LockTargetMoney ==
  ASSUME Inv, History, ClaimsInv, MoneyInv, NEW s \in Sessions, LockTarget(s) PROVE MoneyInv'
<1>1. /\ pc[s] = "lock" /\ RowFree(s) /\ Target(s) \in Sessions
  BY WhoIsAt, RequestFacts DEF LockTarget, At, Inv, Reversing
<1>2. CASE Rollback(s)
  BY <1>2, RollbackMoney
<1>3. ASSUME NEW step \in {"key", "period", "commit"}, TakeRow(s), Go(s, step),
             KeepCommitted, UNCHANGED <<acctLock, tx>>,
             step = "commit" => req[s].op = "post" /\ Row(s).status = "posted"
      PROVE  MoneyInv'
  <2>1. Frame(s) /\ UNCHANGED bal
    BY <1>1, <1>3, TakeRowFrame DEF KeepCommitted
  <2>2. step = "commit" /\ Exists(tx[s].upd) => je[Target(s)].status = "posted"
    BY <1>1, <1>3 DEF Row, MoneyInv, Money, Copied
  <2> QED
    BY <1>1, <1>3, <2>1, <2>2, QuietMoney DEF Paying
<1> QED
  BY <1>2, <1>3 DEF LockTarget

LEMMA MarkReversedMoney ==
  ASSUME Inv, History, ClaimsInv, MoneyInv, NEW s \in Sessions, MarkReversed(s) PROVE MoneyInv'
<1>1. /\ pc[s] = "mark" /\ Reversing(s) /\ req[s].op # "post" /\ Target(s) \in Sessions
  BY WhoIsAt, RequestFacts DEF MarkReversed, At, Reversing, Inv
<1>2. /\ tx'[s].ins = tx[s].ins /\ tx'[s].newBal = tx[s].newBal
      /\ \A q \in Sessions \ {s} : tx'[q] = tx[q]
  BY DEF MarkReversed, Update, Inv, TypeOK, TxType
<1>3. /\ Frame(s) /\ pc'[s] = "commit" /\ UNCHANGED <<je, req, bal, acctLock>>
  BY <1>1, <1>2, TakeRowFrame DEF MarkReversed, KeepCommitted
<1>4. MoneyFrame(s) /\ Money(s)
  BY <1>3 DEF MoneyFrame, MoneyInv
<1>5. Money(s)'
  BY <1>1, <1>2, <1>3, <1>4
  DEF Money, Computed, Remaining, Applied, Copied, Posting, Covered, HoldsNone, Paying
<1> QED
  BY <1>4, <1>5, FrameMoney

LEMMA ApplyLineMoney ==
  ASSUME Inv, History, ClaimsInv, MoneyInv, NEW s \in Sessions, ApplyLine(s) PROVE MoneyInv'
<1> DEFINE a == tx[s].at
           rest == tx[s].todo \ {a}
<1>1. /\ pc[s] = "lines" /\ UNCHANGED <<je, req, bal, rowLock>> /\ a \in Accounts
      /\ acctLock[a] = NoSession /\ acctLock' = [acctLock EXCEPT ![a] = s]
      /\ \E next : tx' = [tx EXCEPT
                           ![s].newBal[a] = bal[a] + Posting(s).lines[a],
                           ![s].todo = rest, ![s].at = next]
      /\ \/ UNCHANGED pc
         \/ rest = {} /\ Go(s, IF Reversing(s) THEN "mark" ELSE "commit")
  BY DEF ApplyLine, At, AcctFree, KeepCommitted, Inv, StepsFit
<1>2. /\ tx'[s].upd = tx[s].upd /\ tx'[s].ins = tx[s].ins /\ tx'[s].todo = rest
      /\ tx'[s].newBal = [tx[s].newBal EXCEPT ![a] = bal[a] + Posting(s).lines[a]]
      /\ \A q \in Sessions \ {s} : tx'[q] = tx[q]
  BY <1>1 DEF Inv, TypeOK, TxType
<1>3. pc'[s] \in Paying /\ \A q \in Sessions \ {s} : pc'[q] = pc[q]
  BY <1>1, GoFrame DEF Paying
<1>4. /\ acctLock'[a] = s /\ \A b \in Accounts \ {a} : acctLock'[b] = acctLock[b]
      /\ MoneyFrame(s)
  <2>1. Frame(s)
    BY <1>1, <1>2, <1>3 DEF Frame
  <2> QED
    BY <1>1, <2>1, NamesAssumption DEF MoneyFrame, Inv, TypeOK
<1>5. /\ Posting(s)' = Posting(s) /\ Target(s)' = Target(s) /\ Reversing(s)' = Reversing(s)
  BY <1>1, <1>2 DEF Posting, Target, Reversing
<1>6. /\ Computed(s) /\ Remaining(s) /\ tx[s].newBal \in [Accounts -> Int]
  BY DEF MoneyInv, Money, Inv, TypeOK, TxType
<1>7. Computed(s)'
  BY <1>1, <1>2, <1>3, <1>4, <1>5, <1>6 DEF Computed
<1>8. Remaining(s)'
  BY <1>1, <1>2, <1>4, <1>5, <1>6 DEF Remaining
<1>9. Copied(s)'
  BY <1>3 DEF Copied, Paying
<1>10. Applied(s)'
  <2> SUFFICES ASSUME pc'[s] \in {"mark", "commit"} PROVE Applied(s)'
    BY DEF Applied
  <2>1. rest = {}
    BY <1>1
  <2>2. \A b \in Accounts : Posting(s).lines[b] # 0 => acctLock'[b] = s
    BY <1>1, <1>4, <1>6, <2>1 DEF Remaining
  <2>3. CASE req[s].op = "post"
    BY <1>1, <1>2, <1>5, <1>6, <2>2, <2>3
    DEF Applied, Remaining, Covered, Posting, Exists
  <2>4. CASE req[s].op # "post"
    BY <1>1, <1>2, <1>5, <1>6, <2>2, <2>4 DEF Applied, Remaining, Covered, Posting
  <2> QED
    BY <2>3, <2>4
<1> QED
  BY <1>4, <1>7, <1>8, <1>9, <1>10, FrameMoney DEF Money

LEMMA CommitMoney ==
  ASSUME Inv, History, ClaimsInv, MoneyInv, NEW s \in Sessions, Commit(s) PROVE MoneyInv'
<1>1. /\ pc'[s] = "done" /\ req' = req
      /\ \A q \in Sessions \ {s} : pc'[q] = pc[q] /\ tx'[q] = tx[q]
      /\ \A a \in Accounts, q \in Sessions \ {s} : acctLock'[a] = q <=> acctLock[a] = q
      /\ \A a \in Accounts : acctLock'[a] # s /\ (acctLock[a] # s => bal'[a] = bal[a])
  BY GoFrame, DropWorkFrame, DropWorkLocks DEF Commit
<1>2. Money(s)'
  BY <1>1 DEF Money, Computed, Remaining, Applied, Copied
<1>3. ASSUME NEW q \in Sessions, q # s PROVE Money(q)'
  <2>1. /\ pc'[q] = pc[q] /\ tx'[q] = tx[q] /\ Money(q) /\ Held(q)
        /\ Target(q)' = Target(q) /\ Posting(q)' = Posting(q)
        /\ HoldsNone(q)' <=> HoldsNone(q)
        /\ Covered(q, tx[q].ins)' <=> Covered(q, tx[q].ins)
        /\ Covered(q, tx[q].upd)' <=> Covered(q, tx[q].upd)
    BY <1>1, <1>3 DEF MoneyInv, History, Target, Posting, HoldsNone, Covered
  <2>2. req[q].op = "post" => Target(q) \in Sessions
    BY RequestFacts DEF Inv
  <2>3. req[q].op = "post" /\ Exists(tx[q].upd) => je'[Target(q)] = je[Target(q)]
    BY <1>3, <2>1, <2>2, CommitRows DEF Held
  <2>4. Computed(q)'
    BY <1>1, <1>3, <2>1 DEF Money, Computed
  <2>5. Remaining(q)'
    BY <1>1, <1>3, <2>1, <2>3 DEF Money, Remaining, Posting, Exists
  <2>6. Applied(q)' /\ Copied(q)'
    BY <1>1, <2>1, <2>3 DEF Money, Applied, Copied
  <2> QED
    BY <2>4, <2>5, <2>6 DEF Money
<1> QED
  BY <1>2, <1>3 DEF MoneyInv

LEMMA InitMoney == Init => MoneyInv
<1> SUFFICES ASSUME Init, NEW s \in Sessions PROVE Money(s)
  BY DEF MoneyInv
<1>1. req[s] \in RequestType
  BY RequestsAssumption DEF Init
<1>2. pc[s] \in {"probe", "precheck", "pread"}
  BY <1>1 DEF Init, FirstStep, RequestType, Ops
<1>3. \A a \in Accounts : acctLock[a] # s
  BY NamesAssumption DEF Init
<1> QED
  BY <1>2, <1>3 DEF Money, Computed, Remaining, Applied, Copied

LEMMA NextMoney == Inv /\ History /\ ClaimsInv /\ MoneyInv /\ [Next]_vars => MoneyInv'
<1> SUFFICES ASSUME Inv, History, ClaimsInv, MoneyInv, [Next]_vars PROVE MoneyInv'
  OBVIOUS
<1>1. ASSUME NEW s \in Sessions, Step(s) PROVE MoneyInv'
  BY <1>1, ReadersMoney, PrecheckMoney, WriteKeyMoney, LockTargetMoney,
     TakeNumberMoney, InsertMoney, ApplyLineMoney, FlipMoney, MarkReversedMoney,
     CommitMoney DEF Step
<1>2. ASSUME NEW s \in Sessions, Abort(s) \/ BreakDeadlock(s) PROVE MoneyInv'
  BY <1>2, RollbackMoney DEF Abort, BreakDeadlock
<1>3. ASSUME UNCHANGED <<je, bal, acctLock, req, pc, tx>> PROVE MoneyInv'
  BY <1>3 DEF MoneyInv, Money, Computed, Remaining, Applied, Copied, Posting, Target,
     Covered, HoldsNone
<1>4. ASSUME NEW d \in Dates, ClosePeriod(d) \/ ReopenPeriod(d) PROVE MoneyInv'
  BY <1>3, <1>4 DEF ClosePeriod, ReopenPeriod, locks
<1>5. CASE UNCHANGED vars
  BY <1>3, <1>5 DEF vars, locks
<1> QED
  BY <1>1, <1>2, <1>4, <1>5 DEF Next

(***************************************************************************)
(* Refinement                                                              *)
(***************************************************************************)
State   == [e \in Sessions |-> je[e].status]
Effects  == [e \in Sessions |-> je[e].lines]
Undoing == [e \in Sessions |-> IF je[e].source = "reversal" THEN je[e].sid
                                                            ELSE NoSession]
Abroad  == [e \in Sessions |-> Foreign(je[e])]

LEMMA InitLedger == Init => Ledger!LedgerInit
<1> SUFFICES ASSUME Init PROVE Ledger!LedgerInit
  OBVIOUS
<1>1. \A e \in Sessions : je[e] = NoRow
  BY DEF Init
<1>2. /\ NoRow.status = "none" /\ NoRow.lines = Zero /\ NoRow.source = "manual"
      /\ ~Foreign(NoRow)
  BY DEF NoRow, Foreign
<1>3. bal = Zero
  BY DEF Init
<1>4. [e \in Sessions |-> Foreign(je[e])] = [e \in Sessions |-> FALSE]
  BY <1>1, <1>2 DEF Foreign
<1>5. /\ [e \in Sessions |-> je[e].status] = [e \in Sessions |-> "none"]
      /\ [e \in Sessions |-> je[e].lines] = [e \in Sessions |-> Zero]
      /\ [e \in Sessions |-> IF je[e].source = "reversal" THEN je[e].sid ELSE NoSession]
           = [e \in Sessions |-> NoSession]
  BY <1>1, <1>2
<1> QED
  BY <1>3, <1>4, <1>5, Zenon DEF Ledger!LedgerInit, Zero, Ledger!Zero

\* Where no row and no balance changes, the ledger does not.
LEMMA LedgerStutters ==
  ASSUME UNCHANGED <<je, bal>> PROVE UNCHANGED Ledger!ledgerVars
  BY DEF Ledger!ledgerVars, Foreign

\* What a commit does to the balances.
LEMMA CommitBalances ==
  ASSUME Inv, History, ClaimsInv, MoneyInv, NEW s \in Sessions, Commit(s)
  PROVE  /\ HoldsNone(s) => bal' = bal
         /\ Covered(s, Posting(s)) /\ Posting(s).lines \in [Accounts -> Int]
            => bal' = [a \in Accounts |-> bal[a] + Posting(s).lines[a]]
<1>1. bal' = [a \in Accounts |-> IF acctLock[a] = s THEN tx[s].newBal[a] ELSE bal[a]]
  BY DEF Commit
<1>2. bal \in [Accounts -> Int] /\ Computed(s)
  BY DEF Inv, TypeOK, MoneyInv, Money
<1>3. HoldsNone(s) => bal' = bal
  BY <1>1, <1>2 DEF HoldsNone
<1>4. ASSUME Covered(s, Posting(s)), Posting(s).lines \in [Accounts -> Int],
             NEW a \in Accounts
      PROVE  bal'[a] = bal[a] + Posting(s).lines[a]
  <2>1. CASE acctLock[a] = s
    BY <1>1, <1>2, <2>1 DEF Computed
  <2>2. CASE acctLock[a] # s
    BY <1>1, <1>2, <1>4, <2>2 DEF Covered
  <2> QED
    BY <2>1, <2>2
<1>5. \A a \in Accounts :
        Covered(s, Posting(s)) /\ Posting(s).lines \in [Accounts -> Int]
        => bal'[a] = bal[a] + Posting(s).lines[a]
  BY <1>4
<1> QED
  BY <1>1, <1>3, <1>5

\* The row of a created entry is recorded, as a draft or posted.
LEMMA CreateRefines ==
  ASSUME Inv, History, ClaimsInv, MoneyInv, NEW s \in Sessions, Commit(s), req[s].op = "create"
  PROVE  [Ledger!LedgerNext]_Ledger!ledgerVars
<1>1. /\ pc[s] = "commit" /\ ~Exists(tx[s].upd) /\ Claims(s) /\ Money(s)
      /\ ~Reversing(s) /\ Posting(s) = tx[s].ins /\ tx[s].ins \in Entry
  BY NotYet DEF Commit, At, ClaimsInv, MoneyInv, Reversing, Posting, Inv, TypeOK, TxType
<1>2. /\ je \in [Sessions -> Entry] /\ je' \in [Sessions -> Entry]
      /\ \A e \in Sessions \ {s} : je'[e] = je[e]
      /\ je'[s] = IF Exists(tx[s].ins) THEN tx[s].ins ELSE je[s]
      /\ je[s] = NoRow
  BY <1>1, CommitRows, CommitInv DEF Inv, TypeOK, ClaimsInv, Provenance
<1>3. NoRow.status = "none" /\ NoRow.source = "manual"
  BY DEF NoRow
<1>4. CASE ~Exists(tx[s].ins)
  <2>1. je' = je
    BY <1>2, <1>4
  <2>2. bal' = bal
    BY <1>1, <1>4, CommitBalances DEF Money, Applied, Exists
  <2> QED
    BY <2>1, <2>2, LedgerStutters
<1>5. CASE Exists(tx[s].ins)
  <2>1. /\ je'[s] = tx[s].ins /\ tx[s].ins.source # "reversal"
        /\ tx[s].ins.status \in {"draft", "posted"}
    BY <1>1, <1>2, <1>5 DEF Claims, InsClaim, Entry, Statuses, Exists
  <2>2. State' = [State EXCEPT ![s] = tx[s].ins.status] /\ State[s] = "none"
    BY <1>2, <1>3, <2>1 DEF State
  <2>6. /\ Effects' = [Effects EXCEPT ![s] = tx[s].ins.lines]
        /\ Effects'[s] = tx[s].ins.lines /\ tx[s].ins.lines \in [Accounts -> Int]
    BY <1>1, <1>2, <2>1 DEF Effects, Entry
  <2>7. Undoing' = Undoing
    BY <1>2, <1>3, <2>1 DEF Undoing
  <2>5. Abroad' = [Abroad EXCEPT ![s] = Abroad'[s]]
    <3>1. \A e \in Sessions \ {s} : Foreign(je[e])' = Foreign(je[e])
      BY <1>2 DEF Foreign
    <3> QED
      BY <3>1 DEF Abroad
  <2>3. CASE tx[s].ins.status = "draft"
    <3>1. bal' = bal
      BY <1>1, <2>3, CommitBalances DEF Money, Applied
    <3>2. Ledger!RecordDraft(s)
      BY <2>2, <2>3, <2>5, <2>6, <2>7, <3>1
      DEF Ledger!RecordDraft, Ledger!SomeLines, State, Effects, Abroad, Undoing
    <3> QED
      BY <3>2 DEF Ledger!LedgerNext
  <2>4. CASE tx[s].ins.status = "posted"
    <3>1. bal' = [a \in Accounts |-> bal[a] + tx[s].ins.lines[a]]
      BY <1>1, <2>6, <2>4, CommitBalances DEF Money, Applied
    <3>2. Ledger!RecordPosted(s)
      BY <2>2, <2>4, <2>5, <2>6, <2>7, <3>1
      DEF Ledger!RecordPosted, Ledger!SomeLines, Ledger!Apply, State, Effects,
          Abroad, Undoing
    <3> QED
      BY <3>2 DEF Ledger!LedgerNext
  <2> QED
    BY <2>1, <2>3, <2>4
<1> QED
  BY <1>4, <1>5

\* A draft is posted, or gets a key, which the ledger does not see.
LEMMA PostRefines ==
  ASSUME Inv, History, ClaimsInv, MoneyInv, NEW s \in Sessions, Commit(s), req[s].op = "post"
  PROVE  [Ledger!LedgerNext]_Ledger!ledgerVars
<1>0. PICK t \in Sessions : t = Target(s)
  BY RequestFacts DEF Inv
<1>1. /\ pc[s] = "commit" /\ ~Exists(tx[s].ins) /\ Claims(s) /\ Money(s) /\ Held(s)
      /\ Posting(s) = tx[s].upd /\ tx[s].upd \in Entry 
  BY <1>0, NotYet
  DEF Commit, At, ClaimsInv, MoneyInv, History, Posting, Inv, TypeOK, TxType
<1>2. /\ je \in [Sessions -> Entry] /\ je' \in [Sessions -> Entry]
      /\ \A e \in Sessions \ {t} : je'[e] = je[e]
      /\ je'[t] = IF Exists(tx[s].upd) THEN tx[s].upd ELSE je[t]
  BY <1>0, <1>1, CommitRows, CommitInv DEF Inv, TypeOK, Held
<1>3. CASE ~Exists(tx[s].upd)
  <2>1. je' = je
    BY <1>2, <1>3
  <2>2. bal' = bal
    BY <1>1, <1>3, CommitBalances DEF Money, Applied
  <2> QED
    BY <2>1, <2>2, LedgerStutters
<1>4. CASE Exists(tx[s].upd)
  <2>1. /\ je'[t].lines = je[t].lines /\ je'[t].rate = je[t].rate
        /\ je'[t].source = je[t].source /\ je'[t].sid = je[t].sid
        /\ je'[t].status = "posted"
    BY <1>0, <1>1, <1>2, <1>4 DEF Held, Follows, Claims, UpdClaim
  <2>2. /\ State' = [State EXCEPT ![t] = "posted"] /\ Effects' = Effects
        /\ Abroad' = Abroad /\ Undoing' = Undoing
    BY <1>1, <1>2, <2>1 DEF State, Effects, Abroad, Undoing, Foreign
  <2>3. CASE je[t].status = "draft" /\ Covered(s, tx[s].upd)
    <3>1. bal' = [a \in Accounts |-> bal[a] + tx[s].upd.lines[a]]
      BY <1>1, <2>3, CommitBalances DEF Entry
    <3>2. /\ bal' = [a \in Accounts |-> bal[a] + Effects[t][a]] /\ State[t] = "draft"
      BY <1>1, <1>2, <1>4, <2>1, <2>3, <3>1 DEF Effects, State
    <3>3. Ledger!Post(t)
      BY <2>2, <3>2 DEF Ledger!Post, Ledger!Apply, State, Effects, Abroad, Undoing
    <3>4. \E e \in Sessions : Ledger!Post(e)
      BY <1>1, <3>3
    <3> QED
      BY <3>4 DEF Ledger!LedgerNext
  <2>4. CASE je[t].status = "posted" /\ HoldsNone(s)
    <3>1. State' = State
      BY <1>1, <2>2, <2>4 DEF State
    <3>2. bal' = bal
      BY <2>4, CommitBalances
    <3> QED
      BY <2>2, <3>1, <3>2 DEF Ledger!ledgerVars, State, Effects, Abroad, Undoing
  <2> QED
    BY <1>0, <1>1, <1>4, <2>3, <2>4 DEF Money, Applied
<1> QED
  BY <1>3, <1>4

LEMMA ZeroProducts ==
  ASSUME NEW n \in Nat \ {0}, NEW x \in Int
  PROVE  x = 0 <=> n * (-x) = 0
  OBVIOUS

\* The reversal and the mark are one step of the ledger.
LEMMA ReversalRefines ==
  ASSUME Inv, History, ClaimsInv, MoneyInv, NEW s \in Sessions, Commit(s), Reversing(s)
  PROVE  [Ledger!LedgerNext]_Ledger!ledgerVars
<1> DEFINE t == Target(s)
<1>1. /\ pc[s] = "commit" /\ Claims(s) /\ Money(s) /\ Held(s)
      /\ req[s].op \notin {"post", "create"}
      /\ Posting(s) = tx[s].ins /\ tx[s].ins \in Entry /\ t \in Sessions
  BY RequestFacts
  DEF Commit, At, ClaimsInv, MoneyInv, History, Posting, Reversing, Inv, TypeOK, TxType
<1>2. /\ je \in [Sessions -> Entry] /\ je' \in [Sessions -> Entry]
      /\ \A e \in Sessions \ {s, t} : je'[e] = je[e]
      /\ je'[s] = IF Exists(tx[s].ins) THEN tx[s].ins ELSE je[s]
      /\ je[s] = NoRow
      /\ t # s => je'[t] = IF Exists(tx[s].upd) THEN tx[s].upd ELSE je[t]
      /\ Exists(tx[s].upd) => t # s
  BY <1>1, CommitRows, CommitInv DEF Inv, TypeOK, ClaimsInv, Provenance, Held
<1>3. Exists(tx[s].upd) =>
        /\ je'[t].lines = je[t].lines /\ je'[t].rate = je[t].rate
        /\ je'[t].source = je[t].source /\ je'[t].sid = je[t].sid
        /\ je'[t].status = "reversed"
  BY <1>1, <1>2 DEF Held, Follows, Claims, ReversalClaim
<1>4. CASE ~Exists(tx[s].ins)
  <2>1. bal' = bal
    BY <1>1, <1>4, CommitBalances DEF Money, Applied, Exists
  <2>2. Exists(tx[s].upd) => je[t].status = "reversed"
    BY <1>1, <1>4 DEF Claims, ReversalClaim, Settled, ClaimsInv, ReversedOnce
  <2>3. \A e \in Sessions :
          /\ je'[e].status = je[e].status /\ je'[e].lines = je[e].lines
          /\ je'[e].rate = je[e].rate /\ je'[e].source = je[e].source
          /\ je'[e].sid = je[e].sid
    BY <1>2, <1>3, <1>4, <2>2
  <2> QED
    BY <2>1, <2>3 DEF Ledger!ledgerVars, Foreign
<1>5. CASE Exists(tx[s].ins)
  <2>1. /\ je'[s] = tx[s].ins /\ tx[s].ins.source = "reversal"
        /\ tx[s].ins.status = "posted" /\ tx[s].ins.sid = t
        /\ tx[s].ins.rate = je[t].rate
        /\ tx[s].ins.lines = Base(je[t].rate, Opposite(je[t].lines))
        /\ je[t].status = "posted" /\ je[t].source # "reversal"
        /\ Exists(tx[s].upd) /\ t # s
    BY <1>1, <1>2, <1>5
    DEF Claims, InsClaim, Undone, ReversalClaim, Alone
  <2>2. NoRow.status = "none" /\ NoRow.source = "manual"
    BY DEF NoRow
  <2>3. /\ State' = [State EXCEPT ![t] = "reversed", ![s] = "posted"]
        /\ State[t] = "posted" /\ State[s] = "none"
    BY <1>1, <1>2, <1>3, <2>1, <2>2 DEF State
  <2>4. /\ Effects' = [Effects EXCEPT ![s] = tx[s].ins.lines]
        /\ Effects'[s] = tx[s].ins.lines /\ tx[s].ins.lines \in [Accounts -> Int]
    BY <1>1, <1>2, <1>3, <2>1 DEF Effects, Entry
  <2>5. /\ Abroad' = [Abroad EXCEPT ![s] = Abroad'[s]] /\ Abroad'[s] = Abroad[t]
    BY <1>1, <1>2, <1>3, <2>1 DEF Abroad, Foreign
  <2>6. /\ Undoing' = [Undoing EXCEPT ![s] = t] /\ Undoing[t] = NoSession
    BY <1>1, <1>2, <1>3, <2>1 DEF Undoing
  <2>7. bal' = [a \in Accounts |-> bal[a] + tx[s].ins.lines[a]]
    BY <1>1, <2>1, <2>4, CommitBalances DEF Money, Applied
  <2>8. /\ je[t].lines \in [Accounts -> Int] /\ je[t].rate \in Nat \ {0}
        /\ Effects[t] = je[t].lines
    BY <1>1, <1>2 DEF Entry, Effects
  <2>9. \A a \in Accounts : tx[s].ins.lines[a] = je[t].rate * (-je[t].lines[a])
    BY <2>1 DEF Base, Opposite
  <2>10. Ledger!SameAccounts(Effects[t], Effects'[s])
    <3>1. ASSUME NEW a \in Accounts
          PROVE  je[t].lines[a] = 0 <=> tx[s].ins.lines[a] = 0
      BY <2>8, <2>9, ZeroProducts
    <3> QED
      BY <2>4, <2>8, <3>1 DEF Ledger!SameAccounts
  <2>11. ~Abroad[t] => Ledger!Undoes(Effects[t], Effects'[s])
    <3> SUFFICES ASSUME ~Abroad[t], NEW a \in Accounts
                 PROVE  Effects'[s][a] = -Effects[t][a]
      BY DEF Ledger!Undoes
    <3>1. je[t].rate = 1 /\ je[t].lines[a] \in Int
      BY <1>1, <2>8 DEF Abroad, Foreign
    <3>2. tx[s].ins.lines[a] = 1 * (-je[t].lines[a])
      BY <2>9, <3>1
    <3>3. tx[s].ins.lines[a] = -je[t].lines[a]
      BY <3>1, <3>2
    <3> QED
      BY <2>4, <2>8, <3>3
  <2>12. Ledger!Reverse(t, s)
    BY <2>3, <2>4, <2>5, <2>6, <2>7, <2>10, <2>11
    DEF Ledger!Reverse, Ledger!SomeLines, Ledger!Apply, State, Effects, Abroad, Undoing
  <2> QED
    BY <1>1, <2>12 DEF Ledger!LedgerNext
<1> QED
  BY <1>4, <1>5

LEMMA NextLedger ==
  Inv /\ History /\ ClaimsInv /\ MoneyInv /\ [Next]_vars => [Ledger!LedgerNext]_Ledger!ledgerVars
<1> SUFFICES ASSUME Inv, History, ClaimsInv, MoneyInv, [Next]_vars
             PROVE  [Ledger!LedgerNext]_Ledger!ledgerVars
  OBVIOUS
<1>1. ASSUME NEW s \in Sessions, Step(s), ~Commit(s) PROVE UNCHANGED <<je, bal>>
  BY <1>1 DEF Step, Probe, Precheck, ReverseKey, ReadDraft, WriteKey, LockTarget,
     LookupKey, LookupSource, CheckPeriod, TakeNumber, Insert, Recheck, ApplyLine,
     Flip, MarkReversed, NothingWritten, KeepCommitted, Rollback
<1>2. ASSUME NEW s \in Sessions, Abort(s) \/ BreakDeadlock(s) PROVE UNCHANGED <<je, bal>>
  BY <1>2 DEF Abort, BreakDeadlock, Rollback
<1>3. ASSUME NEW d \in Dates, ClosePeriod(d) \/ ReopenPeriod(d) PROVE UNCHANGED <<je, bal>>
  BY <1>3 DEF ClosePeriod, ReopenPeriod
<1>4. CASE UNCHANGED vars
  BY <1>4, LedgerStutters DEF vars
<1>5. ASSUME NEW s \in Sessions, Commit(s)
      PROVE  [Ledger!LedgerNext]_Ledger!ledgerVars
  <2>1. req[s].op \in Ops
    BY RequestFacts DEF Inv, RequestType
  <2> QED
    BY <1>5, <2>1, CreateRefines, PostRefines, ReversalRefines DEF Ops, Reversing
<1> QED
  BY <1>1, <1>2, <1>3, <1>4, <1>5, LedgerStutters DEF Next

\* The engine implements the abstract ledger, for any sessions, accounts and
\* requests: what other transactions see is only ever a draft recorded, an
\* entry posted with all its balances, or a reversal with its mark, provided
\* that a key names one operation.
THEOREM LedgerImplemented == KeysIdentifyRequests /\ Spec => ImplementsLedger
  BY InitInv, NextInv, InitHistory, NextHistory, InitClaims, NextClaims, InitMoney,
     NextMoney, InitLedger, NextLedger, PTL
  DEF Spec, ImplementsLedger, Ledger!LedgerSpec

(***************************************************************************)
(* The balances.  A step of the abstract ledger counts one more entry and  *)
(* moves the balances by its lines, or counts the same entries as before.  *)
(***************************************************************************)
LinesOn(a) == [e \in Sessions |-> je[e].lines[a]]
InLedger   == {e \in Sessions : Counted(je[e])}

\* Sums of lines are sums of integers over a finite set.
LEMMA LinesFinite ==
  ASSUME TypeOK, NEW a \in Accounts
  PROVE  /\ IsFiniteSet(InLedger) /\ bal[a] \in Int
         /\ \A e \in Sessions : je[e].lines[a] \in Int
<1>1. InLedger \subseteq Sessions
  BY DEF InLedger
<1> QED
  BY <1>1, SessionsAssumption, FS_Subset DEF TypeOK, Entry

\* Nothing posted, nothing moved.
LEMMA SameCount ==
  ASSUME TypeOK, BalancesMatchLedger, InLedger' = InLedger, bal' = bal,
         \A e \in InLedger : je'[e].lines = je[e].lines
  PROVE  BalancesMatchLedger'
<1> SUFFICES ASSUME NEW a \in Accounts
             PROVE  bal'[a] = SumFunctionOnSet(LinesOn(a)', InLedger')
  BY DEF BalancesMatchLedger, LinesOn, InLedger
<1>1. bal[a] = SumFunctionOnSet(LinesOn(a), InLedger)
  BY DEF BalancesMatchLedger, LinesOn, InLedger
<1>2. \A e \in InLedger : LinesOn(a)[e] = LinesOn(a)'[e]
  BY DEF LinesOn, InLedger
<1>3. SumFunctionOnSet(LinesOn(a), InLedger) = SumFunctionOnSet(LinesOn(a)', InLedger)
  BY <1>2, LinesFinite, SumSame
<1> QED
  BY <1>1, <1>3

\* One entry posted.
LEMMA OneMore ==
  ASSUME TypeOK, TypeOK', BalancesMatchLedger, NEW p \in Sessions,
         ~Counted(je[p]), InLedger' = InLedger \cup {p},
         bal' = [a \in Accounts |-> bal[a] + je'[p].lines[a]],
         \A e \in InLedger : je'[e].lines = je[e].lines
  PROVE  BalancesMatchLedger'
<1> SUFFICES ASSUME NEW a \in Accounts
             PROVE  bal'[a] = SumFunctionOnSet(LinesOn(a)', InLedger')
  BY DEF BalancesMatchLedger, LinesOn, InLedger
<1>1. bal[a] = SumFunctionOnSet(LinesOn(a), InLedger)
  BY DEF BalancesMatchLedger, LinesOn, InLedger
<1>2. \A e \in InLedger : LinesOn(a)[e] = LinesOn(a)'[e]
  BY DEF LinesOn, InLedger
<1>3. SumFunctionOnSet(LinesOn(a), InLedger) = SumFunctionOnSet(LinesOn(a)', InLedger)
  BY <1>2, LinesFinite, SumSame
<1>4. p \notin InLedger
  BY DEF InLedger
<1>5. \A e \in InLedger \cup {p} : LinesOn(a)'[e] \in Int
  <2>1. \A e \in Sessions : je'[e].lines[a] \in Int
    BY DEF TypeOK, Entry
  <2> QED
    BY <2>1 DEF LinesOn, InLedger
<1>6. SumFunctionOnSet(LinesOn(a)', InLedger \cup {p})
        = SumFunctionOnSet(LinesOn(a)', InLedger) + LinesOn(a)'[p]
  BY <1>4, <1>5, LinesFinite, SumAdd
<1>7. LinesOn(a)'[p] = je'[p].lines[a]
  BY DEF LinesOn
<1> QED
  BY <1>1, <1>3, <1>6, <1>7

\* The abstract ledger keeps its balances.
LEMMA LedgerBalances ==
  ASSUME TypeOK, TypeOK', BalancesMatchLedger, [Ledger!LedgerNext]_Ledger!ledgerVars
  PROVE  BalancesMatchLedger'
<1>1. \A e \in Sessions : /\ je[e].status = State[e] /\ je[e].lines = Effects[e]
                          /\ je'[e].status = State'[e] /\ je'[e].lines = Effects'[e]
  BY DEF State, Effects
<1>2. ASSUME NEW p \in Sessions, State[p] \in {"none", "draft"},
             State'[p] = "posted", bal' = [a \in Accounts |-> bal[a] + Effects'[p][a]],
             \A e \in Sessions \ {p} :
               /\ (State'[e] \in {"posted", "reversed"}) = (State[e] \in {"posted", "reversed"})
               /\ Effects'[e] = Effects[e]
      PROVE  BalancesMatchLedger'
  <2>1. ~Counted(je[p]) /\ InLedger' = InLedger \cup {p}
    BY <1>1, <1>2 DEF InLedger, Counted
  <2>2. \A e \in InLedger : je'[e].lines = je[e].lines
    BY <1>1, <1>2, <2>1 DEF InLedger
  <2>3. bal' = [a \in Accounts |-> bal[a] + je'[p].lines[a]]
    BY <1>1, <1>2
  <2> QED
    BY <2>1, <2>2, <2>3, OneMore
<1>3. ASSUME bal' = bal,
             \A e \in Sessions :
               /\ (State'[e] \in {"posted", "reversed"}) = (State[e] \in {"posted", "reversed"})
               /\ State[e] \in {"posted", "reversed"} => Effects'[e] = Effects[e]
      PROVE  BalancesMatchLedger'
  <2>1. InLedger' = InLedger /\ \A e \in InLedger : je'[e].lines = je[e].lines
    BY <1>1, <1>3 DEF InLedger, Counted
  <2> QED
    BY <1>3, <2>1, SameCount
<1>4. CASE UNCHANGED Ledger!ledgerVars
  BY <1>3, <1>4 DEF Ledger!ledgerVars, State, Effects
<1>5. ASSUME NEW e \in Sessions, Ledger!RecordDraft(e) PROVE BalancesMatchLedger'
  <2>1. /\ State[e] = "none" /\ State' = [State EXCEPT ![e] = "draft"] /\ bal' = bal
        /\ Effects' = [Effects EXCEPT ![e] = Effects'[e]]
    BY <1>5 DEF Ledger!RecordDraft, Ledger!SomeLines, State, Effects
  <2>2. State'[e] = "draft" /\ \A x \in Sessions \ {e} : /\ State'[x] = State[x]
                                                        /\ Effects'[x] = Effects[x]
    BY <2>1 DEF State, Effects
  <2> QED
    BY <1>3, <2>1, <2>2
<1>6. ASSUME NEW e \in Sessions, Ledger!RecordPosted(e) PROVE BalancesMatchLedger'
  <2>1. /\ State[e] = "none" /\ State' = [State EXCEPT ![e] = "posted"]
        /\ bal' = [a \in Accounts |-> bal[a] + Effects'[e][a]]
        /\ Effects' = [Effects EXCEPT ![e] = Effects'[e]]
    BY <1>6 DEF Ledger!RecordPosted, Ledger!SomeLines, Ledger!Apply, State, Effects
  <2> QED
    BY <1>2, <2>1 DEF State, Effects
<1>7. ASSUME NEW e \in Sessions, Ledger!Post(e) PROVE BalancesMatchLedger'
  <2>1. /\ State[e] = "draft" /\ State' = [State EXCEPT ![e] = "posted"]
        /\ bal' = [a \in Accounts |-> bal[a] + Effects[e][a]] /\ Effects' = Effects
    BY <1>7 DEF Ledger!Post, Ledger!Apply, State, Effects
  <2> QED
    BY <1>2, <2>1 DEF State, Effects
<1>8. ASSUME NEW e \in Sessions, NEW r \in Sessions, Ledger!Reverse(e, r)
      PROVE  BalancesMatchLedger'
  <2>1. /\ State[e] = "posted" /\ State[r] = "none"
        /\ State' = [State EXCEPT ![e] = "reversed", ![r] = "posted"]
        /\ bal' = [a \in Accounts |-> bal[a] + Effects'[r][a]]
        /\ Effects' = [Effects EXCEPT ![r] = Effects'[r]]
    BY <1>8 DEF Ledger!Reverse, Ledger!SomeLines, Ledger!Apply, State, Effects
  <2>2. /\ State'[r] = "posted" /\ State'[e] = "reversed"
        /\ \A x \in Sessions \ {e, r} : State'[x] = State[x]
        /\ \A x \in Sessions \ {r} : Effects'[x] = Effects[x]
    BY <2>1 DEF State, Effects
  <2>3. \A x \in Sessions \ {r} :
           (State'[x] \in {"posted", "reversed"}) = (State[x] \in {"posted", "reversed"})
    <3> TAKE x \in Sessions \ {r}
    <3>1. CASE x = e
      BY <2>1, <2>2, <3>1
    <3>2. CASE x # e
      BY <2>2, <3>2
    <3> QED
      BY <3>1, <3>2
  <2> QED
    BY <1>2, <2>1, <2>2, <2>3
<1> QED
  BY <1>4, <1>5, <1>6, <1>7, <1>8 DEF Ledger!LedgerNext

\* An account's balance is the sum of the lines of every entry ever posted,
\* for any sessions, accounts and requests, provided that a key names one
\* operation (update_account_balance, post_draft_journal_entry).
THEOREM BalancesKept == KeysIdentifyRequests /\ Spec => []BalancesMatchLedger
<1>1. Init => BalancesMatchLedger
  <2> SUFFICES ASSUME Init, NEW a \in Accounts
               PROVE  bal[a] = SumFunctionOnSet(LinesOn(a), InLedger)
    BY DEF BalancesMatchLedger, LinesOn, InLedger
  <2>1. InLedger = {}
    BY DEF Init, InLedger, Counted, NoRow
  <2>2. bal[a] = 0
    BY DEF Init, Zero
  <2> QED
    BY <2>1, <2>2, SumNone
<1>2. Inv => TypeOK
  BY DEF Inv
<1> QED
  BY <1>1, <1>2, InitInv, NextInv, InitHistory, NextHistory, InitClaims, NextClaims,
     InitMoney, NextMoney, NextLedger, LedgerBalances, PTL
  DEF Spec

(***************************************************************************)
(* Answers                                                                 *)
(*                                                                         *)
(* What a session answers with may be another session's entry, found by    *)
(* key or by source.  The invariant says that committed entries are told   *)
(* apart by both (Distinct), that each carries what its request asked for  *)
(* (Recorded), that an entry not yet committed will be as distinct, for    *)
(* its session holds the entry number (Fresh), and what an answer is worth *)
(* before and after the commit (Replied).                                  *)
(***************************************************************************)
AsAsked(row, s) ==
  /\ row.lines = Base(req[s].rate, req[s].lines)
  /\ row.source = StoredSource(req[s]) /\ row.sid = req[s].doc
  /\ row.date = req[s].date

SameTriple(r1, r2) == /\ r1.sid # NoDoc /\ r1.source = r2.source
                      /\ r1.sid = r2.sid /\ r1.date = r2.date

SameKey(s, q) == req[s].key # NoKey /\ req[s].key = req[q].key

\* A key that the entry's creator did not give came with a posting.
Recorded(e) ==
  Exists(je[e]) =>
    /\ req[e].op = "create" => AsAsked(je[e], e)
    /\ req[e].key # NoKey => je[e].key = req[e].key
    /\ je[e].key # NoKey => je[e].key = req[e].key \/ Counted(je[e])

Distinct ==
  \A e, f \in Sessions :
    Exists(je[e]) /\ Exists(je[f]) /\ e # f
    => ~SameKey(e, f) /\ ~SameTriple(je[e], je[f])

Fresh(s) ==
  /\ pc[s] = "insert" \/ Exists(tx[s].ins) => numLock = s
  /\ Exists(tx[s].ins) =>
       /\ req[s].op = "create" => AsAsked(tx[s].ins, s)
       /\ \A f \in Sessions :
            Exists(je[f]) => ~SameKey(s, f) /\ ~SameTriple(tx[s].ins, je[f])

\* e answers the creation s asks for.
Found(e, s) ==
  /\ Exists(je[e]) /\ je[e].lines = Base(req[s].rate, req[s].lines)
  /\ \/ req[s].key = NoKey \/ SameKey(s, e)
     \/ /\ req[s].doc # NoDoc /\ je[e].source = StoredSource(req[s])
        /\ je[e].sid = req[s].doc /\ je[e].date = req[s].date

Ended == {"mark", "commit", "done"}

Own(s) == answer[s] = s /\ Exists(tx[s].ins)

Replied(s) ==
  answer[s] \in Sessions =>
    /\ pc[s] \in Ended
    /\ req[s].op = "create" => Found(answer[s], s) \/ Own(s)
    /\ Reversing(s) => answer[s] \in ReversalsOf(Target(s)) \/ Own(s)
    /\ req[s].op = "post" =>
         /\ answer[s] = Target(s)
         /\ \/ Counted(je[Target(s)])
            \/ pc[s] = "commit" /\ tx[s].upd.status = "posted"

AnswerInv == /\ SourcesIdentifyEntries /\ Distinct
             /\ \A s \in Sessions : Recorded(s) /\ Fresh(s) /\ Replied(s)

\* Before its entry is there or found, a session has no answer.
LEMMA NoAnswerYet ==
  ASSUME AnswerInv, NEW s \in Sessions, pc[s] \notin Ended
  PROVE  answer[s] \notin Sessions
  BY DEF AnswerInv, Replied

\* A step of s that commits nothing disturbs nobody else's answer.
LEMMA FrameAnswers ==
  ASSUME Inv, AnswerInv, NEW s \in Sessions, Frame(s),
         \A q \in Sessions \ {s} : answer'[q] = answer[q],
         \A q \in Sessions \ {s} : numLock = q => numLock' = q,
         Fresh(s)', Replied(s)'
  PROVE  AnswerInv'
<1>1. je' = je /\ req' = req
  BY DEF Frame
<1>2. SourcesIdentifyEntries' /\ Distinct'
  BY <1>1 DEF AnswerInv, SourcesIdentifyEntries, Distinct, SameKey, SameTriple
<1>3. ASSUME NEW q \in Sessions PROVE Recorded(q)'
  BY <1>1 DEF AnswerInv, Recorded, AsAsked
<1>4. ASSUME NEW q \in Sessions, q # s PROVE Fresh(q)' /\ Replied(q)'
  <2>1. /\ pc'[q] = pc[q] /\ tx'[q] = tx[q] /\ answer'[q] = answer[q]
        /\ numLock = q => numLock' = q
    BY <1>4 DEF Frame
  <2>2. Fresh(q)'
    BY <1>1, <2>1 DEF AnswerInv, Fresh, AsAsked, SameKey, SameTriple
  <2>3. Replied(q)'
    BY <1>1, <2>1
    DEF AnswerInv, Replied, Found, Own, SameKey, Reversing, ReversalsOf, Target
  <2> QED
    BY <2>2, <2>3
<1> QED
  BY <1>2, <1>3, <1>4 DEF AnswerInv

LEMMA AnswersFrame ==
  ASSUME Inv, NEW s \in Sessions, NEW e, Answers(s, e)
  PROVE  answer'[s] = e /\ \A q \in Sessions \ {s} : answer'[q] = answer[q]
  BY DEF Answers, Inv, TypeOK

LEMMA NumberKept ==
  ASSUME Inv, NEW s \in Sessions, DropWork(s)
  PROVE  \A q \in Sessions \ {s} : numLock = q => numLock' = q
  BY DEF DropWork, ReleaseLocks

LEMMA RollbackAnswers ==
  ASSUME Inv, AnswerInv, NEW s \in Sessions, Rollback(s)
  PROVE  AnswerInv'
<1>1. /\ pc'[s] = "done" /\ \A q \in Sessions \ {s} : pc'[q] = pc[q]
      /\ UNCHANGED <<je, req>> /\ DropWork(s)
  BY GoFrame DEF Rollback
<1>2. Frame(s)
  BY <1>1, DropWorkFrame DEF Frame
<1>3. answer'[s] \notin Sessions /\ \A q \in Sessions \ {s} : answer'[q] = answer[q]
  BY AnswersFrame, NamesAssumption DEF Rollback
<1>4. Fresh(s)' /\ Replied(s)'
  BY <1>1, <1>3, DropWorkFrame DEF Fresh, Replied
<1> QED
  BY <1>1, <1>2, <1>3, <1>4, NumberKept, FrameAnswers

LEMMA QuietFresh ==
  ASSUME AnswerInv, NEW s \in Sessions, UNCHANGED <<je, req>>,
         tx'[s].ins = tx[s].ins, numLock' = numLock,
         pc'[s] = "insert" => pc[s] = "insert"
  PROVE  Fresh(s)'
  BY DEF AnswerInv, Fresh, AsAsked, SameKey, SameTriple

\* A step of s that writes no entry and, if it answers, answers well.
LEMMA QuietAnswers ==
  ASSUME Inv, AnswerInv, NEW s \in Sessions, Frame(s), NEW step, Go(s, step),
         tx'[s].ins = tx[s].ins, numLock' = numLock,
         step = "insert" => pc[s] = "insert",
         \/ answer' = answer /\ pc[s] \notin Ended
         \/ \E e : Answers(s, e) /\ Replied(s)'
  PROVE  AnswerInv'
<1>1. pc'[s] = step /\ je' = je /\ req' = req
  BY GoFrame DEF Frame
<1>2. Fresh(s)'
  BY <1>1, QuietFresh
<1>3. /\ \A q \in Sessions \ {s} : answer'[q] = answer[q]
      /\ Replied(s)'
  BY NoAnswerYet, AnswersFrame DEF Replied
<1> QED
  BY <1>2, <1>3, FrameAnswers

LEMMA ReadAnswers ==
  ASSUME Inv, AnswerInv, NEW s \in Sessions, NEW step, Go(s, step), NothingWritten,
         pc[s] \notin Ended, step # "insert",
         answer' = answer \/ \E e : Answers(s, e) /\ Replied(s)'
  PROVE  AnswerInv'
<1>1. Frame(s) /\ tx' = tx /\ numLock' = numLock
  BY GoFrame DEF NothingWritten, locks, Frame
<1> QED
  BY <1>1, QuietAnswers

\* Entries found by the key or the source of a creation have its lines.
LEMMA KeyFound ==
  ASSUME Inv, ClaimsInv, AnswerInv, NEW s \in Sessions, req[s].op = "create",
         NEW e \in WithKey(req[s].key)
  PROVE  Found(e, s)
<1>1. e \in Sessions /\ Exists(je[e]) /\ je[e].key = req[s].key /\ req[s].key # NoKey
  BY DEF WithKey
<1>2. ASSUME NEW q \in Sessions, req[q].key = req[s].key PROVE req[q] = req[s]
  BY <1>1, <1>2 DEF Inv, TypeOK, ClaimsInv, KeysIdentifyRequests, SamePurpose
<1>3. ~\E q \in Sessions : KeyedBy(q, e, req[s].key)
  BY <1>2 DEF KeyedBy
<1>4. req[e].key = req[s].key
  BY <1>1, <1>3 DEF ClaimsInv, Provenance, Keyed
<1>5. req[e] = req[s]
  BY <1>1, <1>2, <1>4
<1> QED
  BY <1>1, <1>5 DEF Found, SameKey, AnswerInv, Recorded, AsAsked

LEMMA SourceFound ==
  ASSUME Inv, ClaimsInv, AnswerInv, NEW s \in Sessions, req[s].op = "create",
         NEW e \in WithSource(StoredSource(req[s]), req[s].doc, req[s].date)
  PROVE  Found(e, s)
<1>1. /\ e \in Sessions /\ Exists(je[e]) /\ je[e].source = StoredSource(req[s])
      /\ je[e].sid = req[s].doc /\ req[s].doc # NoDoc /\ je[e].date = req[s].date
      /\ StoredSource(req[s]) # "manual"
  BY DEF WithSource, SameSource
<1>2. StoredSource(req[s]) # "reversal" /\ req[s] \in Requests /\ req[e] \in Requests
  BY <1>1, RequestsAssumption DEF StoredSource, Inv, TypeOK
<1>3. req[e].op = "create"
  <2>1. req[e].op \in Ops
    BY <1>1, RequestFacts DEF Inv, RequestType
  <2> QED
    BY <1>1, <1>2, <2>1 DEF ClaimsInv, Provenance, Reversing, Ops
<1>4. AsAsked(je[e], e)
  BY <1>1, <1>3 DEF AnswerInv, Recorded
<1>5. je[e].lines = Base(req[s].rate, req[s].lines)
  BY <1>1, <1>2, <1>3, <1>4 DEF AsAsked, AnswerInv, SourcesIdentifyEntries
<1> QED
  BY <1>1, <1>5 DEF Found

\* An entry found by key or by source is a good answer to whoever is not
\* posting.
LEMMA FindAnswers ==
  ASSUME Inv, ClaimsInv, AnswerInv, NEW s \in Sessions, NEW e \in Sessions,
         NEW step \in {"mark", "commit"}, Answers(s, e), Go(s, step), NothingWritten,
         pc[s] \notin Ended, req[s].op # "post",
         e \in WithKey(req[s].key)
            \/ e \in WithSource(NewRow(s).source, NewRow(s).sid, NewRow(s).date)
  PROVE  AnswerInv'
<1>1. pc'[s] = step /\ answer'[s] = e /\ je' = je /\ req' = req
  BY GoFrame, AnswersFrame DEF NothingWritten
<1>2. CASE Reversing(s)
  <2>1. NewRow(s).source = "reversal" /\ NewRow(s).sid = Target(s)
        /\ NewRow(s).date = req[s].date
    BY <1>2 DEF NewRow
  <2>2. e \in ReversalsOf(Target(s)) /\ req[s].op \notin {"create", "post"}
    BY <1>2, <2>1, KeyLeadsHome DEF WithSource, Reversing
  <2>3. Replied(s)'
    BY <1>1, <2>2 DEF Replied, Ended, ReversalsOf, Target
  <2> QED
    BY <2>3, ReadAnswers
<1>3. CASE ~Reversing(s)
  <2>1. /\ NewRow(s).source = StoredSource(req[s]) /\ NewRow(s).sid = req[s].doc
        /\ NewRow(s).date = req[s].date
    BY <1>3 DEF NewRow
  <2>2. req[s].op = "create"
    BY <1>3, RequestFacts DEF Inv, RequestType, Ops, Reversing
  <2>3. Found(e, s)
    BY <2>1, <2>2, KeyFound, SourceFound
  <2>4. Replied(s)'
    BY <1>1, <1>3, <2>2, <2>3 DEF Replied, Ended, Found, SameKey, Reversing
  <2> QED
    BY <2>4, ReadAnswers
<1> QED
  BY <1>2, <1>3

LEMMA ReadersAnswers ==
  ASSUME Inv, ClaimsInv, AnswerInv, NEW s \in Sessions,
         \/ Probe(s) \/ ReverseKey(s) \/ LookupKey(s) \/ LookupSource(s)
         \/ CheckPeriod(s) \/ Recheck(s)
  PROVE  AnswerInv'
<1>1. pc[s] \notin Ended /\ (~CheckPeriod(s) => req[s].op # "post")
  BY WhoIsAt
  DEF Probe, ReverseKey, LookupKey, LookupSource, CheckPeriod, Recheck, At, Ended, Reversing
<1>2. CASE Rollback(s)
  BY <1>2, RollbackAnswers
<1>3. CASE /\ NothingWritten /\ UNCHANGED answer
           /\ \E step \in {"precheck", "lock", "source", "period", "flip", "number"} :
                Go(s, step)
  BY <1>1, <1>3, ReadAnswers
<1>4. ASSUME NEW e \in Sessions, NEW step \in {"mark", "commit"},
             Answers(s, e), Go(s, step), NothingWritten, ~CheckPeriod(s),
             e \in WithKey(req[s].key)
                \/ e \in WithSource(NewRow(s).source, NewRow(s).sid, NewRow(s).date)
      PROVE  AnswerInv'
  BY <1>1, <1>4, FindAnswers
<1>5. \A e : ReturnExisting(s, e)
             => Answers(s, e) /\ \E step \in {"mark", "commit"} : Go(s, step)
  BY DEF ReturnExisting
<1>6. NewRow(s).key = req[s].key
  BY DEF NewRow
<1>7. pc[s] = "period" <=> CheckPeriod(s)
  BY WhoIsAt
  DEF Probe, ReverseKey, LookupKey, LookupSource, CheckPeriod, Recheck, At
<1>8. CASE Probe(s)
  BY <1>3, <1>4, <1>7, <1>8, KeysAndSourcesNameSessions DEF Probe, At
<1>9. CASE ReverseKey(s)
  BY <1>3, <1>4, <1>7, <1>9, KeysAndSourcesNameSessions DEF ReverseKey, At
<1>10. CASE LookupKey(s)
  BY <1>3, <1>4, <1>5, <1>7, <1>10, KeysAndSourcesNameSessions DEF LookupKey, At
<1>11. CASE LookupSource(s)
  BY <1>3, <1>4, <1>5, <1>7, <1>11, KeysAndSourcesNameSessions DEF LookupSource, At
<1>12. CASE CheckPeriod(s)
  BY <1>2, <1>3, <1>12 DEF CheckPeriod
<1>13. CASE Recheck(s)
  BY <1>2, <1>4, <1>5, <1>6, <1>7, <1>13, KeysAndSourcesNameSessions DEF Recheck, At
<1> QED
  BY <1>8, <1>9, <1>10, <1>11, <1>12, <1>13

LEMMA PrecheckAnswers ==
  ASSUME Inv, AnswerInv, NEW s \in Sessions, Precheck(s) PROVE AnswerInv'
<1>1. CASE Rollback(s)
  BY <1>1, RollbackAnswers
<1>2. CASE ~Rollback(s)
  <2>1. /\ tx' = [tx EXCEPT ![s].doc = req[s].op = "create" /\ req[s].doc # NoDoc]
        /\ UNCHANGED <<je, req, rowLock, numLock, answer>>
        /\ Go(s, IF Reversing(s) THEN "rkey" ELSE "key") /\ pc[s] = "precheck"
    BY <1>2 DEF Precheck, locks, At
  <2>2. tx'[s].ins = tx[s].ins /\ \A q \in Sessions \ {s} : tx'[q] = tx[q]
    BY <2>1 DEF Inv, TypeOK, TxType
  <2>3. Frame(s)
    BY <2>1, <2>2, GoFrame DEF Frame
  <2> QED
    BY <2>1, <2>2, <2>3, QuietAnswers DEF Ended
<1> QED
  BY <1>1, <1>2

LEMMA TakeNumberAnswers ==
  ASSUME Inv, ClaimsInv, AnswerInv, NEW s \in Sessions, TakeNumber(s) PROVE AnswerInv'
<1>1. /\ pc[s] = "number" /\ numLock = NoSession /\ numLock' = s /\ Go(s, "insert")
      /\ UNCHANGED <<je, req, rowLock, tx, answer>>
  BY DEF TakeNumber, At, KeepCommitted
<1>2. Frame(s) /\ pc'[s] = "insert"
  BY <1>1, GoFrame DEF Frame
<1>3. answer[s] \notin Sessions
  BY <1>1, NoAnswerYet DEF Ended
<1>4. ~Exists(tx[s].ins)
  BY <1>1 DEF ClaimsInv, Claims, InsClaim
<1>5. Fresh(s)' /\ Replied(s)'
  BY <1>1, <1>2, <1>3, <1>4 DEF Fresh, Replied
<1> QED
  BY <1>1, <1>2, <1>5, FrameAnswers, NamesAssumption

\* The entry of a posting request's key is its target, and counts.
LEMMA ReadDraftAnswers ==
  ASSUME Inv, ClaimsInv, AnswerInv, NEW s \in Sessions, ReadDraft(s) PROVE AnswerInv'
<1> DEFINE row == je[Target(s)]
<1>1. pc[s] = "pread" /\ req[s].op = "post" /\ ~Reversing(s) /\ pc[s] \notin Ended
      /\ Target(s) \in Sessions
  BY WhoIsAt, RequestFacts DEF ReadDraft, At, Reversing, Ended, Inv
<1>2. CASE Rollback(s)
  BY <1>2, RollbackAnswers
<1>3. ASSUME NEW step \in {"lock", "pkey"}, Go(s, step), NothingWritten, UNCHANGED answer
      PROVE  AnswerInv'
  BY <1>1, <1>3, ReadAnswers
<1>4. CASE /\ req[s].key # NoKey /\ Exists(row) /\ row.key = req[s].key
           /\ Answers(s, Target(s)) /\ Go(s, "commit") /\ NothingWritten
  <2>1. req[Target(s)].op # "post"
    BY <1>1, <1>4 DEF ClaimsInv, Provenance
  <2>2. req[Target(s)].key # req[s].key
    BY <1>1, <1>4, <2>1 DEF Inv, TypeOK, ClaimsInv, KeysIdentifyRequests, SamePurpose
  <2>3. Counted(row)
    BY <1>1, <1>4, <2>2 DEF AnswerInv, Recorded
  <2>4. pc'[s] = "commit" /\ answer'[s] = Target(s) /\ je' = je /\ req' = req
    BY <1>1, <1>4, GoFrame, AnswersFrame DEF NothingWritten
  <2>5. Replied(s)'
    BY <1>1, <2>3, <2>4 DEF Replied, Ended, Reversing, Target
  <2> QED
    BY <1>1, <1>4, <2>5, ReadAnswers
<1> QED
  BY <1>2, <1>3, <1>4 DEF ReadDraft

\* The indexes let in only what no committed entry has.
LEMMA InsertFresh ==
  ASSUME Inv, ClaimsInv, AnswerInv, NEW s \in Sessions, req[s].op # "post",
         ~InsertRefused(NewRow(s)), NEW f \in Sessions, Exists(je[f])
  PROVE  ~SameKey(s, f) /\ ~SameTriple(NewRow(s), je[f])
<1>1. NewRow(s).key = req[s].key
  BY DEF NewRow
<1>2. ~SameKey(s, f)
  <2>1. SameKey(s, f) => f \in WithKey(req[s].key)
    BY DEF SameKey, WithKey, AnswerInv, Recorded
  <2> QED
    BY <1>1, <2>1 DEF InsertRefused
<1>3. ~SameTriple(NewRow(s), je[f])
  <2>1. SameTriple(NewRow(s), je[f])
        => f \in SameSource(NewRow(s).source, NewRow(s).sid, NewRow(s).date)
    BY DEF SameTriple, SameSource
  <2> QED
    BY <2>1 DEF InsertRefused
<1> QED
  BY <1>2, <1>3

LEMMA NewRowAsked ==
  ASSUME NEW s \in Sessions, req[s].op = "create"
  PROVE  AsAsked(NewRow(s), s)
  BY DEF NewRow, AsAsked, Reversing

LEMMA InsertedAnswers ==
  ASSUME Inv, ClaimsInv, AnswerInv, NEW s \in Sessions, Insert(s),
         NEW step \in {"lines", "commit"}, Go(s, step), UNCHANGED locks,
         ~InsertRefused(NewRow(s)), tx'[s].ins = NewRow(s),
         \A q \in Sessions \ {s} : tx'[q] = tx[q],
         answer' = answer \/ (step = "commit" /\ Answers(s, s))
  PROVE  AnswerInv'
<1> DEFINE row == NewRow(s)
<1>1. /\ pc[s] = "insert" /\ req[s].op # "post" /\ UNCHANGED <<je, req>>
      /\ numLock = s /\ answer[s] \notin Sessions
  BY WhoIsAt, NoAnswerYet DEF Insert, At, KeepCommitted, Ended, AnswerInv, Fresh
<1>2. pc'[s] = step /\ Frame(s) /\ numLock' = numLock
  BY <1>1, GoFrame DEF Frame, locks
<1>3. /\ req[s].op = "create" => AsAsked(row, s)
      /\ \A f \in Sessions : Exists(je[f]) => ~SameKey(s, f) /\ ~SameTriple(row, je[f])
      /\ row.status \in {"draft", "posted"}
  BY <1>1, NewRowAsked, InsertFresh, NewRowFacts
<1>4. tx'[s].ins = row
  OBVIOUS
<1> HIDE DEF row
<1>5. Fresh(s)'
  BY <1>1, <1>2, <1>3, <1>4 DEF Fresh, AsAsked, SameKey, SameTriple
<1>6. \A q \in Sessions \ {s} : answer'[q] = answer[q]
  BY AnswersFrame
<1>7. Replied(s)'
  <2>1. CASE answer' = answer
    BY <1>1, <2>1 DEF Replied
  <2>2. CASE step = "commit" /\ Answers(s, s)
    <3>1. Own(s)'
      BY <1>3, <1>4, <2>2, AnswersFrame DEF Own, Exists
    <3> QED
      BY <1>1, <1>2, <2>2, <3>1 DEF Replied, Ended
  <2> QED
    BY <2>1, <2>2
<1> QED
  BY <1>2, <1>5, <1>6, <1>7, FrameAnswers

LEMMA InsertAnswers ==
  ASSUME Inv, ClaimsInv, AnswerInv, NEW s \in Sessions, Insert(s) PROVE AnswerInv'
<1> DEFINE row == NewRow(s)
<1>1. pc[s] = "insert" /\ UNCHANGED <<je, req>> /\ answer[s] \notin Sessions
  BY NoAnswerYet DEF Insert, At, KeepCommitted, Ended
<1>2. CASE DropWork(s) /\ Go(s, "recheck") /\ UNCHANGED answer
  <2>1. pc'[s] = "recheck" /\ \A q \in Sessions \ {s} : pc'[q] = pc[q]
    BY <1>2, GoFrame
  <2>2. Frame(s)
    BY <1>1, <1>2, <2>1, DropWorkFrame DEF Frame
  <2>3. Fresh(s)' /\ Replied(s)'
    BY <1>1, <1>2, <2>1, DropWorkFrame DEF Fresh, Replied
  <2> QED
    BY <1>2, <2>2, <2>3, NumberKept, FrameAnswers
<1>3. CASE /\ ~InsertRefused(row) /\ tx' = [tx EXCEPT ![s].ins = row]
           /\ Answers(s, s) /\ Go(s, "commit") /\ UNCHANGED locks
  <2>1. tx'[s].ins = row /\ \A q \in Sessions \ {s} : tx'[q] = tx[q]
    BY <1>3 DEF Inv, TypeOK, TxType
  <2> QED
    BY <1>3, <2>1, InsertedAnswers
<1>4. ASSUME NEW a, ~InsertRefused(row), Go(s, "lines"), UNCHANGED locks,
             tx' = [tx EXCEPT ![s].ins = row, ![s].todo = Touched(row.lines),
                              ![s].at = a], UNCHANGED answer
      PROVE  AnswerInv'
  <2>1. tx'[s].ins = row /\ \A q \in Sessions \ {s} : tx'[q] = tx[q]
    BY <1>4 DEF Inv, TypeOK, TxType
  <2> QED
    BY <1>4, <2>1, InsertedAnswers
<1> QED
  BY <1>2, <1>3, <1>4 DEF Insert

LEMMA WriteKeyAnswers ==
  ASSUME Inv, AnswerInv, NEW s \in Sessions, WriteKey(s) PROVE AnswerInv'
<1>1. pc[s] = "pkey" /\ pc[s] \notin Ended /\ Target(s) \in Sessions
  BY WhoIsAt, RequestFacts DEF WriteKey, At, Ended, Inv
<1>2. CASE Go(s, "lock") /\ NothingWritten /\ UNCHANGED answer
  BY <1>1, <1>2, ReadAnswers
<1>3. CASE Rollback(s)
  BY <1>3, RollbackAnswers
<1>4. ASSUME NEW new, RowFree(s), TakeRow(s), Update(s, new), Go(s, "lock"),
             KeepCommitted, UNCHANGED <<acctLock, numLock, answer>>
      PROVE  AnswerInv'
  <2>1. tx'[s].ins = tx[s].ins /\ \A q \in Sessions \ {s} : tx'[q] = tx[q]
    BY <1>4 DEF Update, Inv, TypeOK, TxType
  <2>2. Frame(s)
    BY <1>1, <1>4, <2>1, TakeRowFrame
  <2> QED
    BY <1>1, <1>4, <2>1, <2>2, QuietAnswers
<1> QED
  BY <1>2, <1>3, <1>4 DEF WriteKey

LEMMA LockTargetAnswers ==
  ASSUME Inv, History, ClaimsInv, AnswerInv, NEW s \in Sessions, LockTarget(s)
  PROVE  AnswerInv'
<1> DEFINE moves(step) == /\ TakeRow(s) /\ Go(s, step)
                          /\ KeepCommitted /\ UNCHANGED <<acctLock, numLock, tx>>
<1>1. /\ pc[s] = "lock" /\ pc[s] \notin Ended /\ RowFree(s) /\ Target(s) \in Sessions
      /\ req[s].op # "create"
  BY WhoIsAt, RequestFacts DEF LockTarget, At, Inv, Reversing, Ended
<1>2. CASE Rollback(s)
  BY <1>2, RollbackAnswers
<1>3. ASSUME NEW step, moves(step)
      PROVE  Frame(s) /\ pc'[s] = step /\ UNCHANGED <<je, req, tx, numLock>>
  BY <1>1, <1>3, TakeRowFrame DEF KeepCommitted
<1>4. ASSUME NEW step \in {"key", "period"}, moves(step), UNCHANGED answer
      PROVE  AnswerInv'
  BY <1>1, <1>3, <1>4, QuietAnswers
<1>5. CASE /\ req[s].op = "post" /\ Row(s).status = "posted" /\ moves("commit")
           /\ Answers(s, Target(s))
  <2>1. answer'[s] = Target(s)
    BY <1>5, AnswersFrame
  <2>2. Counted(je[Target(s)]) \/ tx[s].upd.status = "posted"
    BY <1>5 DEF Row, Counted
  <2>3. Replied(s)'
    BY <1>1, <1>3, <1>5, <2>1, <2>2 DEF Replied, Ended, Reversing, Target
  <2> QED
    BY <1>3, <1>5, <2>3, QuietAnswers
<1> QED
  BY <1>2, <1>4, <1>5 DEF LockTarget

LEMMA FlipAnswers ==
  ASSUME Inv, AnswerInv, NEW s \in Sessions, Flip(s) PROVE AnswerInv'
<1>1. pc[s] = "flip" /\ pc[s] \notin Ended
  BY DEF Flip, At, Ended
<1>2. CASE Rollback(s)
  BY <1>2, RollbackAnswers
<1>3. ASSUME NEW new, NEW todo, NEW a,
             tx' = [tx EXCEPT ![s].upd = new, ![s].todo = todo, ![s].at = a],
             Go(s, "lines"), KeepCommitted, UNCHANGED <<locks, answer>>
      PROVE  AnswerInv'
  <2>1. tx'[s].ins = tx[s].ins /\ \A q \in Sessions \ {s} : tx'[q] = tx[q]
    BY <1>3 DEF Inv, TypeOK, TxType
  <2>2. Frame(s) /\ numLock' = numLock
    BY <1>3, <2>1, GoFrame DEF Frame, KeepCommitted, locks
  <2> QED
    BY <1>1, <1>3, <2>1, <2>2, QuietAnswers
<1> QED
  BY <1>2, <1>3 DEF Flip

LEMMA MarkReversedAnswers ==
  ASSUME Inv, ClaimsInv, AnswerInv, NEW s \in Sessions, MarkReversed(s) PROVE AnswerInv'
<1>1. /\ pc[s] = "mark" /\ Reversing(s) /\ req[s].op \notin {"create", "post"}
      /\ Target(s) \in Sessions
  BY WhoIsAt, RequestFacts DEF MarkReversed, At, Reversing, Inv
<1>2. tx'[s].ins = tx[s].ins /\ \A q \in Sessions \ {s} : tx'[q] = tx[q]
  BY DEF MarkReversed, Update, Inv, TypeOK, TxType
<1>3. Frame(s) /\ pc'[s] = "commit" /\ UNCHANGED <<je, req, numLock, answer>>
  BY <1>1, <1>2, TakeRowFrame DEF MarkReversed, KeepCommitted
<1>4. Fresh(s)'
  BY <1>1, <1>2, <1>3, QuietFresh
<1>5. Replied(s)'
  BY <1>1, <1>2, <1>3 DEF AnswerInv, Replied, Ended, Own, Reversing, ReversalsOf, Target
<1> QED
  BY <1>3, <1>4, <1>5, FrameAnswers

LEMMA ApplyLineAnswers ==
  ASSUME Inv, History, ClaimsInv, MoneyInv, AnswerInv, NEW s \in Sessions, ApplyLine(s)
  PROVE  AnswerInv'
<1> DEFINE a == tx[s].at
<1>1. /\ pc[s] = "lines" /\ UNCHANGED <<je, req, rowLock, numLock>>
      /\ \E rest, next : tx' = [tx EXCEPT
                                 ![s].newBal[a] = bal[a] + Posting(s).lines[a],
                                 ![s].todo = rest, ![s].at = next]
  BY DEF ApplyLine, At, KeepCommitted
<1>2. /\ tx'[s].upd = tx[s].upd /\ tx'[s].ins = tx[s].ins
      /\ \A q \in Sessions \ {s} : tx'[q] = tx[q]
  BY <1>1 DEF Inv, TypeOK, TxType
<1>3. CASE UNCHANGED <<pc, answer>>
  <2>1. Frame(s)
    BY <1>1, <1>2, <1>3 DEF Frame
  <2>2. Fresh(s)'
    BY <1>1, <1>2, <1>3, QuietFresh
  <2>3. Replied(s)'
    BY <1>1, <1>3, NoAnswerYet DEF Replied, Ended
  <2> QED
    BY <1>1, <1>3, <2>1, <2>2, <2>3, FrameAnswers
<1>4. CASE /\ Answers(s, IF req[s].op = "post" THEN Target(s) ELSE s)
           /\ Go(s, IF Reversing(s) THEN "mark" ELSE "commit")
  <2>1. Frame(s) /\ pc'[s] = IF Reversing(s) THEN "mark" ELSE "commit"
    BY <1>1, <1>2, <1>4, GoFrame DEF Frame
  <2>2. answer'[s] = IF req[s].op = "post" THEN Target(s) ELSE s
    BY <1>4, AnswersFrame
  <2>3. CASE req[s].op = "post"
    <3>1. tx[s].upd.status = "posted"
      BY <1>1, <2>3 DEF MoneyInv, Money, Remaining, Posting
    <3>2. Replied(s)'
      BY <1>1, <1>2, <2>1, <2>2, <2>3, <3>1 DEF Replied, Ended, Reversing, Target
    <3> QED
      BY <1>1, <1>2, <1>4, <2>1, <3>2, QuietAnswers
  <2>4. CASE req[s].op # "post"
    <3>1. Exists(tx[s].ins)
      BY <1>1, <2>4 DEF MoneyInv, Money, Remaining, Posting, Exists
    <3>2. Replied(s)'
      BY <1>1, <1>2, <2>1, <2>2, <2>4, <3>1 DEF Replied, Ended, Own, Reversing
    <3> QED
      BY <1>1, <1>2, <1>4, <2>1, <3>2, QuietAnswers
  <2> QED
    BY <2>3, <2>4
<1> QED
  BY <1>3, <1>4 DEF ApplyLine

\* What a commit leaves of a row, and what it does to another's answer.
LEMMA CommitRecorded ==
  ASSUME Inv, History, ClaimsInv, AnswerInv, NEW s \in Sessions, Commit(s),
         NEW e \in Sessions
  PROVE  Recorded(e)'
<1>1. /\ pc[s] = "commit" /\ Claims(s) /\ Held(s) /\ Fresh(s) /\ Recorded(e)
      /\ req' = req
  BY CommitRows DEF Commit, At, ClaimsInv, History, AnswerInv
<1>2. CASE e = s
  <2> SUFFICES ASSUME Exists(je'[s])
               PROVE  /\ req[s].op = "create" => AsAsked(je[s], s)'
                      /\ je'[s].key = req[s].key
    BY <1>1, <1>2 DEF Recorded
  <2>1. Exists(tx[s].ins) /\ je'[s] = tx[s].ins
    BY CommitRows
  <2> QED
    BY <1>1, <2>1 DEF Claims, InsClaim, Fresh, AsAsked
<1>3. CASE e # s
  <2> SUFFICES ASSUME Exists(je'[e])
               PROVE  /\ req[e].op = "create" => AsAsked(je[e], e)'
                      /\ req[e].key # NoKey => je'[e].key = req[e].key
                      /\ je'[e].key # NoKey => je'[e].key = req[e].key \/ Counted(je'[e])
    BY <1>1 DEF Recorded
  <2>1. Exists(je[e]) /\ Follows(je[e], je'[e])
    BY <1>3, CommitRows
  <2>2. AsAsked(je[e], e) => AsAsked(je[e], e)'
    BY <1>1, <2>1 DEF AsAsked, Follows
  <2>3. req[e].key # NoKey => je'[e].key = req[e].key
    BY <1>1, <2>1 DEF Recorded, Follows
  <2>4. CASE e = Target(s) /\ Exists(tx[s].upd)
    <3>1. je'[e] = tx[s].upd /\ req[s].op # "create"
      BY <1>1, <1>3, <2>4, CommitRows DEF Held
    <3>2. req[s].op = "post" \/ Reversing(s)
      BY <3>1, RequestFacts DEF Inv, RequestType, Ops, Reversing
    <3>3. Counted(tx[s].upd)
      BY <1>1, <2>4, <3>2 DEF Claims, UpdClaim, ReversalClaim, Counted
    <3> QED
      BY <1>1, <2>1, <2>2, <2>3, <3>1, <3>3 DEF Recorded
  <2>5. CASE ~(e = Target(s) /\ Exists(tx[s].upd))
    <3>1. je'[e] = je[e]
      BY <1>3, <2>5, CommitRows
    <3> QED
      BY <1>1, <2>1, <2>2, <2>3, <3>1 DEF Recorded
  <2> QED
    BY <2>4, <2>5
<1> QED
  BY <1>2, <1>3

LEMMA CommitDistinct ==
  ASSUME Inv, History, ClaimsInv, AnswerInv, NEW s \in Sessions, Commit(s)
  PROVE  Distinct'
<1>1. /\ req' = req /\ (Exists(je'[s]) => Exists(tx[s].ins) /\ je'[s] = tx[s].ins)
      /\ \A e \in Sessions \ {s} : Exists(je'[e]) => Exists(je[e]) /\ Follows(je[e], je'[e])
  BY CommitRows
<1> SUFFICES ASSUME NEW e \in Sessions, NEW f \in Sessions,
                    Exists(je'[e]), Exists(je'[f]), e # f
             PROVE  ~SameKey(e, f) /\ ~SameTriple(je'[e], je'[f])
  BY <1>1 DEF Distinct, SameKey
<1>2. \A g \in Sessions \ {s} : Exists(je'[g]) =>
        /\ Exists(je[g]) /\ je'[g].source = je[g].source
        /\ je'[g].sid = je[g].sid /\ je'[g].date = je[g].date
  BY <1>1 DEF Follows
<1>3. CASE e # s /\ f # s
  BY <1>2, <1>3 DEF AnswerInv, Distinct, SameTriple
<1>4. \A g \in Sessions \ {s} : Exists(je'[s]) /\ Exists(je'[g])
        => ~SameKey(s, g) /\ ~SameTriple(je'[s], je'[g])
  BY <1>1, <1>2 DEF AnswerInv, Fresh, SameTriple
<1>5. CASE e = s \/ f = s
  BY <1>4, <1>5 DEF SameKey, SameTriple
<1> QED
  BY <1>3, <1>5

LEMMA CommitAnswers ==
  ASSUME Inv, History, ClaimsInv, AnswerInv, NEW s \in Sessions, Commit(s)
  PROVE  AnswerInv'
<1>1. /\ pc[s] = "commit" /\ pc'[s] = "done" /\ req' = req /\ answer' = answer
      /\ \A q \in Sessions \ {s} : pc'[q] = pc[q] /\ tx'[q] = tx[q]
                                   /\ (numLock = q => numLock' = q)
      /\ ~Exists(tx'[s].ins) /\ ~Exists(tx'[s].upd)
  BY GoFrame, DropWorkFrame, NumberKept DEF Commit, At
<1>2. \A e \in Sessions \ {s} : /\ Exists(je'[e]) => Exists(je[e])
                                /\ Exists(je[e]) => Exists(je'[e]) /\ Follows(je[e], je'[e])
  BY CommitRows
<1>3. ~Exists(je[s]) /\ (Exists(tx[s].ins) => je'[s] = tx[s].ins)
      /\ (~Exists(tx[s].ins) => je'[s] = je[s])
  BY CommitRows
<1>4. \A e \in Sessions : Exists(je[e]) => Exists(je'[e]) /\ Follows(je[e], je'[e])
  BY <1>2, <1>3
\* A good answer stays good.
<1>5. ASSUME NEW q \in Sessions, NEW e \in Sessions
      PROVE  /\ Found(e, q) => Found(e, q)'
             /\ Reversing(q) => ReversalsOf(Target(q)) \subseteq ReversalsOf(Target(q))'
             /\ Counted(je[e]) => Counted(je'[e])
             /\ Reversing(q)' = Reversing(q) /\ Target(q)' = Target(q)
  <2>1. Found(e, q) => Found(e, q)'
    BY <1>1, <1>4 DEF Found, SameKey, Follows
  <2>2. Reversing(q)' = Reversing(q) /\ Target(q)' = Target(q)
    BY <1>1 DEF Reversing, Target
  <2>3. Reversing(q) => ReversalsOf(Target(q)) \subseteq ReversalsOf(Target(q))'
    BY <1>4, <2>2 DEF ReversalsOf, Follows
  <2>4. Counted(je[e]) => Counted(je'[e])
    BY <1>4 DEF Counted, Exists, Follows
  <2> QED
    BY <2>1, <2>2, <2>3, <2>4
<1>6. ASSUME NEW q \in Sessions, q # s PROVE Fresh(q)' /\ Replied(q)'
  <2>1. pc'[q] = pc[q] /\ tx'[q] = tx[q] /\ (numLock = q => numLock' = q)
        /\ Fresh(q) /\ Replied(q)
    BY <1>1, <1>6 DEF AnswerInv
  <2>2. Fresh(q)'
    <3>1. CASE Exists(tx[q].ins)
      <4>1. ~Exists(tx[s].ins)
        BY <1>6, <3>1 DEF AnswerInv, Fresh
      <4>2. \A f \in Sessions : Exists(je'[f]) =>
              /\ Exists(je[f]) /\ je'[f].source = je[f].source
              /\ je'[f].sid = je[f].sid /\ je'[f].date = je[f].date
        BY <1>2, <1>3, <4>1 DEF Follows
      <4> QED
        BY <1>1, <2>1, <3>1, <4>2 DEF Fresh, AsAsked, SameKey, SameTriple
    <3>2. CASE ~Exists(tx[q].ins)
      BY <2>1, <3>2 DEF Fresh
    <3> QED
      BY <3>1, <3>2
  <2>3. Own(q)' = Own(q) /\ (req[q].op = "post" => Target(q) \in Sessions)
    BY <1>1, <2>1, RequestFacts DEF Own, Inv
  <2>4. Replied(q)'
    BY <1>1, <1>5, <2>1, <2>3 DEF Replied
  <2> QED
    BY <2>2, <2>4
<1>7. Fresh(s)'
  BY <1>1 DEF Fresh
<1>8. Replied(s)'
  <2> SUFFICES ASSUME answer[s] \in Sessions
               PROVE  /\ req[s].op = "create" => Found(answer[s], s)'
                      /\ Reversing(s) => answer[s] \in ReversalsOf(Target(s))'
                      /\ req[s].op = "post" => /\ answer[s] = Target(s)
                                               /\ Counted(je'[Target(s)])
    BY <1>1, <1>5 DEF Replied, Ended
  <2>1. Replied(s) /\ Fresh(s) /\ Claims(s) /\ Held(s)
    BY DEF AnswerInv, ClaimsInv, History
  <2>2. ASSUME req[s].op = "create" PROVE Found(answer[s], s)'
    <3>1. Own(s) => Found(s, s)'
      BY <1>1, <1>3, <2>1, <2>2 DEF Own, Found, Fresh, AsAsked, SameKey
    <3> QED
      BY <1>1, <1>5, <2>1, <2>2, <3>1 DEF Replied, Own
  <2>3. ASSUME Reversing(s) PROVE answer[s] \in ReversalsOf(Target(s))'
    <3>1. Own(s) => s \in ReversalsOf(Target(s))'
      BY <1>1, <1>3, <1>5, <2>1, <2>3 DEF Own, Claims, InsClaim, Undone, ReversalsOf
    <3> QED
      BY <1>5, <2>1, <2>3, <3>1 DEF Replied, Own
  <2>4. ASSUME req[s].op = "post" PROVE answer[s] = Target(s) /\ Counted(je'[Target(s)])
    <3>1. Target(s) \in Sessions
      BY <2>4, RequestFacts DEF Inv
    <3>2. CASE tx[s].upd.status = "posted"
      <4>1. Exists(tx[s].upd) /\ Target(s) # s
        BY <1>3, <2>1, <3>2 DEF Held, Exists
      <4>2. je'[Target(s)] = tx[s].upd
        BY <3>1, <4>1, CommitRows
      <4> QED
        BY <2>1, <2>4, <3>2, <4>2 DEF Replied, Counted
    <3>3. CASE Counted(je[Target(s)])
      BY <1>5, <2>1, <2>4, <3>1, <3>3 DEF Replied
    <3> QED
      BY <2>1, <2>4, <3>2, <3>3 DEF Replied
  <2> QED
    BY <2>2, <2>3, <2>4
<1>9. SourcesIdentifyEntries'
  BY DEF AnswerInv, SourcesIdentifyEntries
<1> QED
  BY <1>6, <1>7, <1>8, <1>9, CommitRecorded, CommitDistinct DEF AnswerInv

LEMMA InitAnswers == Init /\ SourcesIdentifyEntries => AnswerInv
<1> SUFFICES ASSUME Init, SourcesIdentifyEntries PROVE AnswerInv
  OBVIOUS
<1>1. ~Exists(NoRow) /\ EmptyTx.ins = NoRow
  BY DEF NoRow, EmptyTx, Exists
<1>2. ASSUME NEW s \in Sessions
      PROVE  /\ ~Exists(je[s]) /\ ~Exists(tx[s].ins) /\ pc[s] # "insert"
             /\ answer[s] \notin Sessions
  <2>1. req[s] \in RequestType
    BY RequestsAssumption DEF Init
  <2> QED
    BY <1>1, <2>1, NamesAssumption DEF Init, FirstStep, RequestType, Ops
<1> QED
  BY <1>2 DEF AnswerInv, Distinct, Recorded, Fresh, Replied

LEMMA NextAnswers ==
  Inv /\ History /\ ClaimsInv /\ MoneyInv /\ AnswerInv /\ [Next]_vars => AnswerInv'
<1> SUFFICES ASSUME Inv, History, ClaimsInv, MoneyInv, AnswerInv, [Next]_vars
             PROVE  AnswerInv'
  OBVIOUS
<1>1. ASSUME NEW s \in Sessions, Step(s) PROVE AnswerInv'
  BY <1>1, ReadersAnswers, PrecheckAnswers, ReadDraftAnswers, WriteKeyAnswers,
     LockTargetAnswers, TakeNumberAnswers, InsertAnswers, ApplyLineAnswers,
     FlipAnswers, MarkReversedAnswers, CommitAnswers DEF Step
<1>2. ASSUME NEW s \in Sessions, Abort(s) \/ BreakDeadlock(s) PROVE AnswerInv'
  BY <1>2, RollbackAnswers DEF Abort, BreakDeadlock
<1>3. ASSUME UNCHANGED <<je, numLock, req, pc, tx, answer>> PROVE AnswerInv'
  <2>1. SourcesIdentifyEntries' /\ Distinct'
    BY <1>3 DEF AnswerInv, SourcesIdentifyEntries, Distinct, SameKey, SameTriple
  <2>2. ASSUME NEW s \in Sessions PROVE Recorded(s)' /\ Fresh(s)' /\ Replied(s)'
    BY <1>3
    DEF AnswerInv, Recorded, Fresh, Replied, AsAsked, SameKey, SameTriple, Found, Own,
        Reversing, ReversalsOf, Target
  <2> QED
    BY <2>1, <2>2 DEF AnswerInv
<1>4. ASSUME NEW d \in Dates, ClosePeriod(d) \/ ReopenPeriod(d) PROVE AnswerInv'
  BY <1>3, <1>4 DEF ClosePeriod, ReopenPeriod, locks
<1>5. CASE UNCHANGED vars
  BY <1>3, <1>5 DEF vars, locks
<1> QED
  BY <1>1, <1>2, <1>4, <1>5 DEF Next

\* Two creations under one key found the same entry: by the key, by the
\* source, or one by each.
LEMMA SameFound ==
  ASSUME Inv, ClaimsInv, AnswerInv, NEW s \in Sessions, NEW q \in Sessions,
         req[s].op = "create", SameKey(s, q), NEW e \in Sessions, NEW f \in Sessions,
         Found(e, s), Found(f, q)
  PROVE  e = f
<1>1. ASSUME NEW r \in Sessions, SameKey(s, r) PROVE req[r] = req[s]
  BY <1>1 DEF Inv, TypeOK, ClaimsInv, KeysIdentifyRequests, SamePurpose, SameKey
<1>2. req[q] = req[s] /\ req[s].key # NoKey
  BY <1>1 DEF SameKey
\* By key or by source, it carries the source.
<1>3. ASSUME NEW g \in Sessions, SameKey(s, g), Exists(je[g])
      PROVE  AsAsked(je[g], s)
  BY <1>1, <1>3 DEF AnswerInv, Recorded, AsAsked
<1>4. CASE SameKey(s, e) /\ SameKey(s, f)
  BY <1>4 DEF AnswerInv, Distinct, SameKey, Found
<1>5. CASE ~(SameKey(s, e) /\ SameKey(s, f))
  <2>1. req[s].doc # NoDoc
    BY <1>2, <1>5 DEF Found, SameKey
  <2>2. SameTriple(je[e], je[f])
    BY <1>2, <1>3, <2>1 DEF Found, SameKey, AsAsked, SameTriple
  <2> QED
    BY <2>2 DEF AnswerInv, Distinct, Found
<1> QED
  BY <1>4, <1>5

LEMMA AnswersFollow ==
  Inv /\ ClaimsInv /\ AnswerInv => AnswersHold
<1> SUFFICES ASSUME Inv, ClaimsInv, AnswerInv PROVE AnswersHold
  OBVIOUS
<1>1. ASSUME NEW s \in Sessions, Succeeded(s)
      PROVE  /\ answer[s] \in Sessions /\ req[s].op \in Ops
             /\ req[s].op # "create" => Target(s) \in Sessions
             /\ req[s].op = "create" => Found(answer[s], s)
             /\ Reversing(s) => answer[s] \in ReversalsOf(Target(s))
             /\ req[s].op = "post" => answer[s] = Target(s) /\ Counted(je[Target(s)])
  <2>1. pc[s] = "done" /\ answer[s] \in Sessions /\ Replied(s)
    BY <1>1 DEF Succeeded, At, AnswerInv
  <2>2. ~Exists(tx[s].ins)
    BY <2>1 DEF ClaimsInv, Claims, InsClaim
  <2> QED
    BY <2>1, <2>2, RequestFacts DEF Replied, Own, Inv, RequestType
<1>2. AnswersTrue
  <2> SUFFICES ASSUME NEW s \in Sessions, Succeeded(s)
               PROVE  /\ req[s].op = "create" =>
                           Exists(je[answer[s]])
                           /\ je[answer[s]].lines = Base(req[s].rate, req[s].lines)
                      /\ req[s].op = "post" => Counted(je[Target(s)])
                      /\ Reversing(s) => /\ je[Target(s)].status = "reversed"
                                         /\ answer[s] \in ReversalsOf(Target(s))
    BY <1>1 DEF AnswersTrue, Ops, Reversing
  <2>1. Reversing(s) => je[Target(s)].status = "reversed"
    BY <1>1 DEF ClaimsInv, ReversedOnce, Reversing
  <2> QED
    BY <1>1, <2>1 DEF Found
<1>3. RetriesAgree
  <2> SUFFICES ASSUME NEW s \in Sessions, NEW q \in Sessions, Succeeded(s), Succeeded(q),
                      req[s].key = req[q].key, req[s].key # NoKey
               PROVE  answer[s] = answer[q]
    BY DEF RetriesAgree
  <2>1. SamePurpose(req[s], req[q]) /\ SameKey(s, q)
    BY DEF Inv, TypeOK, ClaimsInv, KeysIdentifyRequests, SameKey
  <2>2. CASE req[s].op = "create"
    <3>1. req[q].op = "create"
      BY <2>1, <2>2 DEF SamePurpose
    <3> QED
      BY <1>1, <2>1, <2>2, <3>1, SameFound
  <2>3. CASE req[s].op = "post"
    <3>1. req[q].op = "post" /\ Target(q) = Target(s)
      BY <2>1, <2>3 DEF SamePurpose, Target
    <3> QED
      BY <1>1, <2>3, <3>1
  <2>4. CASE req[s].op \notin {"create", "post"}
    <3>1. Reversing(s) /\ Reversing(q) /\ Target(q) = Target(s)
      BY <1>1, <2>1, <2>4 DEF SamePurpose, Target, Reversing, Ops
    <3> QED
      BY <1>1, <2>4, <3>1 DEF ClaimsInv, ReversedOnce
  <2> QED
    BY <2>2, <2>3, <2>4
<1> QED
  BY <1>2, <1>3 DEF AnswersHold

\* A success is true of the committed ledger, and all retries under one key
\* get one entry, for any sessions and requests, provided that a key names one
\* operation and a source with its document and date one business document
\* (create_journal_entry, post_journal_entry, void_journal_entry).
THEOREM AnswersKept ==
  KeysIdentifyRequests /\ SourcesIdentifyEntries /\ Spec => []AnswersHold
  BY InitInv, NextInv, InitHistory, NextHistory, InitClaims, NextClaims, InitMoney,
     NextMoney, InitAnswers, NextAnswers, AnswersFollow, PTL
  DEF Spec
=============================================================================
