--------------------------- MODULE GovernanceProofs ---------------------------
(***************************************************************************)
(* What is kept of a change and who agreed to it: the theorems about       *)
(* AuditTrail and Approvals.  The two share no state; their proofs share   *)
(* this module.                                                            *)
(*                                                                         *)
(* The audit trail, for any requests, workers, batches and crashes: what   *)
(* is enqueued is committed with the change it is about, is logged once,   *)
(* and the log is one chain.                                               *)
(***************************************************************************)
EXTENDS AuditTrail, Approvals, SequenceTheorems, TLAPS

\* Links numbered from 1 without a gap, each naming the row before it.
Linear(links) ==
  /\ \E n \in Nat : Seqs(links) = 1..n
  /\ \A k, l \in links : k.seq = l.seq => k = l
  /\ \A l \in links :
       IF l.seq = 1 THEN l.prev = NoRow
                    ELSE \E k \in links : k.seq = l.seq - 1 /\ k.row = l.prev

Above(low, high) == \A k \in low, l \in high : k.seq < l.seq

\* A critical row that could not be written aborts its transaction.
Audited ==
  \A r \in Requests :
    /\ outbox[r] # "none" => txn[r] = "committed"
    /\ r \in Critical => txn[r] # "unlogged"
    /\ r \in Critical \cap Writers /\ txn[r] = "committed" => outbox[r] # "none"

\* What a worker has in hand is claimed by it and not flushed yet.
Held(w, r) == claim[r] = w /\ outbox[r] = "pending" /\ attempts[r] < MaxAttempts

InHand(w) ==
  /\ \A r \in todo[w] \cup failed[w] : Held(w, r)
  /\ \A l \in wrote[w] : Held(w, l.row) /\ l.row \notin todo[w]
  /\ \A k, l \in wrote[w] : k.row = l.row => k = l

\* The archive is the older part of the chain, never all of it.
Numbered ==
  /\ Linear(Chain) /\ Above(archive, logs)
  /\ logs = {} => archive = {}

\* The chain end a worker has read is a link, as late as what is archived or
\* its own; others may have added to the log since.
TailFits(w) ==
  /\ \/ tail[w] = Start
     \/ \E l \in Chain \cup wrote[w] : tail[w] = [row |-> l.row, seq |-> l.seq]
  /\ \A l \in archive \cup wrote[w] : l.seq <= tail[w].seq

\* The uncommitted links of a worker continue the chain, and one worker at
\* most has any: the unique index holds up the others.
Writing(w) ==
  /\ Linear(Chain \cup wrote[w]) /\ Above(Chain, wrote[w])
  /\ wrote[w] # {} => \A v \in Workers \ {w} : wrote[v] = {}
  /\ step[w] = "insert" => TailFits(w)

Inv ==
  /\ TypeOK /\ Audited /\ FlushedOnce /\ Numbered
  /\ \A w \in Workers : InHand(w) /\ Writing(w)

(***************************************************************************)
(* Links                                                                   *)
(***************************************************************************)
\* The numbers of a set with one more link.
LEMMA OneMore ==
  ASSUME NEW S \in SUBSET Link, NEW l \in Link
  PROVE  Seqs(S \cup {l}) = Seqs(S) \cup {l.seq}
BY DEF Seqs, Link

\* A chain continued by a link after its last one.
LEMMA Continue ==
  ASSUME NEW S \in SUBSET Link, Linear(S), NEW n \in Nat, Seqs(S) = 1..n,
         NEW l \in Link, l.seq = n + 1,
         IF n = 0 THEN l.prev = NoRow ELSE \E k \in S : k.seq = n /\ k.row = l.prev
  PROVE  Linear(S \cup {l})
<1>1. Seqs(S \cup {l}) = 1..(n + 1)
  <2>1. Seqs(S \cup {l}) = 1..n \cup {n + 1}
    BY OneMore
  <2>2. 1..n \cup {n + 1} = 1..(n + 1)
    OBVIOUS
  <2> QED BY <2>1, <2>2
<1>2. \A k \in S : k.seq \in 1..n
  BY DEF Seqs
<1>3. \A j, k \in S \cup {l} : j.seq = k.seq => j = k
  BY <1>2 DEF Linear, Link
<1>4. ASSUME NEW j \in S \cup {l}
      PROVE  IF j.seq = 1 THEN j.prev = NoRow
                          ELSE \E k \in S \cup {l} : k.seq = j.seq - 1 /\ k.row = j.prev
  <2>1. CASE j \in S
    BY <2>1 DEF Linear
  <2>2. CASE j = l
    BY <2>2
  <2> QED BY <1>4, <2>1, <2>2
<1> QED BY <1>1, <1>3, <1>4 DEF Linear

\* ChainEnd finds the last link of a set that has one.
LEMMA LastLink ==
  ASSUME NEW S \in SUBSET Link, NEW m \in S, \A k \in S : k.seq <= m.seq
  PROVE  \E l \in S : /\ ChainEnd(S) = [row |-> l.row, seq |-> l.seq]
                      /\ \A k \in S : k.seq <= l.seq
<1>1. PICK l \in S : /\ l = CHOOSE j \in S : \A k \in S : k.seq <= j.seq
                     /\ \A k \in S : k.seq <= l.seq
  OBVIOUS
<1>2. ChainEnd(S) = [row |-> l.row, seq |-> l.seq]
  BY <1>1 DEF ChainEnd
<1> QED BY <1>1, <1>2

\* What a worker reads as the chain end fits, as long as it has not moved on.
LEMMA TailRead ==
  ASSUME TypeOK, Numbered, NEW w \in Workers, Writing(w),
         NEW t, t = ChainEnd(logs \cup wrote[w])
  PROVE  /\ t \in [row : Requests \cup {NoRow}, seq : Nat]
         /\ \/ t = Start
            \/ \E l \in Chain \cup wrote[w] : t = [row |-> l.row, seq |-> l.seq]
         /\ \A l \in archive \cup wrote[w] : l.seq <= t.seq
<1> DEFINE S == logs \cup wrote[w]
<1>1. /\ S \in SUBSET Link /\ Chain \cup wrote[w] \in SUBSET Link
      /\ Chain \cup wrote[w] = S \cup archive
  BY DEF TypeOK, Chain
<1>2. CASE S = {}
  <2>1. archive = {} /\ wrote[w] = {} /\ ChainEnd(S) = Start
    BY <1>2 DEF Numbered, ChainEnd
  <2> QED BY <2>1 DEF Start
<1>3. CASE S # {}
  <2>1. PICK n \in Nat : Seqs(S \cup archive) = 1..n
    BY <1>1 DEF Writing, Linear
  <2>2. \A l \in S \cup archive : l.seq \in 1..n
    BY <2>1 DEF Seqs
  <2>3. n \in 1..n
    BY <1>3, <2>2
  <2>4. PICK m \in S \cup archive : m.seq = n
    BY <2>1, <2>3 DEF Seqs
  <2>5. \A k \in archive : \E l \in S : k.seq < l.seq
    BY DEF Numbered, Above
  <2>6. m \in S
    BY <2>2, <2>4, <2>5
  <2>7. PICK l \in S : /\ ChainEnd(S) = [row |-> l.row, seq |-> l.seq]
                       /\ \A k \in S : k.seq <= l.seq
    BY <1>1, <2>2, <2>4, <2>6, LastLink
  <2>8. l.seq = n
    BY <2>2, <2>4, <2>6, <2>7
  <2>9. \A k \in archive \cup wrote[w] : k.seq <= l.seq
    BY <1>1, <2>2, <2>8
  <2>10. l \in Link /\ l \in Chain \cup wrote[w] /\ t = [row |-> l.row, seq |-> l.seq]
    BY <1>1, <2>7
  <2>11. t.seq = l.seq /\ t \in [row : Requests \cup {NoRow}, seq : Nat]
    BY <2>10 DEF Link
  <2> QED BY <2>9, <2>10, <2>11
<1> QED BY <1>2, <1>3

(***************************************************************************)
(* The business transaction                                                *)
(***************************************************************************)
LEMMA InitInv == Init => Inv
<1> SUFFICES ASSUME Init PROVE Inv
  OBVIOUS
<1>1. TypeOK
  <2>1. <<>> \in Seq(Requests)
    BY EmptySeq
  <2> QED BY <2>1, AuditAssumption DEF AuditAssumption, Init, TypeOK, Start
<1>2. Chain = {} /\ \A w \in Workers : wrote[w] = {} /\ todo[w] = {} /\ failed[w] = {}
  BY DEF Init, Chain
<1>3. Linear({})
  <2>1. Seqs({}) = 1..0
    BY DEF Seqs
  <2> QED BY <2>1 DEF Linear
<1>4. Audited /\ FlushedOnce
  BY <1>2 DEF Init, Audited, FlushedOnce
<1>5. Numbered
  BY <1>2, <1>3 DEF Init, Numbered, Above
<1>6. ASSUME NEW w \in Workers PROVE InHand(w) /\ Writing(w)
  <2>1. Chain \cup wrote[w] = {} /\ step[w] = "idle"
    BY <1>2 DEF Init
  <2> QED BY <1>2, <1>3, <2>1 DEF InHand, Writing, Above
<1> QED BY <1>1, <1>4, <1>5, <1>6 DEF Inv

\* Rows that become pending were nobody's.
LEMMA Untouched ==
  ASSUME Inv, UNCHANGED <<attempts, logs, archive, worker>>, TypeOK', Audited',
         \A r \in Requests : \/ outbox'[r] = outbox[r]
                             \/ outbox[r] = "none" /\ outbox'[r] = "pending"
  PROVE  Inv'
<1>1. /\ UNCHANGED <<claim, step, todo, tail, wrote, failed>>
      /\ Chain' = Chain
  BY DEF worker, Chain
<1>2. FlushedOnce'
  BY <1>1 DEF Inv, FlushedOnce
<1>3. Numbered'
  BY <1>1 DEF Inv, Numbered
<1>4. ASSUME NEW w \in Workers PROVE InHand(w)' /\ Writing(w)'
  <2>1. Writing(w)'
    BY <1>1 DEF Inv, Writing, TailFits
  <2>2. /\ todo[w] \in SUBSET Requests /\ failed[w] \in SUBSET Requests
        /\ wrote[w] \in SUBSET Link /\ InHand(w)
    BY DEF Inv, TypeOK
  <2>3. \A r \in Requests : Held(w, r) => Held(w, r)'
    BY <1>1 DEF Held
  <2>4. InHand(w)'
    BY <1>1, <2>2, <2>3 DEF InHand, Link
  <2> QED BY <2>1, <2>4
<1> QED BY <1>2, <1>3, <1>4 DEF Inv

LEMMA BusinessInv ==
  ASSUME Inv, NEW r \in Requests,
         Write(r) \/ Log(r) \/ LogFails(r) \/ Commit(r) \/ Abort(r)
  PROVE  Inv'
<1>1. /\ UNCHANGED <<attempts, logs, archive, worker, crashes>>
      /\ UNCHANGED <<claim, step, todo, tail, wrote, failed>>
  BY DEF Write, Log, LogFails, Commit, Abort, FlushUnchanged, worker
<1>2. /\ txn[r] \in {"start", "written", "logged", "unlogged"}
      /\ \E t \in {"written", "logged", "unlogged", "committed", "aborted"} :
           /\ txn' = [txn EXCEPT ![r] = t]
           /\ t = "unlogged" => r \notin Critical
           /\ t = "committed" => \/ outbox' = [outbox EXCEPT ![r] = "pending"]
                                 \/ txn[r] = "unlogged" /\ outbox' = outbox
           /\ t # "committed" => outbox' = outbox
      /\ order' \in {order, Append(order, r)}
  BY DEF Write, Log, LogFails, Commit, Abort, Moves, OwnsTransaction, ReadyToLog,
         AfterFailure, Swallowed
<1>3. outbox[r] = "none"
  BY <1>2 DEF Inv, Audited, TypeOK
<1>4. TypeOK'
  <2>1. Append(order, r) \in Seq(Requests)
    BY AppendProperties DEF Inv, TypeOK
  <2>2. order' \in Seq(Requests)
    BY <1>2, <2>1 DEF Inv, TypeOK
  <2>3. txn' \in [Requests -> {"start", "written", "logged", "unlogged",
                               "committed", "aborted"}]
    BY <1>2 DEF Inv, TypeOK
  <2>4. outbox' \in [Requests -> {"none", "pending", "flushed"}]
    BY <1>2 DEF Inv, TypeOK
  <2> QED BY <1>1, <2>2, <2>3, <2>4 DEF Inv, TypeOK
<1>5. Audited'
  BY <1>2, <1>3 DEF Inv, Audited, TypeOK
<1>6. \A q \in Requests : \/ outbox'[q] = outbox[q]
                          \/ outbox[q] = "none" /\ outbox'[q] = "pending"
  BY <1>2, <1>3 DEF Inv, TypeOK
<1> QED BY <1>1, <1>4, <1>5, <1>6, Untouched

(***************************************************************************)
(* The flush worker                                                        *)
(***************************************************************************)
\* A worker keeps what it has in hand while others work.
LEMMA OthersKeep ==
  ASSUME Inv, NEW v \in Workers,
         todo'[v] = todo[v], wrote'[v] = wrote[v], failed'[v] = failed[v],
         \A r \in Requests : claim[r] = v => /\ claim'[r] = v
                                             /\ outbox'[r] = outbox[r]
                                             /\ attempts'[r] = attempts[r]
  PROVE  InHand(v)'
<1>1. /\ todo[v] \in SUBSET Requests /\ failed[v] \in SUBSET Requests
      /\ wrote[v] \in SUBSET Link /\ InHand(v)
  BY DEF Inv, TypeOK
<1>2. \A r \in Requests : Held(v, r) => Held(v, r)'
  BY DEF Held
<1> QED BY <1>1, <1>2 DEF InHand, Link

LEMMA ClaimInv ==
  ASSUME Inv, NEW w \in Workers, Claim(w)
  PROVE  Inv'
<1>1. /\ todo' = [todo EXCEPT ![w] = Oldest]
      /\ claim' = [r \in Requests |-> IF r \in Oldest THEN w ELSE claim[r]]
      /\ step' = [step EXCEPT ![w] = "tail"]
      /\ UNCHANGED <<txn, order, outbox, attempts, logs, archive, tail, wrote, failed,
                     crashes>>
      /\ Chain' = Chain
  BY DEF Claim, business, Chain
<1>2. /\ Oldest \in SUBSET Requests
      /\ \A r \in Oldest : /\ claim[r] = NoWorker /\ outbox[r] = "pending"
                           /\ attempts[r] < MaxAttempts
  BY DEF Oldest, Claimable, Retryable
<1>3. TypeOK'
  BY <1>1, <1>2 DEF Inv, TypeOK
<1>4. Audited' /\ FlushedOnce' /\ Numbered'
  BY <1>1 DEF Inv, Audited, FlushedOnce, Numbered
<1>5. ASSUME NEW v \in Workers PROVE Writing(v)'
  <2>1. step'[v] = "insert" => step[v] = "insert"
    BY <1>1 DEF Inv, TypeOK
  <2> QED BY <1>1, <2>1 DEF Inv, Writing, TailFits
<1>6. \A v \in Workers : v # NoWorker
  BY AuditAssumption DEF AuditAssumption
<1>7. ASSUME NEW v \in Workers \ {w} PROVE InHand(v)'
  <2>1. todo'[v] = todo[v]
    BY <1>1 DEF Inv, TypeOK
  <2>2. \A r \in Requests : claim[r] = v => claim'[r] = v
    BY <1>1, <1>2, <1>6
  <2> QED BY <1>1, <2>1, <2>2, OthersKeep
<1>8. InHand(w)'
  <2>1. /\ failed[w] \in SUBSET Requests /\ wrote[w] \in SUBSET Link /\ InHand(w)
        /\ todo'[w] = Oldest
    BY <1>1 DEF Inv, TypeOK
  <2>2. \A r \in Requests : Held(w, r) => Held(w, r)' /\ r \notin Oldest
    BY <1>1, <1>2, <1>6 DEF Held
  <2>3. \A r \in Oldest : Held(w, r)'
    BY <1>1, <1>2 DEF Held
  <2> QED BY <1>1, <2>1, <2>2, <2>3 DEF InHand, Link
<1> QED BY <1>3, <1>4, <1>5, <1>7, <1>8 DEF Inv

LEMMA ReadTailInv ==
  ASSUME Inv, NEW w \in Workers, ReadTail(w)
  PROVE  Inv'
<1> DEFINE t == ChainEnd(logs \cup wrote[w])
<1>1. /\ tail' = [tail EXCEPT ![w] = t]
      /\ step' = [step EXCEPT ![w] = "insert"]
      /\ UNCHANGED <<txn, order, outbox, attempts, logs, archive, claim, todo, wrote,
                     failed, crashes>>
      /\ Chain' = Chain
  BY DEF ReadTail, business, Chain
<1>2. /\ t \in [row : Requests \cup {NoRow}, seq : Nat]
      /\ \/ t = Start
         \/ \E l \in Chain \cup wrote[w] : t = [row |-> l.row, seq |-> l.seq]
      /\ \A l \in archive \cup wrote[w] : l.seq <= t.seq
  BY TailRead DEF Inv
<1> HIDE DEF t
<1>3. TypeOK'
  BY <1>1, <1>2 DEF Inv, TypeOK
<1>4. Audited' /\ FlushedOnce' /\ Numbered'
  BY <1>1 DEF Inv, Audited, FlushedOnce, Numbered
<1>5. ASSUME NEW v \in Workers PROVE InHand(v)'
  BY <1>1, OthersKeep
<1>6. ASSUME NEW v \in Workers PROVE Writing(v)'
  <2>1. CASE v = w
    <3>1. tail'[w] = t
      BY <1>1 DEF Inv, TypeOK
    <3> QED BY <1>1, <1>2, <2>1, <3>1 DEF Inv, Writing, TailFits
  <2>2. CASE v # w
    <3>1. step'[v] = step[v] /\ tail'[v] = tail[v]
      BY <1>1, <2>2 DEF Inv, TypeOK
    <3> QED BY <1>1, <3>1 DEF Inv, Writing, TailFits
  <2> QED BY <2>1, <2>2
<1> QED BY <1>3, <1>4, <1>5, <1>6 DEF Inv

\* The row at hand leaves the batch; what the worker does with it is its own.
LEMMA NextRowTypes ==
  ASSUME Inv, NEW w \in Workers, NEW r \in todo[w], NextRow(w, r),
         NEW good \in SUBSET Link, wrote' = [wrote EXCEPT ![w] = @ \cup good],
         NEW bad \in SUBSET {r}, failed' = [failed EXCEPT ![w] = @ \cup bad]
  PROVE  TypeOK'
<1>1. r \in Requests
  BY DEF Inv, TypeOK
<1>2. /\ todo' = [todo EXCEPT ![w] = @ \ {r}]
      /\ step' = [step EXCEPT ![w] = IF todo[w] = {r} THEN "commit" ELSE "tail"]
      /\ tail' = [tail EXCEPT ![w] = Start]
      /\ UNCHANGED <<txn, order, outbox, attempts, logs, archive, claim, crashes>>
  BY DEF NextRow, business
<1>3. todo' \in [Workers -> SUBSET Requests]
  BY <1>2 DEF Inv, TypeOK
<1>4. step' \in [Workers -> {"idle", "tail", "insert", "commit"}]
  BY <1>2 DEF Inv, TypeOK
<1>5. tail' \in [Workers -> [row : Requests \cup {NoRow}, seq : Nat]]
  BY <1>2 DEF Inv, TypeOK, Start
<1>6. wrote' \in [Workers -> SUBSET Link] /\ failed' \in [Workers -> SUBSET Requests]
  BY <1>1 DEF Inv, TypeOK
<1> QED BY <1>2, <1>3, <1>4, <1>5, <1>6 DEF Inv, TypeOK

\* A row that fails, at its INSERT or before.
LEMMA RowFailsInv ==
  ASSUME Inv, NEW w \in Workers, NEW r \in todo[w], RowFails(w, r), NextRow(w, r)
  PROVE  Inv'
<1>1. /\ todo' = [todo EXCEPT ![w] = @ \ {r}]
      /\ step' = [step EXCEPT ![w] = IF todo[w] = {r} THEN "commit" ELSE "tail"]
      /\ tail' = [tail EXCEPT ![w] = Start]
      /\ failed' = [failed EXCEPT ![w] = @ \cup {r}]
      /\ UNCHANGED <<txn, order, outbox, attempts, logs, archive, claim, crashes, wrote>>
      /\ Chain' = Chain
  BY DEF NextRow, RowFails, business, Chain
<1>2. /\ DOMAIN todo = Workers /\ DOMAIN step = Workers
      /\ DOMAIN tail = Workers /\ DOMAIN failed = Workers
  BY DEF Inv, TypeOK
<1>3. TypeOK'
  <2>1. wrote' = [wrote EXCEPT ![w] = @ \cup {}]
    BY <1>1 DEF Inv, TypeOK
  <2>2. {} \in SUBSET Link /\ {r} \in SUBSET {r}
    OBVIOUS
  <2>3. failed' = [failed EXCEPT ![w] = @ \cup {r}]
    BY <1>1
  <2> QED BY <2>1, <2>2, <2>3, NextRowTypes
<1>4. Audited' /\ FlushedOnce' /\ Numbered'
  BY <1>1 DEF Inv, Audited, FlushedOnce, Numbered
<1>5. ASSUME NEW v \in Workers PROVE Writing(v)'
  <2>1. step'[v] = "insert" => step[v] = "insert" /\ tail'[v] = tail[v]
    BY <1>1, <1>2
  <2> QED BY <1>1, <2>1 DEF Inv, Writing, TailFits
<1>6. ASSUME NEW v \in Workers \ {w} PROVE InHand(v)'
  <2>1. todo'[v] = todo[v] /\ failed'[v] = failed[v]
    BY <1>1
  <2> QED BY <1>1, <2>1, OthersKeep
<1>7. InHand(w)'
  <2>1. InHand(w) /\ todo'[w] = todo[w] \ {r} /\ failed'[w] \subseteq failed[w] \cup {r}
    BY <1>1 DEF Inv, TypeOK
  <2> QED BY <1>1, <2>1 DEF InHand, Held
<1> QED BY <1>3, <1>4, <1>5, <1>6, <1>7 DEF Inv

\* A link inserted under a free number continues the chain, and shuts out the
\* other workers.
LEMMA LinkInserted ==
  ASSUME Inv, NEW w \in Workers, NEW r \in todo[w], NextRow(w, r), step[w] = "insert",
         NEW link, link = [row |-> r, seq |-> tail[w].seq + 1, prev |-> tail[w].row],
         \A v \in Workers \ {w} : link.seq \notin Seqs(wrote[v]),
         ~SeqTaken(link.seq), wrote' = [wrote EXCEPT ![w] = @ \cup {link}],
         failed' = failed
  PROVE  Inv'
<1> DEFINE C == Chain \cup wrote[w]
<1>1. /\ todo' = [todo EXCEPT ![w] = @ \ {r}]
      /\ step' = [step EXCEPT ![w] = IF todo[w] = {r} THEN "commit" ELSE "tail"]
      /\ tail' = [tail EXCEPT ![w] = Start]
      /\ UNCHANGED <<txn, order, outbox, attempts, logs, archive, claim, crashes>>
      /\ Chain' = Chain
  BY DEF NextRow, business, Chain
<1>2. /\ r \in Requests /\ tail[w] \in [row : Requests \cup {NoRow}, seq : Nat]
      /\ C \in SUBSET Link /\ Chain \in SUBSET Link /\ wrote[w] \in SUBSET Link
      /\ DOMAIN todo = Workers /\ DOMAIN step = Workers
      /\ DOMAIN tail = Workers /\ DOMAIN wrote = Workers
  BY DEF Inv, TypeOK, Chain
<1>3. link \in Link /\ link.row = r /\ link.seq = tail[w].seq + 1 /\ link.prev = tail[w].row
  BY <1>2 DEF Link
<1>4. Linear(C) /\ Above(Chain, wrote[w]) /\ TailFits(w) /\ Linear(Chain)
  BY DEF Inv, Writing, Numbered
<1>5. PICK n \in Nat : Seqs(C) = 1..n
  BY <1>4 DEF Linear
<1>6. \A l \in C : l.seq \in 1..n /\ l.seq # link.seq
  <2>1. \A l \in C : l.seq \in 1..n
    BY <1>5 DEF Seqs
  <2>2. \A l \in archive \cup wrote[w] : l.seq # link.seq
    BY <1>2, <1>3, <1>4, <2>1 DEF TailFits
  <2>3. \A l \in logs : l.seq # link.seq
    BY DEF SeqTaken, Seqs
  <2> QED BY <2>1, <2>2, <2>3 DEF Chain
<1>7. tail[w].seq = n
  <2>1. tail[w].seq \in 0..n
    <3>1. CASE tail[w] = Start
      BY <1>5, <3>1 DEF Start
    <3>2. CASE \E l \in C : tail[w] = [row |-> l.row, seq |-> l.seq]
      BY <1>6, <3>2
    <3> QED BY <1>4, <3>1, <3>2 DEF TailFits
  <2>2. link.seq \notin Seqs(C)
    BY <1>6 DEF Seqs
  <2> QED BY <1>2, <1>3, <1>5, <2>1, <2>2
<1>8. Linear(C \cup {link})
  <2>1. IF n = 0 THEN link.prev = NoRow ELSE \E k \in C : k.seq = n /\ k.row = link.prev
    <3>1. CASE tail[w] = Start
      BY <1>3, <1>7, <3>1 DEF Start
    <3>2. CASE \E l \in C : tail[w] = [row |-> l.row, seq |-> l.seq]
      <4>1. PICK l \in C : l.row = link.prev /\ l.seq = n
        BY <1>3, <1>7, <3>2
      <4> QED BY <1>6, <4>1
    <3> QED BY <1>4, <3>1, <3>2 DEF TailFits
  <2> HIDE DEF C
  <2> QED BY <1>2, <1>3, <1>4, <1>5, <1>7, <2>1, Continue
<1>9. \A v \in Workers \ {w} : wrote[v] = {}
  <2>1. SUFFICES ASSUME NEW v \in Workers \ {w}, wrote[v] # {} PROVE FALSE
    OBVIOUS
  <2>2. wrote[w] = {} /\ C = Chain
    BY <2>1 DEF Inv, Writing
  <2>3. Linear(Chain \cup wrote[v]) /\ Above(Chain, wrote[v]) /\ wrote[v] \in SUBSET Link
    BY DEF Inv, Writing, TypeOK
  <2>4. PICK m \in Nat : Seqs(Chain \cup wrote[v]) = 1..m
    BY <2>3 DEF Linear
  <2>5. PICK l \in wrote[v] : l.seq \in 1..m
    BY <2>1, <2>4 DEF Seqs
  <2>6. n < l.seq
    <3>1. n = 0 \/ n \in 1..n
      OBVIOUS
    <3>2. n = 0 \/ \E k \in Chain : k.seq = n
      BY <1>5, <2>2, <3>1 DEF Seqs
    <3> QED BY <2>3, <2>5, <3>2 DEF Above
  <2>7. PICK j \in Chain \cup wrote[v] : j.seq = n + 1
    <3>1. n + 1 \in 1..m
      BY <2>5, <2>6
    <3> QED BY <2>4, <3>1 DEF Seqs
  <2>8. j \in wrote[v]
    BY <1>6, <2>2, <2>7
  <2> QED BY <1>3, <1>7, <2>7, <2>8 DEF Seqs
<1>10. wrote'[w] = wrote[w] \cup {link} /\ \A v \in Workers \ {w} : wrote'[v] = {}
  BY <1>2, <1>9
<1>11. TypeOK'
  <2>1. failed' = [failed EXCEPT ![w] = @ \cup {}] /\ {} \in SUBSET {r}
    BY DEF Inv, TypeOK
  <2>2. {link} \in SUBSET Link
    BY <1>3
  <2> QED BY <2>1, <2>2, NextRowTypes
<1>12. Audited' /\ FlushedOnce' /\ Numbered'
  BY <1>1 DEF Inv, Audited, FlushedOnce, Numbered
<1>13. Writing(w)'
  <2>1. step'[w] # "insert"
    BY <1>1, <1>2
  <2>2. Linear(Chain' \cup wrote'[w])
    BY <1>1, <1>8, <1>10
  <2>3. Above(Chain', wrote'[w])
    BY <1>1, <1>3, <1>4, <1>6, <1>7, <1>10 DEF Above
  <2> QED BY <1>10, <2>1, <2>2, <2>3 DEF Writing
<1>14. ASSUME NEW v \in Workers \ {w} PROVE Writing(v)'
  <2>1. wrote'[v] = {} /\ wrote[v] = {}
    BY <1>9, <1>10
  <2>2. step'[v] = step[v] /\ tail'[v] = tail[v]
    BY <1>1, <1>2
  <2>3. Linear(Chain' \cup wrote'[v]) /\ Above(Chain', wrote'[v])
    BY <1>1, <1>4, <2>1 DEF Above
  <2>4. step'[v] = "insert" => TailFits(v)'
    <3>1. SUFFICES ASSUME step[v] = "insert" PROVE TailFits(v)'
      BY <2>2
    <3>2. TailFits(v)
      BY <3>1 DEF Inv, Writing
    <3>3. /\ Chain' \cup wrote'[v] = Chain \cup wrote[v]
          /\ archive' \cup wrote'[v] = archive \cup wrote[v]
      BY <1>1, <2>1
    <3> QED BY <2>2, <3>2, <3>3 DEF TailFits
  <2> QED BY <2>1, <2>3, <2>4 DEF Writing
<1>15. ASSUME NEW v \in Workers \ {w} PROVE InHand(v)'
  <2>1. todo'[v] = todo[v] /\ wrote'[v] = wrote[v]
    BY <1>1, <1>2
  <2> QED BY <1>1, <2>1, OthersKeep
<1>16. InHand(w)'
  <2>1. InHand(w) /\ todo'[w] = todo[w] \ {r}
    BY <1>1, <1>2 DEF Inv
  <2> QED BY <1>1, <1>3, <1>10, <2>1 DEF InHand, Held
<1> QED BY <1>11, <1>12, <1>13, <1>14, <1>15, <1>16 DEF Inv

\* The end of a worker's transaction, as far as the workers' own state goes.
LEMMA Ended ==
  ASSUME Inv, NEW w \in Workers, Idle(w)
  PROVE  /\ claim' \in [Requests -> Workers \cup {NoWorker}]
         /\ step' \in [Workers -> {"idle", "tail", "insert", "commit"}]
         /\ todo' \in [Workers -> SUBSET Requests]
         /\ tail' \in [Workers -> [row : Requests \cup {NoRow}, seq : Nat]]
         /\ wrote' \in [Workers -> SUBSET Link]
         /\ failed' \in [Workers -> SUBSET Requests]
         /\ InHand(w)' /\ wrote'[w] = {} /\ step'[w] = "idle"
         /\ \A v \in Workers \ {w} :
              /\ todo'[v] = todo[v] /\ wrote'[v] = wrote[v] /\ failed'[v] = failed[v]
              /\ step'[v] = step[v] /\ tail'[v] = tail[v]
              /\ \A r \in Requests : claim[r] = v => claim'[r] = v
<1>1. /\ claim' = [r \in Requests |-> IF claim[r] = w THEN NoWorker ELSE claim[r]]
      /\ step' = [step EXCEPT ![w] = "idle"] /\ todo' = [todo EXCEPT ![w] = {}]
      /\ tail' = [tail EXCEPT ![w] = Start] /\ wrote' = [wrote EXCEPT ![w] = {}]
      /\ failed' = [failed EXCEPT ![w] = {}]
  BY DEF Idle, Forget
<1>2. Start \in [row : Requests \cup {NoRow}, seq : Nat]
  BY DEF Start
<1>3. /\ wrote'[w] = {} /\ todo'[w] = {} /\ failed'[w] = {}
  BY <1>1 DEF Inv, TypeOK
<1>4. InHand(w)'
  BY <1>3 DEF InHand
<1>5. claim' \in [Requests -> Workers \cup {NoWorker}]
  BY <1>1 DEF Inv, TypeOK
<1>6. /\ step' \in [Workers -> {"idle", "tail", "insert", "commit"}]
      /\ todo' \in [Workers -> SUBSET Requests]
      /\ wrote' \in [Workers -> SUBSET Link]
      /\ failed' \in [Workers -> SUBSET Requests]
  BY <1>1 DEF Inv, TypeOK
<1>7. tail' \in [Workers -> [row : Requests \cup {NoRow}, seq : Nat]]
  BY <1>1, <1>2 DEF Inv, TypeOK
<1> QED BY <1>1, <1>3, <1>4, <1>5, <1>6, <1>7 DEF Inv, TypeOK

LEMMA CrashInv ==
  ASSUME Inv, NEW w \in Workers, Crash(w)
  PROVE  Inv'
<1>1. /\ Idle(w) /\ UNCHANGED <<txn, order, outbox, attempts, logs, archive>>
      /\ crashes' = crashes + 1 /\ crashes < MaxCrashes /\ Chain' = Chain
  BY DEF Crash, business, Chain
<1>2. TypeOK'
  <2>1. crashes' \in 0..MaxCrashes
    BY <1>1, AuditAssumption DEF AuditAssumption, Inv, TypeOK
  <2> QED BY <1>1, <2>1, Ended DEF Inv, TypeOK
<1>3. Audited' /\ FlushedOnce' /\ Numbered'
  BY <1>1 DEF Inv, Audited, FlushedOnce, Numbered
<1>4. ASSUME NEW v \in Workers \ {w} PROVE InHand(v)' /\ Writing(v)'
  <2>1. InHand(v)'
    BY <1>1, Ended, OthersKeep
  <2>2. /\ step'[v] = step[v] /\ tail'[v] = tail[v] /\ wrote'[v] = wrote[v]
        /\ wrote'[w] = {} /\ \A u \in Workers \ {w} : wrote'[u] = wrote[u]
    BY <1>1, Ended
  <2>3. Writing(v)
    BY DEF Inv
  <2>4. (Chain \cup wrote[v])' = Chain \cup wrote[v] /\ Above(Chain, wrote[v])' = Above(Chain, wrote[v])
    BY <1>1, <2>2 DEF Above
  <2>5. Linear(Chain \cup wrote[v])'
    BY <2>3, <2>4 DEF Writing, Linear, Seqs
  <2>6. wrote'[v] # {} => \A u \in Workers \ {v} : wrote'[u] = {}
    BY <2>2, <2>3 DEF Writing
  <2>7. step'[v] = "insert" => TailFits(v)'
    BY <1>1, <2>2, <2>3, <2>4 DEF Writing, TailFits
  <2>8. Writing(v)'
    BY <2>3, <2>4, <2>5, <2>6, <2>7 DEF Writing
  <2> QED BY <2>1, <2>8
<1>5. InHand(w)' /\ Writing(w)'
  <2>1. InHand(w)' /\ wrote'[w] = {} /\ step'[w] = "idle"
    BY <1>1, Ended
  <2>2. Linear(Chain' \cup wrote'[w]) /\ Above(Chain', wrote'[w])
    BY <1>1, <2>1 DEF Inv, Numbered, Above
  <2> QED BY <2>1, <2>2 DEF Writing
<1> QED BY <1>2, <1>3, <1>4, <1>5 DEF Inv

LEMMA CommitBatchInv ==
  ASSUME Inv, NEW w \in Workers, CommitBatch(w)
  PROVE  Inv'
<1>1. /\ Idle(w) /\ UNCHANGED <<txn, order, archive, crashes>>
      /\ logs' = logs \cup wrote[w] /\ Chain' = Chain \cup wrote[w]
      /\ outbox' = [r \in Requests |-> IF \E l \in wrote[w] : l.row = r
                                       THEN "flushed" ELSE outbox[r]]
      /\ attempts' = [r \in Requests |-> IF r \in failed[w] THEN attempts[r] + 1
                                                            ELSE attempts[r]]
  BY DEF CommitBatch, business, Chain
<1>2. /\ InHand(w) /\ Writing(w) /\ wrote[w] \in SUBSET Link /\ failed[w] \in SUBSET Requests
      /\ Chain \in SUBSET Link
  BY DEF Inv, TypeOK, Chain
<1>3. TypeOK'
  <2>1. \A r \in failed[w] : attempts[r] < MaxAttempts
    BY <1>2 DEF InHand, Held
  <2>2. attempts' \in [Requests -> 0..MaxAttempts]
    BY <1>1, <2>1, AuditAssumption DEF AuditAssumption, Inv, TypeOK
  <2>3. outbox' \in [Requests -> {"none", "pending", "flushed"}]
    BY <1>1 DEF Inv, TypeOK
  <2>4. logs' \subseteq Link
    BY <1>1, <1>2 DEF Inv, TypeOK
  <2> QED BY <1>1, <2>2, <2>3, <2>4, Ended DEF Inv, TypeOK
<1>4. Audited'
  <2>1. \A l \in wrote[w] : outbox[l.row] # "none"
    BY <1>2 DEF InHand, Held
  <2> QED BY <1>1, <2>1 DEF Inv, Audited
<1>5. FlushedOnce'
  <2>1. \A l \in wrote[w] : outbox[l.row] = "pending" /\ l.row \in Requests
    BY <1>2 DEF InHand, Held, Link
  <2>2. \A k, l \in wrote[w] : k.row = l.row => k = l
    BY <1>2 DEF InHand
  <2>3. \A k \in Chain : k.row \in Requests /\ outbox[k.row] = "flushed"
    BY <1>2 DEF Inv, FlushedOnce, Link
  <2> QED BY <1>1, <2>1, <2>2, <2>3 DEF Inv, FlushedOnce
<1>6. Numbered'
  BY <1>1, <1>2 DEF Inv, Numbered, Writing, Above, Chain
<1>7. ASSUME NEW v \in Workers \ {w} PROVE InHand(v)' /\ Writing(v)'
  <2>1. \A r \in Requests :
          claim[r] = v => claim'[r] = v /\ outbox'[r] = outbox[r] /\ attempts'[r] = attempts[r]
    BY <1>1, <1>2, Ended DEF InHand, Held
  <2>2. InHand(v)'
    BY <1>1, <2>1, Ended, OthersKeep
  <2>3. /\ step'[v] = step[v] /\ tail'[v] = tail[v] /\ wrote'[v] = wrote[v]
        /\ wrote'[w] = {} /\ \A u \in Workers \ {w} : wrote'[u] = wrote[u]
    BY <1>1, Ended
  <2>4. wrote[w] = {} \/ wrote[v] = {}
    BY <1>2 DEF Writing
  <2>5. Linear(Chain' \cup wrote'[v]) /\ Above(Chain', wrote'[v])
    BY <1>1, <1>2, <2>3, <2>4 DEF Inv, Writing, Above
  <2>6. step[v] = "insert" => TailFits(v)'
    <3>1. SUFFICES ASSUME step[v] = "insert" PROVE TailFits(v)'
      OBVIOUS
    <3>2. TailFits(v)
      BY <3>1 DEF Inv, Writing
    <3> QED BY <1>1, <2>3, <3>2 DEF TailFits
  <2>7. wrote'[v] # {} => \A u \in Workers \ {v} : wrote'[u] = {}
    BY <2>3 DEF Inv, Writing
  <2> QED BY <2>2, <2>3, <2>5, <2>6, <2>7 DEF Writing
<1>8. InHand(w)' /\ Writing(w)'
  <2>1. InHand(w)' /\ wrote'[w] = {} /\ step'[w] = "idle"
    BY <1>1, Ended
  <2> QED BY <1>1, <1>2, <2>1 DEF Writing, Above
<1> QED BY <1>3, <1>4, <1>5, <1>6, <1>7, <1>8 DEF Inv

LEMMA ArchiveInv == ASSUME Inv, Archive PROVE Inv'
<1>1. PICK n \in Seqs(logs) :
        LET old == {l \in logs : l.seq <= n}
        IN /\ \E l \in logs : n < l.seq
           /\ \A w \in Workers : step[w] = "insert" => n <= tail[w].seq
           /\ logs' = logs \ old /\ archive' = archive \cup old
           /\ UNCHANGED <<business, outbox, attempts, worker, crashes>>
  BY DEF Archive
<1>2. /\ UNCHANGED <<txn, order, outbox, attempts, claim, step, todo, tail, wrote, failed,
                     crashes>>
      /\ Chain' = Chain
  BY <1>1 DEF business, worker, Chain
<1>3. logs \in SUBSET Link /\ archive \in SUBSET Link /\ n \in Nat
  BY DEF Inv, TypeOK, Seqs, Link
<1>4. TypeOK'
  BY <1>1, <1>2, <1>3 DEF Inv, TypeOK
<1>5. Audited' /\ FlushedOnce'
  BY <1>2 DEF Inv, Audited, FlushedOnce
<1>6. Numbered'
  <2>1. Above(archive', logs')
    BY <1>1, <1>3 DEF Inv, Numbered, Above, Link
  <2>2. logs' # {}
    BY <1>1, <1>3 DEF Link
  <2> QED BY <1>2, <2>1, <2>2 DEF Inv, Numbered
<1>7. ASSUME NEW w \in Workers PROVE InHand(w)' /\ Writing(w)'
  <2>1. InHand(w)'
    BY <1>2, OthersKeep
  <2>2. step[w] = "insert" => TailFits(w)'
    <3>1. SUFFICES ASSUME step[w] = "insert" PROVE TailFits(w)'
      OBVIOUS
    <3>2. TailFits(w) /\ n <= tail[w].seq
      BY <1>1, <3>1 DEF Inv, Writing
    <3>3. \A l \in archive' : l \in archive \/ (l.seq <= n /\ l \in Link)
      BY <1>1, <1>3
    <3>4. tail'[w].seq \in Nat
      BY <1>2 DEF Inv, TypeOK
    <3>5. \A l \in archive' \cup wrote'[w] : l.seq <= tail'[w].seq
      BY <1>2, <1>3, <3>2, <3>3, <3>4 DEF TailFits, Link
    <3> QED BY <1>2, <3>2, <3>5 DEF TailFits
  <2> QED BY <1>2, <2>1, <2>2 DEF Inv, Writing
<1> QED BY <1>4, <1>5, <1>6, <1>7 DEF Inv

(***************************************************************************)
(* The theorems                                                            *)
(***************************************************************************)
LEMMA NextInv == Inv /\ [Next]_vars => Inv'
<1> SUFFICES ASSUME Inv, [Next]_vars PROVE Inv'
  OBVIOUS
<1>1. CASE UNCHANGED vars
  BY <1>1, Untouched DEF vars, business, worker, Inv, TypeOK, Audited
<1>2. ASSUME NEW r \in Requests,
             Write(r) \/ Log(r) \/ LogFails(r) \/ Commit(r) \/ Abort(r)
      PROVE  Inv'
  BY <1>2, BusinessInv
<1>3. ASSUME NEW w \in Workers, InsertRow(w) PROVE Inv'
  <2>1. PICK r \in todo[w] :
          LET link == [row |-> r, seq |-> tail[w].seq + 1, prev |-> tail[w].row] IN
          /\ step[w] = "insert" /\ Foremost(w, r)
          /\ \A v \in Workers \ {w} : link.seq \notin Seqs(wrote[v])
          /\ \/ SeqTaken(link.seq) /\ RowFails(w, r)
             \/ /\ ~SeqTaken(link.seq)
                /\ wrote' = [wrote EXCEPT ![w] = @ \cup {link}]
                /\ UNCHANGED failed
          /\ NextRow(w, r)
    BY <1>3 DEF InsertRow
  <2> QED BY <2>1, RowFailsInv, LinkInserted
<1>4. ASSUME NEW w \in Workers, RowError(w) PROVE Inv'
  BY <1>4, RowFailsInv DEF RowError
<1>5. ASSUME NEW w \in Workers, Claim(w) \/ ReadTail(w) \/ CommitBatch(w) \/ Crash(w)
      PROVE  Inv'
  BY <1>5, ClaimInv, ReadTailInv, CommitBatchInv, CrashInv
<1>6. CASE Archive
  BY <1>6, ArchiveInv
<1> QED BY <1>1, <1>2, <1>3, <1>4, <1>5, <1>6 DEF Next, Flush

\* The invariant holds throughout.
LEMMA Always == Spec => []Inv
BY InitInv, NextInv, PTL DEF Spec

\* The tables of the audit trail and the state of its workers keep their shape.
THEOREM TypeCorrect == Spec => []TypeOK
<1>1. Inv => TypeOK
  BY DEF Inv
<1> QED BY <1>1, Always, PTL

\* A business change and its audit row are committed together (log_activity).
THEOREM NoChangeUnaudited == Spec => []AuditedTogether
<1>1. Inv => AuditedTogether
  BY AuditAssumption DEF AuditAssumption, Inv, Audited, AuditedTogether
<1> QED BY <1>1, Always, PTL

\* Whatever workers flush and wherever they crash, the log and its archive are
\* one chain (_flush_tenant and ux_audit_logs_chain_seq).
THEOREM OneChain == Spec => []ChainLinear
<1>1. Inv => ChainLinear
  BY DEF Inv, Numbered, Linear, ChainLinear
<1> QED BY <1>1, Always, PTL

\* Every flushed row is logged once, and no other (FOR UPDATE SKIP LOCKED).
THEOREM LoggedOnce == Spec => []FlushedOnce
<1>1. Inv => FlushedOnce
  BY DEF Inv
<1> QED BY <1>1, Always, PTL

(***************************************************************************)
(* What a decision on a request means, for any users, chains of steps and  *)
(* bounds: every step was approved, and a decision stays.                  *)
(***************************************************************************)

Steps     == Chains \cup {<<>>}
Workflows == [steps : Steps, active : BOOLEAN, live : BOOLEAN]
RequestRows == [document : Documents, wf : Nat, status : Statuses,
                step : Nat \ {0}, asked : Steps, edited : BOOLEAN, auto : BOOLEAN]

\* An approval of step i of request r, by a user the step allowed when the
\* request was made.
Approved(r, i) ==
  \E a \in action : /\ a.request = r /\ a.step = i /\ a.act = "approve"
                    /\ a.user \in request[r].asked[i]

\* A pending request whose workflow nobody edited: the workflow still has the
\* chain the request was made under, and what lies behind is approved.
OnItsWay(r) ==
  request[r].status = "pending" /\ ~request[r].edited =>
    /\ workflow[request[r].wf].steps = request[r].asked
    /\ \A i \in DOMAIN request[r].asked : i < request[r].step => Approved(r, i)

WellApproved(r) ==
  request[r].status = "approved" /\ ~request[r].auto /\ ~request[r].edited =>
    \A i \in DOMAIN request[r].asked : Approved(r, i)

Tables ==
  /\ workflow \in Seq(Workflows)
  /\ request \in Seq(RequestRows)
  /\ \A r \in DOMAIN request : request[r].wf \in DOMAIN workflow
  /\ \A a \in action : /\ a.request \in DOMAIN request
                       /\ request[a.request].status # "deleted"
  /\ \A a, b \in action : a.key = b.key => a = b

Others ==
  /\ document \in [Documents -> OrderStatuses]
  /\ deleting \subseteq DOMAIN workflow /\ sweep \subseteq DOMAIN request

IInv == Tables /\ Others /\ \A r \in DOMAIN request : OnItsWay(r) /\ WellApproved(r)

(***************************************************************************)
(* Sequences                                                               *)
(***************************************************************************)
\* A sequence rewritten element by element.
LEMMA Rewritten ==
  ASSUME NEW T, NEW s \in Seq(T), NEW S, NEW f, f = [i \in DOMAIN s |-> f[i]],
         \A i \in DOMAIN s : f[i] \in S
  PROVE  f \in Seq(S) /\ DOMAIN f = DOMAIN s
<1>1. Len(s) \in Nat /\ DOMAIN s = 1..Len(s)
  BY LenProperties
<1>2. f \in [1..Len(s) -> S]
  BY <1>1
<1> QED BY <1>1, <1>2, SeqDef

\* A sequence with one more element.
LEMMA Longer ==
  ASSUME NEW S, NEW s \in Seq(S), NEW e \in S
  PROVE  /\ Append(s, e) \in Seq(S)
         /\ Len(s) + 1 \notin DOMAIN s
         /\ DOMAIN Append(s, e) = DOMAIN s \cup {Len(s) + 1}
         /\ \A i \in DOMAIN s : Append(s, e)[i] = s[i] /\ s[i] \in S
         /\ Append(s, e)[Len(s) + 1] = e
<1>1. Len(s) \in Nat /\ DOMAIN s = 1..Len(s)
  BY LenProperties
<1>2. /\ Append(s, e) \in Seq(S) /\ Len(Append(s, e)) = Len(s) + 1
      /\ \A i \in 1..Len(s) : Append(s, e)[i] = s[i]
      /\ Append(s, e)[Len(s) + 1] = e
  BY AppendProperties
<1>3. DOMAIN Append(s, e) = 1..(Len(s) + 1)
  BY <1>2, LenProperties
<1>4. \A i \in DOMAIN s : s[i] \in S
  BY <1>1, ElementOfSeq
<1> QED BY <1>1, <1>2, <1>3, <1>4

\* What the tables say of a row.
LEMMA Rows ==
  ASSUME Tables
  PROVE  /\ \A w \in DOMAIN workflow : workflow[w] \in Workflows
         /\ \A r \in DOMAIN request : request[r] \in RequestRows
  BY LenProperties, ElementOfSeq DEF Tables

\* A chain has its steps from 1 on.
LEMMA ChainOf ==
  ASSUME NEW c \in Steps
  PROVE  Len(c) \in Nat /\ DOMAIN c = 1..Len(c)
<1>1. c \in Seq(SUBSET Users)
  BY ApprovalsAssumption, EmptySeq DEF ApprovalsAssumption, Steps
<1> QED BY <1>1, LenProperties

(***************************************************************************)
(* The invariant                                                           *)
(***************************************************************************)
LEMMA ApprovalsInitInv == ApprovalsInit => IInv
<1> SUFFICES ASSUME ApprovalsInit PROVE IInv
  OBVIOUS
<1>1. <<>> \in Seq(Workflows) /\ <<>> \in Seq(RequestRows) /\ DOMAIN <<>> = {}
  BY EmptySeq, LenProperties
<1> QED BY <1>1 DEF ApprovalsInit, IInv, Tables, Others, OrderStatuses

\* Steps that touch neither workflows nor requests nor actions.
LEMMA DocumentsOnly ==
  ASSUME IInv, UNCHANGED <<workflow, request, action>>, Others'
  PROVE  IInv'
<1>1. Tables'
  BY DEF IInv, Tables
<1>2. \A r \in DOMAIN request : OnItsWay(r)' /\ WellApproved(r)'
  BY DEF IInv, OnItsWay, WellApproved, Approved
<1> QED BY <1>1, <1>2 DEF IInv

LEMMA CreateWorkflowInv ==
  ASSUME IInv, NEW c \in Chains, CreateWorkflow(c)
  PROVE  IInv'
<1> DEFINE w == [steps |-> c, active |-> TRUE, live |-> TRUE]
<1>1. w \in Workflows /\ workflow \in Seq(Workflows) /\ workflow' = Append(workflow, w)
  BY DEF Workflows, Steps, CreateWorkflow, IInv, Tables
<1>2. /\ workflow' \in Seq(Workflows) /\ DOMAIN workflow \subseteq DOMAIN workflow'
      /\ \A i \in DOMAIN workflow : workflow'[i] = workflow[i]
  BY <1>1, Longer
<1>3. UNCHANGED <<request, action, document, deleting, sweep>>
  BY DEF CreateWorkflow
<1>4. Tables' /\ Others'
  BY <1>2, <1>3 DEF IInv, Tables, Others
<1>5. \A r \in DOMAIN request : OnItsWay(r)' /\ WellApproved(r)'
  BY <1>2, <1>3 DEF IInv, Tables, OnItsWay, WellApproved, Approved
<1> QED BY <1>3, <1>4, <1>5 DEF IInv

LEMMA UpdateWorkflowInv ==
  ASSUME IInv, NEW w \in DOMAIN workflow, NEW c \in Chains, NEW b \in BOOLEAN,
         UpdateWorkflow(w, c, b)
  PROVE  IInv'
<1> DEFINE Under(r) == request[r].wf = w /\ request[r].status = "pending"
<1>0. /\ workflow \in Seq(Workflows) /\ request \in Seq(RequestRows)
      /\ \A r \in DOMAIN request : request[r] \in RequestRows
      /\ \A v \in DOMAIN workflow : workflow[v] \in Workflows
  BY Rows DEF IInv, Tables
<1>1. /\ workflow' = [workflow EXCEPT ![w].steps = c, ![w].active = b]
      /\ request' = [r \in DOMAIN request |->
                       IF Under(r) THEN [request[r] EXCEPT !.edited = TRUE]
                                   ELSE request[r]]
      /\ UNCHANGED <<action, document, deleting, sweep>>
  BY DEF UpdateWorkflow
<1>2. workflow' \in Seq(Workflows) /\ DOMAIN workflow' = DOMAIN workflow
  <2>1. \A v \in DOMAIN workflow : workflow'[v] \in Workflows
    BY <1>0, <1>1 DEF Workflows, Steps
  <2>2. workflow' = [v \in DOMAIN workflow |-> workflow'[v]]
    BY <1>1
  <2> QED BY <1>0, <2>1, <2>2, Rewritten
<1>3. request' \in Seq(RequestRows) /\ DOMAIN request' = DOMAIN request
  <2>1. \A r \in DOMAIN request : request'[r] \in RequestRows
    BY <1>0, <1>1 DEF RequestRows
  <2>2. request' = [r \in DOMAIN request |-> request'[r]]
    BY <1>1
  <2> HIDE DEF Under
  <2> QED BY <1>0, <2>1, <2>2, Rewritten
<1>4. \A r \in DOMAIN request : /\ request'[r].wf = request[r].wf
                                /\ request'[r].status = request[r].status
  BY <1>0, <1>1 DEF RequestRows
<1>5. Tables' /\ Others'
  BY <1>1, <1>2, <1>3, <1>4 DEF IInv, Tables, Others
<1>6. ASSUME NEW r \in DOMAIN request
      PROVE  OnItsWay(r)' /\ WellApproved(r)'
  <2>1. CASE Under(r)
    <3>1. request'[r].status = "pending" /\ request'[r].edited
      BY <1>0, <1>1, <2>1 DEF RequestRows
    <3> QED BY <3>1 DEF OnItsWay, WellApproved
  <2>2. CASE ~Under(r)
    <3>1. request'[r] = request[r]
      BY <1>1, <2>2
    <3>2. request[r].status = "pending" => workflow'[request[r].wf] = workflow[request[r].wf]
      BY <1>1, <2>2 DEF IInv, Tables
    <3> QED BY <1>1, <3>1, <3>2 DEF IInv, OnItsWay, WellApproved, Approved
  <2> QED BY <2>1, <2>2
<1> QED BY <1>3, <1>5, <1>6 DEF IInv

LEMMA DeleteWriteInv ==
  ASSUME IInv, NEW w \in DOMAIN workflow, DeleteWrite(w)
  PROVE  IInv'
<1>0. /\ workflow \in Seq(Workflows) /\ request \in Seq(RequestRows)
      /\ \A r \in DOMAIN request : request[r] \in RequestRows
      /\ \A v \in DOMAIN workflow : workflow[v] \in Workflows
  BY Rows DEF IInv, Tables
<1>1. /\ workflow' = [workflow EXCEPT ![w] = Deleted]
      /\ request' = [r \in DOMAIN request |->
                       IF request[r].wf = w
                       THEN [request[r] EXCEPT !.status = "deleted"] ELSE request[r]]
      /\ action' = {a \in action : request[a.request].wf # w}
      /\ deleting' = deleting \ {w} /\ UNCHANGED <<document, sweep>>
  BY DEF DeleteWrite
<1>2. workflow' \in Seq(Workflows) /\ DOMAIN workflow' = DOMAIN workflow
  <2>1. \A v \in DOMAIN workflow : workflow'[v] \in Workflows
    BY <1>0, <1>1 DEF Workflows, Steps, Deleted
  <2>2. workflow' = [v \in DOMAIN workflow |-> workflow'[v]]
    BY <1>1
  <2> QED BY <1>0, <2>1, <2>2, Rewritten
<1>3. request' \in Seq(RequestRows) /\ DOMAIN request' = DOMAIN request
  <2>1. \A r \in DOMAIN request : request'[r] \in RequestRows
    BY <1>0, <1>1 DEF RequestRows, Statuses
  <2>2. request' = [r \in DOMAIN request |-> request'[r]]
    BY <1>1
  <2> QED BY <1>0, <2>1, <2>2, Rewritten
<1>4. \A r \in DOMAIN request : request[r].wf # w => request'[r] = request[r]
  BY <1>1
<1>5. \A r \in DOMAIN request : /\ request'[r].wf = request[r].wf
                                /\ request[r].wf = w => request'[r].status = "deleted"
  BY <1>0, <1>1 DEF RequestRows
<1>6. Tables'
  BY <1>1, <1>2, <1>3, <1>4, <1>5 DEF IInv, Tables
<1>7. Others'
  BY <1>1, <1>2, <1>3 DEF IInv, Others
<1>8. ASSUME NEW r \in DOMAIN request
      PROVE  OnItsWay(r)' /\ WellApproved(r)'
  <2>1. CASE request[r].wf = w
    BY <1>5, <2>1 DEF OnItsWay, WellApproved
  <2>2. CASE request[r].wf # w
    <3>1. request'[r] = request[r] /\ workflow'[request[r].wf] = workflow[request[r].wf]
      BY <1>1, <1>4, <2>2 DEF IInv, Tables
    <3>2. \A i : Approved(r, i) => Approved(r, i)'
      BY <1>1, <2>2, <3>1 DEF Approved
    <3> QED BY <3>1, <3>2 DEF IInv, OnItsWay, WellApproved
  <2> QED BY <2>1, <2>2
<1> QED BY <1>3, <1>6, <1>7, <1>8 DEF IInv

LEMMA CreateRequestInv ==
  ASSUME IInv, NEW d \in Documents, CreateRequest(d)
  PROVE  IInv'
<1>1. PICK w \in Matching :
        /\ request' = Append(request,
             [document |-> d, wf |-> w, status |-> "pending", step |-> 1,
              asked |-> workflow[w].steps, edited |-> FALSE, auto |-> FALSE])
        /\ UNCHANGED <<workflow, action, document, deleting, sweep>>
  BY DEF CreateRequest
<1> DEFINE q == [document |-> d, wf |-> w, status |-> "pending", step |-> 1,
                 asked |-> workflow[w].steps, edited |-> FALSE, auto |-> FALSE]
<1>. PICK new : new = Len(request) + 1
  OBVIOUS
<1>2. w \in DOMAIN workflow /\ w \in Nat /\ workflow[w].steps \in Steps
  BY <1>1, Rows, LenProperties DEF Matching, IInv, Tables, Workflows
<1>3. q \in RequestRows
  BY <1>2 DEF RequestRows, Statuses
<1>4. request \in Seq(RequestRows)
  BY DEF IInv, Tables
<1>5. /\ request' \in Seq(RequestRows) /\ new \notin DOMAIN request
      /\ DOMAIN request' = DOMAIN request \cup {new}
      /\ \A r \in DOMAIN request : request'[r] = request[r]
      /\ request'[new] = q
  <2> HIDE DEF q
  <2> QED BY <1>1, <1>3, <1>4, Longer DEF q
<1>6. Tables' /\ Others'
  BY <1>1, <1>2, <1>5 DEF IInv, Tables, Others
<1>7. ASSUME NEW r \in DOMAIN request
      PROVE  OnItsWay(r)' /\ WellApproved(r)'
  BY <1>1, <1>5 DEF IInv, Tables, OnItsWay, WellApproved, Approved
<1>8. OnItsWay(new)' /\ WellApproved(new)'
  <2>1. \A i \in DOMAIN workflow[w].steps : ~(i < 1)
    BY <1>2, ChainOf
  <2>2. /\ request'[new].status = "pending" /\ request'[new].wf = w
        /\ request'[new].asked = workflow[w].steps /\ request'[new].step = 1
    BY <1>5
  <2> QED BY <1>1, <2>1, <2>2 DEF OnItsWay, WellApproved
<1> QED BY <1>5, <1>6, <1>7, <1>8 DEF IInv

\* What Outcome makes of a pending request.
LEMMA OutcomeOf ==
  ASSUME IInv, NEW r \in DOMAIN request, NEW act \in Acts,
         NEW q, q = request[r], q.status = "pending",
         NEW c, c = workflow[q.wf].steps, q.step \in DOMAIN c,
         NEW o, o = Outcome(r, act)
  PROVE  /\ o \in RequestRows /\ o.wf = q.wf /\ o.asked = q.asked
         /\ o.edited = q.edited /\ o.auto = q.auto /\ o.status # "deleted"
         /\ o.status = "pending" => act = "approve" /\ o.step = q.step + 1
         /\ o.status = "approved" => act = "approve" /\ q.step = Len(c)
<1>1. q \in RequestRows /\ c \in Steps
  BY Rows DEF IInv, Tables, Workflows
<1>2. Len(c) \in Nat /\ q.step \in 1..Len(c)
  BY <1>1, ChainOf
<1>3. CASE act = "approve" /\ q.step >= Len(c)
  <2>1. o = [q EXCEPT !.status = "approved"] /\ q.step = Len(c)
    BY <1>1, <1>2, <1>3 DEF Outcome, RequestRows
  <2> QED BY <1>1, <1>3, <2>1 DEF RequestRows, Statuses
<1>4. CASE act = "approve" /\ q.step < Len(c)
  <2>1. o = [q EXCEPT !.step = @ + 1]
    BY <1>1, <1>2, <1>4 DEF Outcome, RequestRows
  <2> QED BY <1>1, <1>4, <2>1 DEF RequestRows, Statuses
<1>5. CASE act = "reject"
  <2>1. o = [q EXCEPT !.status = "rejected"]
    BY <1>5 DEF Outcome
  <2> QED BY <1>1, <1>5, <2>1 DEF RequestRows, Statuses
<1>6. CASE act = "return"
  <2>1. o = [q EXCEPT !.status = "returned", !.step = Before(@)]
    BY <1>6 DEF Outcome
  <2>2. Before(q.step) \in Nat \ {0}
    BY <1>1 DEF Before, RequestRows
  <2> QED BY <1>1, <1>6, <2>1, <2>2 DEF RequestRows, Statuses
<1>7. act = "approve" => q.step >= Len(c) \/ q.step < Len(c)
  BY <1>2
<1> QED BY <1>3, <1>4, <1>5, <1>6, <1>7 DEF Acts

LEMMA TakeActionInv ==
  ASSUME IInv, NEW u \in Users, NEW r \in DOMAIN request, NEW act \in Acts,
         NEW k \in Keys, TakeAction(u, r, act, k)
  PROVE  IInv'
<1>. PICK q, c, o : q = request[r] /\ c = workflow[q.wf].steps /\ o = Outcome(r, act)
  OBVIOUS
<1>. DEFINE a0 == [key |-> k, request |-> r, step |-> q.step, act |-> act, user |-> u]
<1>1. /\ q.status = "pending" /\ q.step \in DOMAIN c /\ u \in c[q.step]
      /\ \A a \in action : a.key # k
      /\ action' = action \cup {a0} /\ request' = [request EXCEPT ![r] = o]
      /\ WriteBack(r, o) /\ UNCHANGED <<workflow, deleting, sweep>>
  BY DEF TakeAction, MayAct
<1>2. /\ o \in RequestRows /\ o.wf = q.wf /\ o.asked = q.asked
      /\ o.edited = q.edited /\ o.auto = q.auto /\ o.status # "deleted"
      /\ o.status = "pending" => act = "approve" /\ o.step = q.step + 1
      /\ o.status = "approved" => act = "approve" /\ q.step = Len(c)
  BY <1>1, OutcomeOf
<1>3. /\ q \in RequestRows /\ \A s \in DOMAIN request : request[s] \in RequestRows
  BY Rows DEF IInv
<1>4. request' \in Seq(RequestRows) /\ DOMAIN request' = DOMAIN request
  BY <1>1, <1>2, ExceptSeq, LenProperties DEF IInv, Tables
<1>5. request'[r] = o /\ \A s \in DOMAIN request : s # r => request'[s] = request[s]
  BY <1>1
<1>6. Tables'
  <2>1. \A a \in action' : a.request \in DOMAIN request' /\ request'[a.request].status # "deleted"
    BY <1>1, <1>2, <1>4, <1>5 DEF IInv, Tables
  <2>2. \A a, b \in action' : a.key = b.key => a = b
    BY <1>1 DEF IInv, Tables
  <2>3. \A s \in DOMAIN request' : request'[s].wf \in DOMAIN workflow'
    BY <1>1, <1>2, <1>4, <1>5 DEF IInv, Tables
  <2> QED BY <1>1, <1>4, <2>1, <2>2, <2>3 DEF IInv, Tables
<1>7. Others'
  BY <1>1, <1>4 DEF IInv, Others, WriteBack, OrderStatuses
<1>8. \A s \in DOMAIN request : \A i : Approved(s, i) => Approved(s, i)'
  BY <1>1, <1>2, <1>5 DEF Approved
<1>9. \A s \in DOMAIN request : s # r => OnItsWay(s)' /\ WellApproved(s)'
  BY <1>1, <1>5, <1>8 DEF IInv, OnItsWay, WellApproved
<1>10. ASSUME ~q.edited, act = "approve", NEW i \in DOMAIN q.asked, i <= q.step
       PROVE  Approved(r, i)'
  <2>1. c = q.asked /\ (i < q.step => Approved(r, i)')
    BY <1>1, <1>8, <1>10 DEF IInv, OnItsWay
  <2>2. i = q.step => Approved(r, i)'
    <3>1. u \in request'[r].asked[q.step]
      BY <1>1, <1>2, <1>5, <2>1
    <3>2. \E a \in action' : /\ a.request = r /\ a.step = q.step
                             /\ a.act = "approve" /\ a.user = u
      <4>1. a0 \in action'
        BY <1>1
      <4>2. /\ a0.request = r /\ a0.step = q.step
            /\ a0.act = "approve" /\ a0.user = u
        BY <1>10
      <4> QED BY <4>1, <4>2
    <3> QED BY <3>1, <3>2 DEF Approved
  <2>3. i \in Nat /\ q.step \in Nat
    BY <1>3, ChainOf DEF RequestRows
  <2> QED BY <1>10, <2>1, <2>2, <2>3
<1>11. OnItsWay(r)'
  <2>1. SUFFICES ASSUME o.status = "pending", ~q.edited
                 PROVE  /\ c = q.asked
                        /\ \A i \in DOMAIN q.asked : i < o.step => Approved(r, i)'
    BY <1>1, <1>2, <1>5 DEF OnItsWay
  <2>2. c = q.asked
    BY <1>1, <2>1 DEF IInv, OnItsWay
  <2>3. q.asked \in Steps /\ q.step \in Nat /\ o.step = q.step + 1
    BY <1>2, <1>3, <2>1 DEF RequestRows
  <2>4. \A i \in DOMAIN q.asked : i < o.step => i <= q.step
    BY <2>3, ChainOf
  <2> QED BY <1>2, <1>10, <2>1, <2>2, <2>4
<1>12. WellApproved(r)'
  <2>1. SUFFICES ASSUME o.status = "approved", ~q.edited
                 PROVE  \A i \in DOMAIN q.asked : Approved(r, i)'
    BY <1>2, <1>5 DEF WellApproved
  <2>2. c = q.asked
    BY <1>1, <2>1 DEF IInv, OnItsWay
  <2>3. q.asked \in Steps /\ q.step = Len(q.asked)
    BY <1>2, <1>3, <2>1, <2>2 DEF RequestRows
  <2>4. \A i \in DOMAIN q.asked : i <= q.step
    BY <2>3, ChainOf
  <2> QED BY <1>2, <1>10, <2>1, <2>4
<1> QED BY <1>4, <1>6, <1>7, <1>9, <1>11, <1>12 DEF IInv

\* Where requests of R, pending or not, get rows that are neither pending nor
\* decided by people, the invariant stays.
LEMMA SweptInv ==
  ASSUME IInv, NEW R \in SUBSET DOMAIN request, NEW f,
         \A r \in R : /\ f[r] \in RequestRows /\ f[r].wf = request[r].wf
                      /\ f[r].asked = request[r].asked
                      /\ (f[r].status = "deleted") = (request[r].status = "deleted")
                      /\ \/ f[r].status \notin {"pending", "approved"}
                         \/ f[r].status = "approved" /\ f[r].auto,
         request' = [r \in DOMAIN request |-> IF r \in R THEN f[r] ELSE request[r]],
         UNCHANGED <<workflow, action, document, deleting>>,
         sweep' \subseteq DOMAIN request
  PROVE  IInv'
<1>1. \A r \in DOMAIN request : request[r] \in RequestRows
  BY Rows DEF IInv
<1>2. request' \in Seq(RequestRows) /\ DOMAIN request' = DOMAIN request
  <2>1. request' = [r \in DOMAIN request |-> request'[r]]
    OBVIOUS
  <2>2. \A r \in DOMAIN request : request'[r] \in RequestRows
    BY <1>1
  <2>3. request \in Seq(RequestRows)
    BY DEF IInv, Tables
  <2> QED BY <2>1, <2>2, <2>3, Rewritten
<1>3. Tables' /\ Others'
  BY <1>1, <1>2 DEF IInv, Tables, Others
<1>4. ASSUME NEW r \in DOMAIN request
      PROVE  OnItsWay(r)' /\ WellApproved(r)'
  BY DEF IInv, OnItsWay, WellApproved, Approved
<1> QED BY <1>2, <1>3, <1>4 DEF IInv

\* Every step of ApprovalsSpec.
LEMMA ApprovalsNextInv == IInv /\ [ApprovalsNext]_approvalVars => IInv'
<1> SUFFICES ASSUME IInv, [ApprovalsNext]_approvalVars PROVE IInv'
  OBVIOUS
<1>0. \A r \in DOMAIN request : request[r] \in RequestRows
  BY Rows DEF IInv
<1>1. CASE UNCHANGED approvalVars
  BY <1>1, DocumentsOnly DEF approvalVars, IInv, Others
<1>2. ASSUME NEW c \in Chains, CreateWorkflow(c) PROVE IInv'
  BY <1>2, CreateWorkflowInv
<1>3. ASSUME NEW w \in DOMAIN workflow, NEW c \in Chains, NEW active \in BOOLEAN,
             UpdateWorkflow(w, c, active)
      PROVE  IInv'
  BY <1>3, UpdateWorkflowInv
<1>4. ASSUME NEW w \in DOMAIN workflow, DeleteRead(w) PROVE IInv'
  BY <1>4, DocumentsOnly DEF DeleteRead, IInv, Others
<1>5. ASSUME NEW w \in DOMAIN workflow, DeleteWrite(w) PROVE IInv'
  BY <1>5, DeleteWriteInv
<1>6. ASSUME NEW d \in Documents, CreateRequest(d) PROVE IInv'
  BY <1>6, CreateRequestInv
<1>7. ASSUME NEW d \in Documents, CreateOrder(d) \/ ApproveOrder(d) \/ ReceiveOrder(d)
      PROVE  IInv'
  BY <1>7, DocumentsOnly
     DEF CreateOrder, ApproveOrder, ReceiveOrder, IInv, Others, OrderStatuses
<1>8. ASSUME NEW u \in Users, NEW r \in DOMAIN request, NEW act \in Acts, NEW k \in Keys,
             TakeAction(u, r, act, k)
      PROVE  IInv'
  BY <1>8, TakeActionInv
<1>9. CASE AutoApprove
  <2> DEFINE small == {r \in DOMAIN request : /\ request[r].status = "pending"
                                              /\ request[r].document \in Small}
             f == [r \in DOMAIN request |->
                     [request[r] EXCEPT !.status = "approved", !.auto = TRUE]]
  <2>1. request' = [r \in DOMAIN request |-> IF r \in small THEN f[r] ELSE request[r]]
    BY <1>9 DEF AutoApprove
  <2>2. \A r \in small : /\ f[r] \in RequestRows /\ f[r].wf = request[r].wf
                         /\ f[r].asked = request[r].asked
                         /\ f[r].status = "approved" /\ f[r].auto
                         /\ request[r].status # "deleted"
    BY <1>0 DEF RequestRows, Statuses
  <2>3. small \in SUBSET DOMAIN request
    OBVIOUS
  <2>4. UNCHANGED <<workflow, action, document, deleting, sweep>>
    BY <1>9 DEF AutoApprove
  <2> HIDE DEF small, f
  <2> QED BY <2>1, <2>2, <2>3, <2>4, SweptInv DEF IInv, Others
<1>10. CASE SweepRead
  BY <1>10, DocumentsOnly DEF SweepRead, IInv, Others
<1>11. CASE SweepWrite
  <2> DEFINE f == [r \in DOMAIN request |-> Escalate(r)]
  <2>1. /\ sweep \in SUBSET DOMAIN request /\ sweep' = {}
        /\ UNCHANGED <<workflow, action, document, deleting>>
    BY <1>11 DEF SweepWrite, IInv, Others
  <2>2. request' = [r \in DOMAIN request |-> IF r \in sweep THEN f[r] ELSE request[r]]
    BY <1>11 DEF SweepWrite
  <2>3. \A r \in sweep :
          /\ f[r] \in RequestRows /\ f[r].wf = request[r].wf
          /\ f[r].asked = request[r].asked
          /\ (f[r].status = "deleted") = (request[r].status = "deleted")
          /\ f[r].status \notin {"pending", "approved"}
    BY <1>0, <2>1 DEF Escalate, RequestRows, Statuses
  <2> HIDE DEF f
  <2> QED BY <2>1, <2>2, <2>3, SweptInv
<1> QED
  BY <1>1, <1>2, <1>3, <1>4, <1>5, <1>6, <1>7, <1>8, <1>9, <1>10, <1>11 DEF ApprovalsNext

\* The tables are what ApprovalTables says.
LEMMA InvTypeOK == IInv => ApprovalTables
<1> SUFFICES ASSUME IInv PROVE ApprovalTables
  OBVIOUS
<1> QED BY Rows DEF IInv, Tables, Others, ApprovalTables, Workflows, RequestRows, Steps

\* What has been decided stays, unless a sweep was holding it.
LEMMA Final ==
  ASSUME IInv, [ApprovalsNext]_approvalVars, NEW r \in DOMAIN request,
         request[r].status \in {"approved", "rejected", "returned"}, r \notin sweep
  PROVE  request'[r].status \in {request[r].status, "deleted"}
<1>0. request \in Seq(RequestRows) /\ \A s \in DOMAIN request : request[s] \in RequestRows
  BY Rows DEF IInv, Tables
<1>1. CASE UNCHANGED approvalVars
  BY <1>1 DEF approvalVars
<1>2. ASSUME NEW c \in Chains, CreateWorkflow(c)
      PROVE  request'[r] = request[r]
  BY <1>2 DEF CreateWorkflow
<1>3. ASSUME NEW w \in DOMAIN workflow, NEW c \in Chains, NEW active \in BOOLEAN,
             UpdateWorkflow(w, c, active)
      PROVE  request'[r] = request[r]
  BY <1>3 DEF UpdateWorkflow
<1>4. ASSUME NEW w \in DOMAIN workflow, DeleteRead(w)
      PROVE  request'[r] = request[r]
  BY <1>4 DEF DeleteRead
<1>5. ASSUME NEW w \in DOMAIN workflow, DeleteWrite(w)
      PROVE  request'[r].status \in {request[r].status, "deleted"}
  BY <1>0, <1>5 DEF DeleteWrite, RequestRows
<1>6. ASSUME NEW d \in Documents, CreateRequest(d)
      PROVE  request'[r] = request[r]
  <2>1. PICK q : request' = Append(request, q)
    BY <1>6 DEF CreateRequest
  <2>2. Len(request) \in Nat /\ r \in 1..Len(request)
    BY <1>0, LenProperties
  <2> QED BY <1>0, <2>1, <2>2
<1>7. ASSUME NEW d \in Documents, CreateOrder(d) \/ ApproveOrder(d) \/ ReceiveOrder(d)
      PROVE  request'[r] = request[r]
  BY <1>7 DEF CreateOrder, ApproveOrder, ReceiveOrder
<1>8. ASSUME NEW u \in Users, NEW s \in DOMAIN request, NEW act \in Acts, NEW k \in Keys,
             TakeAction(u, s, act, k)
      PROVE  request'[r] = request[r]
  BY <1>8 DEF TakeAction
<1>9. CASE AutoApprove
  BY <1>9 DEF AutoApprove
<1>10. CASE SweepRead
  BY <1>10 DEF SweepRead
<1>11. CASE SweepWrite
  BY <1>11 DEF SweepWrite
<1> QED
  BY <1>1, <1>2, <1>3, <1>4, <1>5, <1>6, <1>7, <1>8, <1>9, <1>10, <1>11 DEF ApprovalsNext

(***************************************************************************)
(* The theorems                                                            *)
(***************************************************************************)
\* Workflows, requests and actions are what their columns and keys allow.
THEOREM ApprovalTypes == ApprovalsSpec => []ApprovalTables
  BY ApprovalsInitInv, ApprovalsNextInv, InvTypeOK, PTL DEF ApprovalsSpec

\* No request counts as approved without an approval of every step of the chain
\* it was made under, by somebody that step allows (take_approval_action).
THEOREM NothingSkipped == ApprovalsSpec => []EveryStepApproved
<1>1. IInv => EveryStepApproved
  BY DEF IInv, EveryStepApproved, WellApproved, Approved
<1> QED BY <1>1, ApprovalsInitInv, ApprovalsNextInv, PTL DEF ApprovalsSpec

\* A decision is not taken back, whoever acts, retries, edits or deletes, but by
\* an escalation sweep that read the request while it was pending.
THEOREM DecidedForGood == ApprovalsSpec => DecisionsFinal
<1>1. IInv /\ [ApprovalsNext]_approvalVars =>
        [\A r \in DOMAIN request :
           request[r].status \in {"approved", "rejected", "returned"} =>
             \/ request'[r].status \in {request[r].status, "deleted"}
             \/ r \in sweep]_approvalVars
  BY Final
<1> QED BY <1>1, ApprovalsInitInv, ApprovalsNextInv, PTL DEF ApprovalsSpec, DecisionsFinal
=============================================================================
