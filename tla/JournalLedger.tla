--------------------------- MODULE JournalLedger ---------------------------
(***************************************************************************)
(* What the general ledger promises, without sessions, locks or keys.      *)
(* An entry is recorded once, as a draft or posted; posting it, at birth   *)
(* or later, moves every account balance by the entry's lines in the same  *)
(* step; a posted entry is reversed at most once, by a new entry, and its  *)
(* own lines stay on the balances.  The reversal of an entry in base       *)
(* currency has the opposite lines; of the reversal of a foreign one only  *)
(* the accounts are promised.  GeneralLedger is shown to implement this    *)
(* specification.                                                          *)
(***************************************************************************)
EXTENDS Integers

CONSTANTS Entries,      \* journal entry ids
          Accounts,     \* GL accounts
          NoEntry       \* "no such entry"

VARIABLES state,        \* state[e]: what became of entry e
          lines,        \* lines[e][a]: signed effect of e on account a
          reverses,     \* reverses[e]: the entry e is the reversal of
          foreign,      \* foreign[e]: e is in a foreign currency
          balance       \* balance[a]: accounts.balance

ledgerVars == <<state, lines, reverses, foreign, balance>>

Zero == [a \in Accounts |-> 0]

LedgerTypeOK ==
  /\ state \in [Entries -> {"none", "draft", "posted", "reversed"}]
  /\ lines \in [Entries -> [Accounts -> Int]]
  /\ reverses \in [Entries -> Entries \cup {NoEntry}]
  /\ foreign \in [Entries -> BOOLEAN]
  /\ balance \in [Accounts -> Int]

LedgerInit ==
  /\ state = [e \in Entries |-> "none"]
  /\ lines = [e \in Entries |-> Zero]
  /\ reverses = [e \in Entries |-> NoEntry]
  /\ foreign = [e \in Entries |-> FALSE]
  /\ balance = Zero

Apply(l) == balance' = [a \in Accounts |-> balance[a] + l[a]]

\* e gets lines and a currency of its own, whatever they are.
SomeLines(e) ==
  /\ lines'[e] \in [Accounts -> Int]
  /\ lines' = [lines EXCEPT ![e] = lines'[e]]
  /\ foreign' = [foreign EXCEPT ![e] = foreign'[e]]

RecordDraft(e) ==
  /\ state[e] = "none"
  /\ state' = [state EXCEPT ![e] = "draft"]
  /\ SomeLines(e)
  /\ UNCHANGED <<reverses, balance>>

RecordPosted(e) ==
  /\ state[e] = "none"
  /\ state' = [state EXCEPT ![e] = "posted"]
  /\ SomeLines(e)
  /\ Apply(lines'[e])
  /\ UNCHANGED reverses

Post(e) ==
  /\ state[e] = "draft"
  /\ state' = [state EXCEPT ![e] = "posted"]
  /\ Apply(lines[e])
  /\ UNCHANGED <<lines, reverses, foreign>>

Undoes(l, m) == \A a \in Accounts : m[a] = -l[a]
SameAccounts(l, m) == \A a \in Accounts : (l[a] = 0) = (m[a] = 0)

\* e is reversed by the new entry r; a reversal is itself never reversed.
Reverse(e, r) ==
  /\ state[e] = "posted" /\ reverses[e] = NoEntry
  /\ state[r] = "none"
  /\ state' = [state EXCEPT ![e] = "reversed", ![r] = "posted"]
  /\ SomeLines(r)
  /\ foreign'[r] = foreign[e]
  /\ SameAccounts(lines[e], lines'[r])
  /\ ~foreign[e] => Undoes(lines[e], lines'[r])
  /\ reverses' = [reverses EXCEPT ![r] = e]
  /\ Apply(lines'[r])

LedgerNext ==
  \/ \E e \in Entries : RecordDraft(e) \/ RecordPosted(e) \/ Post(e)
  \/ \E e, r \in Entries : Reverse(e, r)

LedgerSpec == LedgerInit /\ [][LedgerNext]_ledgerVars
=============================================================================
