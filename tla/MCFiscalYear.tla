---------------------------- MODULE MCFiscalYear ----------------------------
(* Small instances of FiscalYear for TLC. *)
EXTENDS FiscalYear, TLC

CONSTANTS p1, p2, k1

\* A year of two dates, each a period, and the first day after it.
MCPeriods == {p1, p2}
MCDatesOf == (p1 :> {1}) @@ (p2 :> {2})
MCRevenue == {"sales", "returns"}
MCExpense == {"costs"}

\* Sales of 2 were posted before.
MCOpening == ("sales" :> -2) @@ ("returns" :> 0) @@ ("costs" :> 0)

Close(shut, k) == [op |-> "close", periods |-> shut, key |-> k]
Reopen(k)      == [op |-> "reopen", key |-> k]
On(op, p)      == [op |-> op, period |-> p]
Post(d, from, to, n) ==
  [op |-> "post", date |-> d,
   lines |-> [a \in Accounts |-> IF a = to THEN n ELSE IF a = from THEN -n ELSE 0]]

\* A sale, sales taken back beyond what was sold, costs that leave no result
\* (the year cannot be closed with either of these), and a return booked
\* against costs, which the closing entry doubles.
MCRequests ==
  {Close(TRUE, NoKey), Close(FALSE, NoKey), Close(TRUE, k1), Reopen(NoKey)}
  \cup {On(op, p) : op \in {"toggle", "lock", "unlock"}, p \in Periods}
  \cup {Post(1, "sales", "cash", 1), Post(1, "cash", "sales", 3),
        Post(2, "cash", "costs", 2), Post(2, "costs", "returns", 1)}

\* Two requests to close the year around one to reopen it.
RecloseRequests == {Close(TRUE, NoKey), Reopen(NoKey)}

Symmetry == Permutations(Sessions)

ASSUME KeysIdentifyRequests
=============================================================================
