------------------------------ MODULE MCChecks ------------------------------
(* Small instances of Checks for TLC. *)
EXTENDS Checks, TLC

CONSTANTS d1, d2, d3

MCDates == {d1, d2, d3}
GovernanceKey(c) == <<"chk_bnc", Id(c)>>
ClientKey == <<"client", 0>>
MCKeys == {ClientKey} \cup {GovernanceKey(c) : c \in Checks}

Request(op, c, d, k) == [op |-> op, check |-> c, date |-> d, key |-> k]

\* Check 1 exists in both tables, as their serial ids do.
R1 == <<"receivable", 1>>
P1 == <<"payable", 1>>
MCChecks == {R1, P1}

\* Every operation of both tables on any date; the bounce of the receivable
\* check also as retries of one client key and through governance.
MCRequests ==
  {Request(op, R1, d, NoKey) :
     op \in {"create", "collect", "bounce", "represent"}, d \in MCDates}
  \cup {Request(op, P1, d, NoKey) :
     op \in {"create", "clear", "bounce", "represent"}, d \in MCDates}
  \cup {Request("bounce", R1, d, ClientKey) : d \in MCDates}
  \cup {Request("governance_bounce", R1, d, GovernanceKey(R1)) : d \in MCDates}

\* A check collected and bounced on one day.
SameDayRequests ==
  {Request(op, R1, d1, NoKey) : op \in {"collect", "bounce", "represent"}}

\* A check no request names starts as "none", and one that is named can be
\* moved by one of the requests: the other openings add nothing.
Useful(c) ==
  LET named == {s \in Sessions : Check(s) = c}
  IN IF named = {}
     THEN opening[c] = "none"
     ELSE \E s \in named : opening[c] \in Allowed(req[s].op, Kind(c))

MCInit == Init /\ \A c \in Checks : Useful(c)

Symmetry == Permutations(Sessions) \cup Permutations(MCDates)
=============================================================================
