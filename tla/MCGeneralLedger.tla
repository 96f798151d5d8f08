-------------------------- MODULE MCGeneralLedger --------------------------
(* Small instances of GeneralLedger for TLC. *)
EXTENDS GeneralLedger, TLC

CONSTANTS cash, revenue, inv1

Lines(n) == [a \in Accounts |-> IF a = cash THEN n ELSE IF a = revenue THEN n ELSE 0]

Day1 == 1
Day2 == 2

Creation(source, doc, key, status, n, rate) ==
  [ op |-> "create", source |-> source, doc |-> doc, key |-> key,
    date |-> Day1, status |-> status, lines |-> Lines(n), rate |-> rate,
    target |-> NoSession ]

OnEntry(op, t, key, date) ==
  [ op |-> op, source |-> "manual", doc |-> NoDoc, key |-> key,
    date |-> date, status |-> "posted", lines |-> Lines(1), rate |-> 1,
    target |-> t ]

MCDates == {Day1, Day2}
MCKeys == {<<NoSession, "new">>} \cup (Sessions \X {"post", "void"})

\* Drafts and posted entries, manual or from a module and in a foreign
\* currency, with retries of the same key, and posts, voids and reversals of any entry of the run.
MCRequests ==
  { Creation("manual", NoDoc, <<NoSession, "new">>, "posted", 1, 1),
    Creation("manual", NoDoc, NoKey, "draft", 2, 1),
    Creation("sales-invoice", inv1, NoKey, "posted", 3, 2) }
  \cup {OnEntry("post", t, k, Day1) : t \in Sessions, k \in {NoKey}}
  \cup {OnEntry("post", t, <<t, "post">>, Day1) : t \in Sessions}
  \cup {OnEntry("void", t, <<t, "void">>, Day2) : t \in Sessions}
  \cup {OnEntry("reverse", t, NoKey, Day1) : t \in Sessions}

\* Requests that contend for locks: an entry number, two account rows taken
\* in either order, the row of an entry.
ContendingRequests ==
  { Creation("manual", NoDoc, NoKey, "posted", 1, 1),
    Creation("manual", NoDoc, NoKey, "draft", 2, 1) }
  \cup {OnEntry("post", t, NoKey, Day1) : t \in Sessions}
  \cup {OnEntry("reverse", t, NoKey, Day1) : t \in Sessions}

OneDay == {Day1}

Symmetry == Permutations(Sessions)

ASSUME KeysIdentifyRequests

ASSUME SourcesIdentifyEntries
=============================================================================
