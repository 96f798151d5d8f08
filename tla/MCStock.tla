------------------------------- MODULE MCStock -------------------------------
(* Small instances of Stock for TLC. *)
EXTENDS Stock, TLC

CONSTANTS main, branch

MCWarehouses == {main, branch}

Held(q, r, c) == [qty |-> q, reserved |-> 0, damaged |-> r, transit |-> 0, avg |-> c]
Layer(w, q, c) == [wh |-> w, left |-> q, cost |-> c, doc |-> <<>>]

\* Four pieces in the main warehouse, bought two at 1.0000 and two at 3.0000,
\* one of them damaged, and one in the branch: in layers, or at the average.
Rows == main :> Held(4, 1, 20000) @@ branch :> Held(1, 0, 20000)
MCOpenings ==
  { [inv |-> Rows, price |-> 20000, layers |-> <<>>],
    [inv |-> Rows, price |-> 20000,
     layers |-> <<Layer(main, 2, 10000), Layer(main, 2, 30000), Layer(branch, 1, 20000)>>] }

MCShipmentForms ==
  { [src |-> main, dst |-> branch, lines |-> <<2>>],
    [src |-> main, dst |-> branch, lines |-> <<1, 1>>],
    [src |-> branch, dst |-> main, lines |-> <<1>>] }
MCTransferForms == { [src |-> main, dst |-> branch, lines |-> <<3>>],
                     [src |-> branch, dst |-> main, lines |-> <<1, 1>>] }
MCOrderForms == { [wh |-> branch, qty |-> 1] }
MCCounts == { [wh |-> branch, qty |-> 2] }

MCKeyOf == [t \in Transfers |-> "key"]

Symmetry == Permutations(Shipments) \cup Permutations(Transfers)
=============================================================================
