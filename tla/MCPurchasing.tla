---------------------------- MODULE MCPurchasing ----------------------------
(* A small instance of Purchasing for TLC. *)
EXTENDS Purchasing, TLC

CONSTANTS main

MCWarehouses == {main}

\* Half a piece in stock, bought at 2.0000: at the average, or in a layer.
Rows == main :> [qty |-> 1, reserved |-> 0, damaged |-> 0, transit |-> 0, avg |-> 20000]
MCAverage == [inv |-> Rows, price |-> 20000, layers |-> <<>>]
MCOpenings == { MCAverage,
    [MCAverage EXCEPT !.layers = <<[wh |-> main, left |-> 1, cost |-> 20000, doc |-> <<>>]>>] }

\* Half a piece of the first is worth 1.50165, and of the second 0.00745.
MCOrderForms == { [qty |-> 2, price |-> 30033], [qty |-> 2, price |-> 149] }
\* Receipts are numbered from 1, documents from 2, vouchers from 4.
MCBefore == [receipts |-> 0, invoices |-> 1, vouchers |-> 3]

\* A bound on the states TLC goes on from: orders are received beside one
\* document or voucher, and more of those are made where nothing is ordered.
Scope == \/ LiveOrders = {} /\ opening.layers = <<>>
         \/ Len(invoice) + Len(voucher) <= 1
=============================================================================
