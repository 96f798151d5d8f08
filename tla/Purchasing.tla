----------------------------- MODULE Purchasing -----------------------------
(***************************************************************************)
(* Buying one product from one supplier: orders and their receipts         *)
(* (routers/purchases/orders.py), the purchase documents of contracts      *)
(* (routers/contracts.py), payments, refunds, credit and debit notes       *)
(* (routers/purchases/payments.py), the cancellation of a document         *)
(* (invoices.py), and what each does to the stock, the ledger and the      *)
(* supplier's balance.                                                     *)
(*                                                                         *)
(* create_purchase_order, create_purchase_invoice and                      *)
(* create_purchase_return name columns their tables do not have, so none   *)
(* of them commits: orders are those converted from a quotation, purchase  *)
(* documents those generated from a contract, and there are no returns.    *)
(*                                                                         *)
(* Every handler locks the order, document or balance it decides on, so it *)
(* is one step, and a retry under the same key changes nothing.  Money is  *)
(* in units of 0.0001, the scale of the columns, and is rounded to 0.01    *)
(* where the code rounds it; a quantity is counted in parts, Per to the    *)
(* piece.  There is one currency, and no tax or discount.                  *)
(*                                                                         *)
(* None of the sources these handlers give their journal entries is in the *)
(* vocabulary (JESource), so all are stored as "system".  Receipts,        *)
(* documents and vouchers are numbered apart, and the ledger's duplicate   *)
(* guard takes the entry of one for that of another with the same number   *)
(* and date.  Cancelling looks entries up by the source they were given.   *)
(***************************************************************************)
EXTENDS Costing, JESource

CONSTANTS wh,              \* the warehouse
          Orders,          \* purchase orders, of one line each
          OrderForms,      \* what an order asks for: [qty, price]
          Per,             \* parts of a piece: 10000 for DECIMAL(18, 4)
          ContractTotals,  \* what a contract's document is for
          Amounts,         \* what a voucher is for
          Allotments,      \* what a voucher allocates to a document
          NoteTotals,      \* what a credit or debit note is for
          Openings,        \* the stock before the first step
          Days,            \* the dates of documents
          Before,          \* receipts, documents and vouchers of other parties
                           \* numbered before these
          AllowOverpayment,                       \* buying.allow_overpayment
          MaxDocuments, MaxVouchers, MaxDecisions \* bounds

ASSUME PurchasingAssumption ==
  /\ wh \in Warehouses /\ IsFiniteSet(Orders) /\ Per \in Nat \ {0}
  /\ OrderForms \subseteq [qty : Nat \ {0}, price : Nat]
  /\ \A t \in ContractTotals \cup NoteTotals : t \in Nat \ {0} /\ t = Cents(t)
  /\ Amounts \subseteq Nat \ {0} /\ Allotments \subseteq Nat \ {0}
  /\ Openings \subseteq
       [inv : [Warehouses -> [qty : Nat, reserved : Nat, damaged : Nat, transit : Nat, avg : Nat]],
        price : Nat, layers : Seq([wh : Warehouses, left : Nat, cost : Nat, doc : {<<>>}])]
  /\ Before \in [receipts : Nat, invoices : Nat, vouchers : Nat]
  /\ AllowOverpayment \in BOOLEAN

VARIABLES stock,     \* inventory row, cost_price, cost layers
          opening,   \* the stock before the first step
          order,     \* purchase_orders with their line; worth and receipts are
                     \* the total and the number of its receipts' lines, and
                     \* petty the number of those of 0.01 or less
          invoice,   \* invoices: purchases and notes
          voucher,   \* payment_vouchers and their allocations
          balance,   \* party_site_balances: negative when we owe the supplier
          journal,   \* the entries posted: [source, id, day, lines, reversed]
          decisions  \* approval decisions written back so far

vars == <<stock, opening, order, invoice, voucher, balance, journal, decisions>>

Accounts == {"inventory", "unbilled", "payable", "cash"}
D2 == 100

\* A journal entry: what it adds to each account.
Entry(inventory, unbilled, payable, cash) ==
  [a \in Accounts |-> CASE a = "inventory" -> inventory [] a = "unbilled" -> unbilled
                        [] a = "payable" -> payable [] a = "cash" -> cash]
Balanced(e) == SumFunctionOnSet(e, Accounts) = 0
Above(x)    == IF x > D2 THEN x ELSE 0

\* quantize(_D2, ROUND_HALF_UP) of a balance, which rounds a half away from zero.
Nearest(x) == IF x < 0 THEN -Cents(-x) ELSE Cents(x)

(***************************************************************************)
(* The ledger                                                              *)
(***************************************************************************)
\* create_journal_entry: an entry without lines is not made, and one with
\* the stored source, number and date of another is taken for that one.
NewEntry(j, source, id, day) ==
  \A e \in j : <<e.source, e.id, e.day>> # <<Normalize(source), id, day>>
Post(j, source, id, day, lines) ==
  IF (\E a \in Accounts : lines[a] # 0) /\ NewEntry(j, source, id, day)
  THEN j \cup {[source |-> Normalize(source), id |-> id, day |-> day,
                lines |-> lines, reversed |-> FALSE]}
  ELSE j

\* What cancelling finds, and reverse_journal_entry.
EntriesOf(j, source, id) ==
  {e \in j : e.source = source /\ e.id = id /\ ~e.reversed}
Reversing(j, found) ==
  (j \ found) \cup {[e EXCEPT !.reversed = TRUE] : e \in found}

InvoiceId(i) == Before.invoices + i
VoucherId(v) == Before.vouchers + v

Purchases   == {i \in DOMAIN invoice : invoice[i].type = "purchase"}
CreditNotes == {i \in DOMAIN invoice : invoice[i].type = "purchase_credit_note"}
DebitNotes  == {i \in DOMAIN invoice : invoice[i].type = "purchase_debit_note"}
Cancelled(i) == invoice[i].status = "cancelled"
Remaining(i) == invoice[i].total - invoice[i].paid
Allocated(i) == {v \in DOMAIN voucher : i \in DOMAIN voucher[v].to}

Init ==
  /\ stock \in Openings /\ opening = stock
  /\ order = [o \in Orders |-> [status |-> "none"]]
  /\ invoice = <<>> /\ voucher = <<>>
  /\ balance = 0 /\ journal = {} /\ decisions = 0

(***************************************************************************)
(* Orders and receipts                                                     *)
(***************************************************************************)
\* convert_rfq_to_po
CreateOrder(o) ==
  /\ order[o].status = "none"
  /\ \E f \in OrderForms :
       order' = [order EXCEPT ![o] =
                   [status |-> "draft", qty |-> f.qty, price |-> f.price,
                    received |-> 0, worth |-> 0, receipts |-> 0, petty |-> 0]]
  /\ UNCHANGED <<stock, opening, invoice, voucher, balance, journal, decisions>>

\* approve_purchase_order.  A converted order has no total, so the budget it
\* asks for in that case is never exceeded.
ApproveOrder(o) ==
  /\ order[o].status = "draft"
  /\ order' = [order EXCEPT ![o].status = "approved"]
  /\ UNCHANGED <<stock, opening, invoice, voucher, balance, journal, decisions>>

\* take_approval_action writes its decision to the order whatever its status.
WriteBack(o) ==
  /\ order[o].status # "none"
  /\ decisions < MaxDecisions /\ decisions' = decisions + 1
  /\ \E s \in {"approved", "rejected"} : order' = [order EXCEPT ![o].status = s]
  /\ UNCHANGED <<stock, opening, invoice, voucher, balance, journal>>

\* Goods come in at a price: update_cost, a layer, the inventory row.
StockInLate(st, q, price, doc) ==
  LET moved == [st EXCEPT !.inv[wh].qty = @ + q]
      costed == UpdateCost(moved, wh, q, price, 1)
  IN IF Layered(st) THEN CreateLayers(costed, wh, <<[qty |-> q, cost |-> price]>>, doc)
                    ELSE costed
StockIn(st, q, price, doc) ==
  LET costed == UpdateCost(st, wh, q, price, 1)
      kept   == IF Layered(st)
                THEN CreateLayers(costed, wh, <<[qty |-> q, cost |-> price]>>, doc)
                ELSE costed
  IN [kept EXCEPT !.inv[wh].qty = @ + q]

Live(o)      == order[o].status # "none"
ReceiptsMade == SumOver({o \in Orders : Live(o)}, LAMBDA o : order[o].receipts)
ReceiptId    == Before.receipts + 1 + ReceiptsMade

\* line_total_cost: the price of q parts, to 0.01.
WorthDown(q, price) == 100 * ((q * price) \div (100 * Per))
Worth(q, price) == 100 * HalfUp(q * price, 100 * Per)

\* receive_purchase_order.  The layer's source is the receipt's line.
Receive(o, q, day) ==
  LET p     == order[o]
      got   == p.received + q
      worth == Worth(q, p.price)
  IN /\ p.status \in {"approved", "partial"} /\ q <= p.qty - p.received
     /\ stock' = StockIn(stock, q, p.price, ReceiptId)
     /\ order' = [order EXCEPT ![o].received = got, ![o].worth = @ + worth,
                    ![o].receipts = @ + 1,
                    ![o].petty = IF worth <= D2 THEN @ + 1 ELSE @,
                    ![o].status = IF got >= p.qty THEN "received" ELSE "partial"]
     /\ journal' = Post(journal, "purchase_order_receipt", ReceiptId, day,
                        Entry(Above(worth), -Above(worth), 0, 0))
     /\ UNCHANGED <<opening, invoice, voucher, balance, decisions>>

(***************************************************************************)
(* The documents of contracts                                              *)
(***************************************************************************)
Document(type, of, total, status) ==
  [type |-> type, of |-> of, total |-> total, paid |-> 0, status |-> status,
   revived |-> FALSE]

\* generate_contract_invoice, of a purchase contract: it writes the document
\* and nothing else, neither an entry nor the supplier's balance.
ContractInvoice(total) ==
  /\ invoice' = Append(invoice, Document("purchase", 0, total, "unpaid"))
  /\ UNCHANGED <<stock, opening, order, voucher, balance, journal, decisions>>

\* What stops a cancellation: a payment that is not the document's own.  As
\* none is found under "payment_voucher", any payment of this one alone passes.
VoucherEntries(v) == EntriesOf(journal, "payment_voucher", VoucherId(v))
OnlyPayments(i) ==
  \A v \in Allocated(i) : VoucherEntries(v) = {} /\ voucher[v].type = "payment"
OnlyInline(i) ==
  \A v \in Allocated(i) : /\ VoucherEntries(v) = {} /\ voucher[v].type = "payment"
                          /\ voucher[v].to[i] <= voucher[v].amount + D2
                          /\ DOMAIN voucher[v].to = {i}

Unallocate(v, i) ==
  [voucher[v] EXCEPT !.status = "void",
                     !.to = [j \in DOMAIN @ \ {i} |-> @[j]]]

\* What cancelling gives back to the balance: above 0.01 only.
WholeTotal(d) == d.total
Outstanding(d) == Above(d.total - d.paid)

\* cancel_purchase_invoice.  A document above 0.01 needs an entry to reverse;
\* one of a contract has no receipt or order to undo, and no return.
CancelInvoice(i) ==
  LET found == EntriesOf(journal, "purchase_invoice", InvoiceId(i))
  IN /\ i \in Purchases /\ ~Cancelled(i)
     /\ found # {} \/ invoice[i].total <= D2
     /\ OnlyInline(i)
     /\ invoice' = [invoice EXCEPT ![i].status = "cancelled"]
     /\ voucher' = [v \in DOMAIN voucher |->
                      IF v \in Allocated(i) THEN Unallocate(v, i) ELSE voucher[v]]
     /\ balance' = balance + Outstanding(invoice[i])
     /\ journal' = Reversing(journal, found)
     /\ UNCHANGED <<stock, opening, order, decisions>>

(***************************************************************************)
(* Payments and refunds                                                    *)
(***************************************************************************)
\* What an allocation makes of a document.  Its status is not looked at: a
\* payment may reach one that is cancelled.
SettledBeyond(d, amount) ==
  [d EXCEPT !.paid = @ + amount, !.status = "paid", !.revived = @ \/ d.status = "cancelled"]
Settled(d, amount) ==
  LET paid == AtMost(d.total, d.paid + amount)
  IN [d EXCEPT !.paid = paid,
        !.status = IF paid >= d.total - D2 THEN "paid"
                   ELSE IF paid > D2 THEN "partial" ELSE @,
        !.revived = @ \/ d.status = "cancelled"]
Allocate(to) ==
  [i \in DOMAIN invoice |-> IF i \in DOMAIN to THEN Settled(invoice[i], to[i])
                                               ELSE invoice[i]]

\* create_supplier_payment: the amount goes to the balance as it is and to
\* the ledger rounded to 0.01, which must leave something to post.
Settle(amount, to, day, type, sign) ==
  /\ Cents(amount) > 0
  /\ \A i \in DOMAIN to : to[i] <= Remaining(i) + D2
  /\ SumFunctionOnSet(to, DOMAIN to) <= amount + D2
  /\ invoice' = Allocate(to)
  /\ voucher' = Append(voucher, [type |-> type, amount |-> amount, to |-> to,
                                 status |-> "posted"])
  /\ balance' = balance + sign * amount
  /\ journal' = Post(journal, "payment_voucher", VoucherId(Len(voucher) + 1), day,
                     Entry(0, 0, sign * Cents(amount), -sign * Cents(amount)))
  /\ UNCHANGED <<stock, opening, order, decisions>>

\* Its test of an overpayment takes the balance for what is owed, though what
\* we owe makes the balance negative.
MayPay(amount) == Cents(amount) <= Nearest(balance) + D2 \/ AllowOverpayment

PaySupplier(amount, to, day) ==
  /\ DOMAIN to \subseteq Purchases \cup DebitNotes /\ MayPay(amount)
  /\ Settle(amount, to, day, "payment", 1)
TakeRefund(amount, to, day) ==
  DOMAIN to \subseteq CreditNotes /\ Settle(amount, to, day, "refund", -1)

(***************************************************************************)
(* Notes                                                                   *)
(***************************************************************************)
\* What a credit note leaves of the document it is linked to, which may be
\* of any type and status.
Credited(i, total) ==
  LET paid == AtMost(invoice[i].total, invoice[i].paid + total)
  IN [invoice EXCEPT ![i].paid = paid, ![i].revived = @ \/ Cancelled(i),
        ![i].status = IF paid >= invoice[i].total THEN "paid"
                      ELSE IF paid > 0 THEN "partial" ELSE @]

\* The note itself, linked to document i or to none; no stock moves.
Note(documents, type, i, total, day, status, sign) ==
  /\ invoice' = Append(documents, Document(type, i, total, status))
  /\ balance' = balance + sign * total
  /\ journal' = Post(journal, type, InvoiceId(Len(invoice) + 1), day,
                     Entry(-sign * total, 0, sign * total, 0))
  /\ UNCHANGED <<stock, opening, order, voucher, decisions>>

\* create_purchase_credit_note and create_purchase_debit_note.
CreditNote(i, total, day) ==
  /\ i # 0 => total <= Cents(Remaining(i)) + D2
  /\ Note(IF i = 0 THEN invoice ELSE Credited(i, total), "purchase_credit_note",
          i, total, day, "posted", 1)
DebitNote(i, total, day) ==
  Note(invoice, "purchase_debit_note", i, total, day, "unpaid", -1)

Receipts(day) == \E o \in Orders : Live(o) /\ \E q \in 1..order[o].qty : Receive(o, q, day)
Notes(day) == \E i \in DOMAIN invoice \cup {0}, total \in NoteTotals :
                CreditNote(i, total, day) \/ DebitNote(i, total, day)
Settlements(day) ==
  \E S \in SUBSET DOMAIN invoice, amount \in Amounts : \E to \in [S -> Allotments] :
    PaySupplier(amount, to, day) \/ TakeRefund(amount, to, day)

Next ==
  \/ \E o \in Orders : CreateOrder(o) \/ ApproveOrder(o) \/ WriteBack(o)
  \/ \E day \in Days : \/ Receipts(day)
                       \/ Len(invoice) < MaxDocuments /\ Notes(day)
                       \/ Len(voucher) < MaxVouchers /\ Settlements(day)
  \/ Len(invoice) < MaxDocuments /\ \E total \in ContractTotals : ContractInvoice(total)
  \/ \E i \in DOMAIN invoice : CancelInvoice(i)

Spec == Init /\ [][Next]_vars

(***************************************************************************)
(* Properties                                                              *)
(***************************************************************************)
Booked(a) == SumOver({e \in journal : ~e.reversed}, LAMBDA e : e.lines[a])
LiveOrders == {o \in Orders : Live(o)}

\* x is at most d away from y.
Close(x, y, d) == x - y <= d /\ y - x <= d

\* No receipt, note or voucher has the number of another, so none was given
\* the other's entry.
ReceiptIds == {Before.receipts + n : n \in 1..ReceiptsMade}
NoteIds    == {InvoiceId(i) : i \in CreditNotes \cup DebitNotes}
VoucherIds == {VoucherId(v) : v \in DOMAIN voucher}
Apart == /\ ReceiptIds \cap NoteIds = {}
         /\ ReceiptIds \cap VoucherIds = {}
         /\ NoteIds \cap VoucherIds = {}

\* The documents stay what their tables allow, nothing is paid beyond its
\* total, and no entry is posted that does not balance.
TypeOK ==
  /\ stock.inv[wh].qty \in Nat /\ \A i \in DOMAIN stock.layers : stock.layers[i].left \in Nat
  /\ \A i \in DOMAIN invoice : invoice[i].paid \in 0..invoice[i].total
  /\ \A v \in DOMAIN voucher : voucher[v].status \in {"posted", "void"}
  /\ \A e \in journal : Balanced(e.lines) /\ e.source \in Values /\ e.day \in Days
  /\ balance \in Int

\* No more is received than ordered, through part receipts and late approval
\* decisions; what an order's receipts are worth is within half a cent each of
\* its price; and the unbilled-purchases account holds what the receipts are
\* worth, all but those of 0.01 or less, which have no entry, while numbers
\* are apart.
AccrualMatchesOrders ==
  /\ \A o \in LiveOrders :
       /\ order[o].received <= order[o].qty
       /\ Close(2 * order[o].worth * Per, 2 * order[o].received * order[o].price,
                D2 * Per * order[o].receipts)
  /\ Apart => LET unbooked == SumOver(LiveOrders, LAMBDA o : order[o].worth) + Booked("unbilled")
              IN 0 <= unbooked
                 /\ unbooked <= D2 * SumOver(LiveOrders, LAMBDA o : order[o].petty)

\* The supplier's balance and the payables account, a subledger and its
\* control account, are no further apart than half a cent for each voucher
\* whose amount is not in whole cents: the ledger rounds it and the balance
\* does not.  So it stays whatever is paid, refunded, noted and cancelled in
\* whichever order, while numbers are apart.
Uneven == {v \in DOMAIN voucher : voucher[v].amount # Cents(voucher[v].amount)}
PayableAgrees ==
  Apart => Close(2 * Booked("payable"), 2 * balance, D2 * Cardinality(Uneven))

\* A document's paid amount is what posted vouchers allocate and credit notes
\* give to it, up to its total, while it is in force, whatever is cancelled
\* beside it; a payment or a note that revived a cancelled one is apart.
PaidIsAllocated ==
  \A i \in DOMAIN invoice :
    ~Cancelled(i) /\ ~invoice[i].revived =>
      invoice[i].paid = AtMost(invoice[i].total,
        SumOver({v \in Allocated(i) : voucher[v].status = "posted"}, LAMBDA v : voucher[v].to[i])
        + SumOver({n \in CreditNotes : invoice[n].of = i}, LAMBDA n : invoice[n].total))

\* Goods on hand are the opening ones and those received, and they are carried
\* at what was paid for them: the average at half a unit per piece and receipt
\* of it, whatever their order, and the layers, once there are any, exactly.
Pieces(st) == SumOver(DOMAIN st.layers, LAMBDA i : st.layers[i].left)
Layers(st) == SumOver(DOMAIN st.layers, LAMBDA i : st.layers[i].left * st.layers[i].cost)
GoodsAtCost ==
  LET row    == stock.inv[wh]
      first  == opening.inv[wh]
      pieces == SumOver(LiveOrders, LAMBDA o : order[o].received)
      paid   == SumOver(LiveOrders, LAMBDA o : order[o].received * order[o].price)
  IN /\ row.qty = first.qty + pieces
     /\ Policy = "per_warehouse_wac" =>
          Close(2 * row.qty * row.avg, 2 * (first.qty * first.avg + paid),
                ReceiptsMade * row.qty)
     /\ IF Layered(opening)
        THEN Pieces(stock) = Pieces(opening) + pieces /\ Layers(stock) = Layers(opening) + paid
        ELSE stock.layers = opening.layers
=============================================================================
