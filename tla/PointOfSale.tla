----------------------------- MODULE PointOfSale -----------------------------
(***************************************************************************)
(* The tills of one shop, over the stock that adjustments change and sales *)
(* orders reserve (module Stock): sessions (routers/pos/sessions.py), and  *)
(* sales, held orders and returns (routers/pos/orders.py).                 *)
(*                                                                         *)
(* create_order is one step: its UPDATE of inventory carries the check of  *)
(* the stock.  A return reads what was returned before without a lock, and *)
(* a closing reads its sums without one: each is a read and later writes.  *)
(* Prices are net: tax and discounts are left out.  An Idempotency-Key is  *)
(* the sale: its second use finds the order or fails on the unique index,  *)
(* and changes nothing.  cancel_pos_sale always fails, on columns that     *)
(* pos_orders has not, and is rolled back.                                 *)
(***************************************************************************)
EXTENDS Stock, JESource

CONSTANTS Shop,         \* the warehouse of the sessions
          Price,        \* of a piece
          Clerks,       \* the requests that return goods or close a session
          SaleForms,    \* [lines: the pieces of each, account: "cash" or "bank"]
          ReturnForms,  \* [items: each the [line, qty] it names, cash]
          Gaps,         \* what the cash counted differs from the cash expected
          FirstReturn,  \* the next id of pos_returns
          MaxSessions, MaxSales, MaxReturns  \* bounds

ASSUME PointOfSaleAssumption ==
  /\ Shop \in Warehouses /\ Price \in Nat
  /\ \A f \in SaleForms : f.lines \in Seq(Nat \ {0}) /\ f.account \in {"cash", "bank"}
  /\ ReturnForms \subseteq
       [items : Seq([line : Nat \ {0}, qty : Nat \ {0}]), cash : BOOLEAN]
  /\ {FirstReturn, MaxSessions, MaxSales, MaxReturns} \subseteq Nat

VARIABLES session,   \* the rows of pos_sessions
          sale,      \* the rows of pos_orders, with their consumed layers
          return,    \* the rows of pos_returns, with their items
          clerk,     \* what each request has read
          books,     \* balances of the accounts only the tills post to
          posted,    \* the entries: <<source, source_id, entry_date>>
          treasury,  \* current_balance of the sessions' cash account
          mixed      \* history: goods have moved without layers

posVars == <<session, sale, return, clerk, books, posted, treasury, mixed>>

PosAccounts == {"cash", "bank", "revenue", "cogs", "main", "over_short"}
NotBusy     == [at |-> "idle"]

PosInit ==
  /\ Init
  /\ session = <<>> /\ sale = <<>> /\ return = <<>>
  /\ clerk = [c \in Clerks |-> NotBusy]
  /\ books = [a \in PosAccounts |-> 0] /\ posted = {}
  /\ treasury = 0 /\ mixed = FALSE

StockApart == UNCHANGED <<opening, ship, cancels, transfer, order, adjusted,
                          entries, today>>
BooksApart == UNCHANGED <<stock, gl, books, posted, treasury, mixed>>

Pieces(s)   == SumLines(sale[s].lines)
Paid        == {s \in DOMAIN sale : sale[s].status = "paid"}
PaidIn(i)   == {s \in Paid : sale[s].session = i}
Brought(f)  == SumOver(DOMAIN f.items, LAMBDA k : f.items[k].qty)
Refund(f)   == Price * Brought(f)

(***************************************************************************)
(* The ledger                                                              *)
(***************************************************************************)
Entry(source, id) == <<Normalize(source), id, today>>

\* A sale of `amount` for goods of `cost`; a return passes both negative.
\* The guard on (source, source_id, entry_date) takes a return and a sale with
\* the same id for one, if both are of one day: the second posts nothing.
PostTill(source, id, account, amount, cost) ==
  IF Entry(source, id) \in posted
  THEN UNCHANGED <<gl, books, posted>>
  ELSE /\ gl' = [gl EXCEPT ![Shop] = @ - cost]
       /\ books' = [books EXCEPT ![account] = @ + amount, !["revenue"] = @ - amount,
                                 !["cogs"] = @ + cost]
       /\ posted' = posted \cup {Entry(source, id)}

(***************************************************************************)
(* Sessions                                                                *)
(***************************************************************************)
\* open_session looks for an open session of the user with SKIP LOCKED, and
\* no index backs the check: two requests pass it together, and one passes
\* it while a sale or a closing holds the row of the session there is.
OpenSession ==
  /\ Len(session) < MaxSessions
  /\ session' = Append(session, [open |-> TRUE, sales |-> 0, returns |-> 0,
                                 expected |-> 0, late |-> FALSE])
  /\ UNCHANGED <<sale, return, clerk>> /\ BooksApart /\ StockApart

CashTaken(i)    == Price * SumOver({s \in PaidIn(i) : sale[s].account = "cash"}, Pieces)
ReturnedIn(i)   == {r \in DOMAIN return : return[r].session = i}
CashReturned(i) == SumOver({r \in ReturnedIn(i) : return[r].cash}, LAMBDA r : Refund(return[r]))

\* close_session: the status and the cash, then the snapshot of the UPDATE,
\* which waits for the row, then what it overwrites.
CloseRead(c, i, gap) ==
  /\ clerk[c] = NotBusy /\ session[i].open
  /\ clerk' = [clerk EXCEPT ![c] =
       [at |-> "counted", session |-> i, gap |-> gap,
        expected |-> CashTaken(i) - CashReturned(i)]]
  /\ UNCHANGED <<session, sale, return>> /\ BooksApart /\ StockApart

CloseSum(c) ==
  /\ clerk[c].at = "counted"
  /\ LET i == clerk[c].session
     IN clerk' = [clerk EXCEPT ![c] =
          [at |-> "summed", session |-> i, gap |-> @.gap, expected |-> @.expected,
           sales |-> Price * SumOver(PaidIn(i), Pieces),
           returns |-> SumOver(ReturnedIn(i), LAMBDA r : Refund(return[r]))]]
  /\ UNCHANGED <<session, sale, return>> /\ BooksApart /\ StockApart

\* Mutant: the sums are added to the running totals.
Added(row, k) ==
  [row EXCEPT !.open = FALSE, !.expected = k.expected,
              !.sales = @ + k.sales, !.returns = @ + k.returns]

Closed(row, k) ==
  [row EXCEPT !.open = FALSE, !.expected = k.expected,
              !.sales = k.sales, !.returns = k.returns]

CloseWrite(c) ==
  LET k == clerk[c]
      entry == Entry("pos-close", k.session)
  IN
  /\ k.at = "summed"
  /\ session' = [session EXCEPT ![k.session] = Closed(@, k)]
  /\ clerk' = [clerk EXCEPT ![c] = NotBusy]
  /\ IF k.gap # 0 /\ entry \notin posted
     THEN /\ books' = [books EXCEPT !["main"] = @ + k.gap, !["over_short"] = @ - k.gap]
          /\ posted' = posted \cup {entry}
     ELSE UNCHANGED <<books, posted>>
  /\ UNCHANGED <<sale, return, stock, gl, treasury, mixed>> /\ StockApart

(***************************************************************************)
(* Sales                                                                   *)
(***************************************************************************)
\* The rows of cost_layer_consumptions an issue writes, in their order.
TakenRows(take) ==
  LET rows == Filled([i \in DOMAIN take |-> [layer |-> i, qty |-> take[i]]])
  IN IF Method = "fifo" THEN rows ELSE Reverse(rows)

\* Mutant: what orders have reserved is sold too.
OnShelf(st, q)  == st.inv[Shop].qty >= q
Sellable(st, q) == Free(st.inv[Shop]) >= q

\* One line: by layers, or at products.cost_price whatever the policy.
SellLine(acc, q) ==
  LET st == acc.stock
      issue == Issue(st, Shop, q, st.price)
  IN IF ~acc.ok \/ ~issue.ok \/ ~Sellable(st, q)
     THEN [acc EXCEPT !.ok = FALSE]
     ELSE [ok |-> TRUE,
           stock |-> [issue.stock EXCEPT !.inv[Shop].qty = @ - q],
           cost  |-> acc.cost + Cents(issue.value),
           unit  |-> HalfUp(issue.value, q),
           taken |-> IF Layered(st) THEN acc.taken \o TakenRows(Take(st, Shop, q))
                                    ELSE acc.taken,
           mixed |-> acc.mixed \/ ~Layered(st)]

\* create_order of a paid order.  Neither the status of the session nor its
\* row is looked at before its total is raised.
Sell(i, f) ==
  LET id   == Len(sale) + 1
      sold == FoldLeft(SellLine, [ok |-> TRUE, stock |-> stock, cost |-> 0, unit |-> 0,
                                  taken |-> <<>>, mixed |-> mixed], f.lines)
      total == Price * SumLines(f.lines)
  IN
  /\ id <= MaxSales /\ sold.ok
  /\ stock' = sold.stock /\ mixed' = sold.mixed
  /\ sale' = Append(sale, [status |-> "paid", session |-> i, lines |-> f.lines,
                           account |-> f.account, unit |-> sold.unit,
                           taken |-> sold.taken,
                           entered |-> Entry("pos-order", id) \notin posted])
  /\ session' = [session EXCEPT ![i].sales = @ + total,
       ![i].late = @ \/ \E c \in Clerks : clerk[c].at = "summed" /\ clerk[c].session = i]
  /\ PostTill("pos-order", id, f.account, total, sold.cost)
  /\ treasury' = books'["cash"]
  /\ UNCHANGED <<return, clerk>> /\ StockApart

\* An order that is put on hold moves nothing; its lines do not matter, and the
\* form sends no payments with it.
\* To resume it the client reads it and makes another; cancel_held_order
\* deletes its rows.
Hold(i) ==
  /\ Len(sale) < MaxSales
  /\ sale' = Append(sale, [status |-> "hold", session |-> i, lines |-> <<>>,
                           account |-> "none", unit |-> 0, taken |-> <<>>,
                           entered |-> FALSE])
  /\ UNCHANGED <<session, return, clerk>> /\ BooksApart /\ StockApart

CancelHeld(s) ==
  /\ sale[s].status = "hold"
  /\ sale' = [sale EXCEPT ![s].status = "deleted"]
  /\ UNCHANGED <<session, return, clerk>> /\ BooksApart /\ StockApart

(***************************************************************************)
(* Returns                                                                 *)
(***************************************************************************)
\* What the items of f name of line l.
Named(f, l) ==
  SumOver({k \in DOMAIN f.items : f.items[k].line = l}, LAMBDA k : f.items[k].qty)

Returned(s, l) ==
  SumOver({r \in DOMAIN return : return[r].sale = s}, LAMBDA r : Named(return[r], l))

\* Mutant: earlier returns are not looked at.
FitsAlone(s, item) == item.qty <= sale[s].lines[item.line]
Fits(s, item)      == item.qty + Returned(s, item.line) <= sale[s].lines[item.line]

\* create_return reads: each item is compared with what was returned before,
\* not with the other items.  The return goes to a session the user has open.
ReturnRead(c, s, f) ==
  LET open == {i \in DOMAIN session : session[i].open}
  IN
  /\ clerk[c] = NotBusy /\ s \in Paid /\ Len(return) < MaxReturns
  /\ \A k \in DOMAIN f.items :
       f.items[k].line \in DOMAIN sale[s].lines /\ Fits(s, f.items[k])
  /\ f.cash => treasury >= Refund(f)
  /\ \E i \in IF open = {} THEN {0} ELSE open :
       clerk' = [clerk EXCEPT ![c] =
         [at |-> "returning", sale |-> s, items |-> f.items, cash |-> f.cash,
          session |-> i, seen |-> Len(return)]]
  /\ UNCHANGED <<session, sale, return>> /\ BooksApart /\ StockApart

\* What each row gives back of q, the newest rows first.
GivenBack(rows, q) ==
  LET after(j) == SumOver((j + 1)..Len(rows), LAMBDA k : rows[k].qty)
  IN [j \in DOMAIN rows |-> AtLeast(0, AtMost(rows[j].qty, q - after(j)))]

\* Mutant: the consumptions stay, for the next return to reverse again.
AsTaken(rows, give) == rows

StillTaken(rows, give) ==
  Filled([j \in DOMAIN rows |-> [rows[j] EXCEPT !.qty = @ - give[j]]])

\* handle_return of a sale: what the sale consumed goes back to its layers.
\* Where that is not all of q, a new layer is made of all of q, on top of
\* what went back.
ReverseConsumption(st, q, unit, rows) ==
  LET give == GivenBack(rows, q)
      back == SumTaken(give)
      to(i) == SumFunctionOnSet(give, {j \in DOMAIN rows : rows[j].layer = i})
      cost(j) == give[j] * st.layers[rows[j].layer].cost
      filled == [st EXCEPT !.layers =
                   [i \in DOMAIN st.layers |->
                      [st.layers[i] EXCEPT !.left = @ + to(i)]]]
  IN [rows   |-> StillTaken(rows, give),
      partly |-> 0 < back /\ back < q,
      stock  |-> IF back = q THEN filled
                 ELSE CreateLayers(filled, Shop, <<[qty |-> q, cost |-> unit]>>, <<>>),
      value  |-> IF back = q THEN SumOver(DOMAIN rows, cost) ELSE q * unit]

\* One item: into the layers, or into the average at what the sale cost.
TakeBack(unit, acc, item) ==
  LET q == item.qty
      st == acc.stock
      reversed == ReverseConsumption(st, q, unit, acc.rows)
      restored == IF Layered(st) THEN reversed.stock ELSE UpdateCost(st, Shop, q, unit, 1)
  IN [stock |-> [restored EXCEPT !.inv[Shop].qty = @ + q],
      rows  |-> IF Layered(st) THEN reversed.rows ELSE acc.rows,
      value |-> acc.value + IF Layered(st) THEN reversed.value ELSE q * unit,
      partly |-> acc.partly \/ (Layered(st) /\ reversed.partly),
      mixed |-> acc.mixed \/ ~Layered(st)]

\* The items of a return, one after the other.
BackItems(st, unit, rows, mix, items) ==
  FoldLeft(LAMBDA acc, item : TakeBack(unit, acc, item),
           [stock |-> st, rows |-> rows, value |-> 0, partly |-> FALSE, mixed |-> mix], items)

\* create_return writes.  The refund is taken from the session of the sale,
\* the cash from the cash account whatever the method, and the balance is
\* recomputed for a cash refund only.
ReturnWrite(c) ==
  LET k    == clerk[c]
      id   == FirstReturn + Len(return)
      back == BackItems(stock, sale[k.sale].unit, sale[k.sale].taken, mixed, k.items)
  IN
  /\ k.at = "returning" /\ Len(return) < MaxReturns
  /\ stock' = back.stock /\ mixed' = back.mixed
  /\ sale' = [sale EXCEPT ![k.sale].taken = back.rows]
  /\ return' = Append(return,
       [sale |-> k.sale, items |-> k.items, cash |-> k.cash, session |-> k.session,
        partly |-> back.partly, late |-> \E r \in DOMAIN return : r > k.seen
                                                      /\ return[r].sale = k.sale,
        entered |-> Entry("pos-return", id) \notin posted])
  /\ session' = [session EXCEPT ![sale[k.sale].session].returns = @ + Refund(k)]
  /\ PostTill("pos-return", id, "cash", -Refund(k), -Cents(back.value))
  /\ treasury' = IF k.cash THEN books'["cash"] ELSE treasury
  /\ clerk' = [clerk EXCEPT ![c] = NotBusy]
  /\ StockApart

\* A step of Stock: where it moves goods that are in no layer, it mixes.
StockStep ==
  /\ Next
  /\ mixed' = (mixed \/ (OnHand(stock') # OnHand(stock) /\ ~Layered(stock)))
  /\ UNCHANGED <<session, sale, return, clerk, books, posted, treasury>>

PosNext ==
  \/ OpenSession
  \/ \E i \in DOMAIN session : Hold(i) \/ \E f \in SaleForms : Sell(i, f)
  \/ \E s \in DOMAIN sale : CancelHeld(s)
  \/ \E c \in Clerks :
       \/ \E i \in DOMAIN session, gap \in Gaps : CloseRead(c, i, gap)
       \/ CloseSum(c) \/ CloseWrite(c) \/ ReturnWrite(c)
       \/ \E s \in DOMAIN sale, f \in ReturnForms : ReturnRead(c, s, f)
  \/ StockStep

PosSpec == PosInit /\ [][PosNext]_<<vars, posVars>>

(***************************************************************************)
(* Properties                                                              *)
(***************************************************************************)
SoldNet == SumOver(Paid, Pieces) - SumOver(DOMAIN return, LAMBDA r : Brought(return[r]))

\* The goods are where the documents say: what is on hand and in transit is
\* what there was, plus the counts, less the sales, plus the returns, and what
\* open sales orders have reserved is still there, whichever tills, counts
\* and orders interleave.
ShopStock ==
  /\ OnHand(stock) + InTransit(stock)
       = OnHand(opening) + InTransit(opening) + SumLines(adjusted) - SoldNet
  /\ ReservationsCovered

\* What the shop's layers are worth.
Worth(st) ==
  SumOver(DOMAIN st.layers,
          LAMBDA i : IF st.layers[i].wh = Shop THEN st.layers[i].left * st.layers[i].cost ELSE 0)

\* An entry of a line sold, a return or a count rounds to cents, 100 units, and
\* a count that takes from layers first rounds the cost of a piece to a unit.
Roundings ==
  100 * (SumOver(DOMAIN sale, LAMBDA s : Len(sale[s].lines)) + Len(return) + Len(adjusted))
    + SumOver(DOMAIN adjusted, LAMBDA i : AtLeast(adjusted[i], -adjusted[i]))

\* The cost layers, the shelf and the inventory account are the same goods.
\* Unless a return reversed a consumption in part, the layers never hold more
\* than there is, and what returns give back to a layer was taken from it.  While
\* all goods move by layers, these gain and lose what the shelf does; and if
\* all sales and returns got their entries, the account moves by their value,
\* but for half a unit of each rounding.
SubledgerAgrees ==
  LET clean == \A r \in DOMAIN return : ~return[r].partly
      entered == /\ \A s \in Paid : sale[s].entered
                 /\ \A r \in DOMAIN return : return[r].entered
      gained == Worth(stock) - Worth(opening)
  IN clean =>
       /\ LayerStock(stock, Shop) <= stock.inv[Shop].qty
       /\ \A j \in DOMAIN opening.layers : stock.layers[j].left <= opening.layers[j].left
       /\ ~mixed => LayerStock(stock, Shop) - LayerStock(opening, Shop)
                      = stock.inv[Shop].qty - opening.inv[Shop].qty
       /\ ~mixed /\ entered => 2 * (gained - gl[Shop]) \in -Roundings..Roundings

\* No more of a line is returned than was sold of it (create_return: "return
\* quantity exceeds original quantity"), however many returns there are, but
\* for two that overlap and for a request that names the line twice.
Repeating(r) ==
  \E k, m \in DOMAIN return[r].items :
    k # m /\ return[r].items[k].line = return[r].items[m].line

ReturnsWithinSale ==
  \A s \in Paid :
    (\A r \in DOMAIN return : return[r].sale = s => ~return[r].late /\ ~Repeating(r))
      => \A l \in DOMAIN sale[s].lines : Returned(s, l) <= sale[s].lines[l]

\* A session's total_sales is the sum of its paid orders, though sales raise
\* it and a closing recomputes it; a sale that committed while a closing
\* waited with its sums is the exception.
SessionSales ==
  \A i \in DOMAIN session :
    ~session[i].late => session[i].sales = Price * SumOver(PaidIn(i), Pieces)
=============================================================================
