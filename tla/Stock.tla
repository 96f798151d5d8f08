-------------------------------- MODULE Stock --------------------------------
(***************************************************************************)
(* Stock of one product in several warehouses: shipments                   *)
(* (routers/inventory/shipments.py), direct transfers (transfers.py),      *)
(* adjustments (adjustments.py), the reservations of sales orders          *)
(* (routers/sales/orders.py), and the costs they move                      *)
(* (services/costing_service.py).                                          *)
(*                                                                         *)
(* A handler that locks the rows it decides on is one step.  Two are not:  *)
(* cancelling reads a shipment without a lock, and a transfer looks its    *)
(* key up without one.  Every warehouse has its inventory row from the     *)
(* start.  Costs and values are integers in units of 0.0001.               *)
(***************************************************************************)
EXTENDS Costing

CONSTANTS Shipments, Transfers, Orders, Keys,
          ShipmentForms,  \* what a shipment can ask for: [src, dst, lines]
          TransferForms,  \* [src, dst, lines]
          OrderForms,     \* [wh, qty]
          Counts,         \* adjustments: [wh, qty], the quantity counted
          Openings,       \* stock before the first step: [inv, price, layers]
          KeyOf,          \* the idempotency key of each transfer request
          LastDay,        \* bound on the days
          MaxAdjustments, \* bound on the adjustments
          NoForm

ASSUME StockAssumption ==
  /\ KeyOf \in [Transfers -> Keys]
  /\ LastDay \in Nat \ {0} /\ MaxAdjustments \in Nat
  /\ IsFiniteSet(Warehouses) /\ IsFiniteSet(Shipments) /\ IsFiniteSet(Orders)
  /\ Warehouses \cap {"transit", "adjustment"} = {}
  /\ ShipmentForms \cup TransferForms \subseteq
       [src : Warehouses, dst : Warehouses, lines : Seq(Nat \ {0})]
  /\ \A f \in ShipmentForms \cup TransferForms : f.src # f.dst
  /\ OrderForms \cup Counts \subseteq [wh : Warehouses, qty : Nat]
  /\ Openings \subseteq
       [inv : [Warehouses -> [qty : Nat, reserved : {0}, damaged : Nat, transit : Nat, avg : Nat]],
        price : Nat, layers : Seq([wh : Warehouses, left : Nat, cost : Nat, doc : {<<>>}])]
  /\ \A st \in Openings, w \in Warehouses : LayerStock(st, w) <= st.inv[w].qty

VARIABLES stock,     \* the inventory rows, products.cost_price, cost_layers
          opening,   \* the stock before the first step
          ship,      \* ship[s]: the stock_shipments row and what it moved
          cancels,   \* shipments a cancellation has read as pending
          transfer,  \* transfer[t]: how far the request is
          order,     \* order[o]: the sales order and its reservation
          adjusted,  \* the rows of stock_adjustments: their differences
          gl,        \* balances: an inventory account per warehouse, "transit",
                     \* "adjustment"
          entries,   \* source "shipment" entries: <<source_id, entry_date>>
          today

vars == <<stock, opening, ship, cancels, transfer, order, adjusted, gl,
          entries, today>>

Accounts == Warehouses \cup {"transit", "adjustment"}
SumLines(q) == SumFunction(q)
Repeats(f)  == Len(f.lines) > 1

(***************************************************************************)
(* The ledger                                                              *)
(***************************************************************************)
Post(debit, credit, value) ==
  gl' = [gl EXCEPT ![debit] = @ + value, ![credit] = @ - value]

\* create_journal_entry with source shipment_dispatch or shipment_receive:
\* both normalize to "shipment", and the guard on (source, source_id,
\* entry_date) takes the second of one day for the first.
NewSource(s) == \A e \in entries : e[1] # s
NewEntry(s) == <<s, today>> \notin entries

PostShipment(s, debit, credit, value) ==
  IF value > 0 /\ NewEntry(s)
  THEN Post(debit, credit, value) /\ entries' = entries \cup {<<s, today>>}
  ELSE UNCHANGED <<gl, entries>>

(***************************************************************************)
(* Shipments                                                               *)
(***************************************************************************)
NoShipment == [status |-> "none", form |-> NoForm, moved |-> 0, value |-> 0,
               rows |-> <<>>, sent |-> 0, got |-> 0]

Init ==
  /\ stock \in Openings /\ opening = stock
  /\ ship = [s \in Shipments |-> NoShipment]
  /\ cancels = {}
  /\ transfer = [t \in Transfers |-> [at |-> "new", form |-> NoForm]]
  /\ order = [o \in Orders |-> [status |-> "none", form |-> NoForm]]
  /\ adjusted = <<>>
  /\ gl = [a \in Accounts |-> 0]
  /\ entries = {}
  /\ today = 1

ShippingUnchanged == UNCHANGED <<ship, cancels>>
OthersUnchanged   == UNCHANGED <<opening, transfer, order, adjusted, today>>

NotPending(s) == ship[s].status \in {"dispatched", "received"}
Underway(s)   == ship[s].status = "dispatched"

\* What the pending shipments from w have promised.
Promised(w) ==
  SumOver({s \in Shipments : ship[s].status = "pending" /\ ship[s].form.src = w},
          LAMBDA s : SumLines(ship[s].form.lines))

\* create_shipment.  The shipment is its idempotency key, which is unique: a
\* retry finds it and changes nothing.
CreateShipment(s) ==
  /\ ship[s].status = "none"
  /\ \E f \in ShipmentForms :
       /\ Available(stock.inv[f.src]) - Promised(f.src) >= SumLines(f.lines)
       /\ ship' = [ship EXCEPT ![s] = [NoShipment EXCEPT !.status = "pending", !.form = f]]
  /\ UNCHANGED <<stock, cancels, gl, entries>> /\ OthersUnchanged

\* dispatch_shipment, line by line; all of it or nothing.
SendLine(src, acc, q) ==
  LET st == acc.stock
      issue == Issue(st, src, q, CogsCost(st, src))
  IN IF ~acc.ok \/ Free(st.inv[src]) < q \/ ~issue.ok
     THEN [acc EXCEPT !.ok = FALSE]
     ELSE [ok |-> TRUE,
           stock |-> [issue.stock EXCEPT !.inv[src].qty = @ - q,
                                         !.inv[src].transit = @ + q],
           value |-> acc.value + issue.value,
           rows |-> acc.rows \o issue.rows]

Dispatch(s) ==
  LET f == ship[s].form
      sent == FoldLeft(LAMBDA acc, q : SendLine(f.src, acc, q),
                       [ok |-> TRUE, stock |-> stock, value |-> 0, rows |-> <<>>],
                       f.lines)
  IN /\ ship[s].status = "pending"
     /\ sent.ok
     /\ stock' = sent.stock
     /\ ship' = [ship EXCEPT ![s] =
                   [@ EXCEPT !.status = "dispatched", !.moved = SumLines(f.lines),
                             !.value = sent.value, !.rows = sent.rows, !.sent = today]]
     /\ PostShipment(s, "transit", f.src, sent.value)
     /\ UNCHANGED cancels /\ OthersUnchanged

\* confirm_shipment, line by line.  The cost of a line is read back from the
\* dispatch movements of its product: of all its lines.
ReceiveLine(s, acc, q) ==
  LET src   == ship[s].form.src
      dst   == ship[s].form.dst
      value == ship[s].value
      moved == ship[s].moved
      rows  == IF ship[s].rows # <<>> THEN ship[s].rows
               ELSE <<[qty |-> q, cost |-> HalfUp(value, moved)]>>
      layered == IF Layered(acc.stock) THEN CreateLayers(acc.stock, dst, rows, <<>>)
                                       ELSE acc.stock
      costed  == UpdateCost(layered, dst, q, value, moved)
  IN IF ~acc.ok \/ acc.stock.inv[src].transit < q
     THEN [acc EXCEPT !.ok = FALSE]
     ELSE [ok |-> TRUE,
           stock |-> [costed EXCEPT !.inv[src].transit = @ - q,
                                    !.inv[dst].qty = @ + q],
           value |-> acc.value + value]

Confirm(s) ==
  LET f == ship[s].form
      got == FoldLeft(LAMBDA acc, q : ReceiveLine(s, acc, q),
                      [ok |-> TRUE, stock |-> stock, value |-> 0], f.lines)
  IN /\ Underway(s)
     /\ got.ok
     /\ stock' = got.stock
     /\ ship' = [ship EXCEPT ![s].status = "received", ![s].got = today]
     /\ PostShipment(s, f.dst, "transit", got.value)
     /\ UNCHANGED cancels /\ OthersUnchanged

\* cancel_shipment reads the status without a lock, and later updates the row
\* whatever its status has become.  (recall_shipment always fails on a column
\* stock_shipments has not, and is rolled back: it changes nothing.)
CancelRead(s) ==
  /\ ship[s].status = "pending" /\ s \notin cancels
  /\ cancels' = cancels \cup {s}
  /\ UNCHANGED <<stock, ship, gl, entries>> /\ OthersUnchanged

CancelWrite(s) ==
  /\ s \in cancels
  /\ ship' = [ship EXCEPT ![s].status = "cancelled"]
  /\ cancels' = cancels \ {s}
  /\ UNCHANGED <<stock, gl, entries>> /\ OthersUnchanged

(***************************************************************************)
(* Transfers, adjustments, reservations                                    *)
(***************************************************************************)
\* create_stock_transfer and transfer_stock look their key up in
\* stock_transfer_log, where it is not unique.
TransferLookup(t) ==
  /\ transfer[t].at = "new"
  /\ transfer' = [transfer EXCEPT ![t].at =
                    IF \E u \in Transfers : KeyOf[u] = KeyOf[t] /\ transfer[u].at = "done"
                    THEN "replayed" ELSE "moving"]
  /\ UNCHANGED <<stock, opening, order, adjusted, gl, entries, today>>
  /\ ShippingUnchanged

\* One item of a transfer.  The method of the destination is looked up after
\* the source's layers were consumed.
MoveLine(f, acc, q) ==
  LET st    == acc.stock
      own   == st.inv[f.src].avg
      issue == Issue(st, f.src, q, own)
      cost  == IF Layered(st) THEN HalfUp(issue.value, q) ELSE own
      after == IF Layered(issue.stock)
               THEN CreateLayers(issue.stock, f.dst, issue.rows, <<>>) ELSE issue.stock
      dst   == st.inv[f.dst]
  IN IF ~acc.ok \/ Available(st.inv[f.src]) < q \/ ~issue.ok
     THEN [acc EXCEPT !.ok = FALSE]
     ELSE [ok |-> TRUE, value |-> acc.value + issue.value,
           stock |-> [after EXCEPT
             !.inv[f.src].qty = @ - q,
             !.inv[f.dst].qty = @ + q,
             !.inv[f.dst].avg = NewCost(dst.qty, dst.avg, q, cost, 1)]]

\* All items of a transfer: create_stock_transfer moves one, transfer_stock
\* any number in one transaction, with one entry for all of them.
Moved(f) == FoldLeft(LAMBDA acc, q : MoveLine(f, acc, q),
                     [ok |-> TRUE, stock |-> stock, value |-> 0], f.lines)

TransferMove(t) ==
  /\ transfer[t].at = "moving"
  /\ \E f \in TransferForms :
       LET moved == Moved(f)
       IN /\ Available(stock.inv[f.src]) >= SumLines(f.lines)
          /\ moved.ok
          /\ stock' = moved.stock
          /\ transfer' = [transfer EXCEPT ![t] = [at |-> "done", form |-> f]]
          /\ IF moved.value > 100 THEN Post(f.dst, f.src, moved.value)
                                  ELSE UNCHANGED gl
  /\ UNCHANGED <<opening, order, adjusted, entries, today>> /\ ShippingUnchanged

\* create_adjustment and post_inventory_adjustment: a count that differs from
\* the books.  Values are rounded to 0.01 for the ledger.
Adjust(c) ==
  LET inv  == stock.inv[c.wh]
      d    == c.qty - inv.qty
      cost == IF inv.avg > 0 THEN inv.avg ELSE stock.price
      raised == UpdateCost(stock, c.wh, d, cost, 1)
      grown  == IF Layered(stock)
                THEN CreateLayers(raised, c.wh, <<[qty |-> d, cost |-> cost]>>, <<>>)
                ELSE raised
      issue  == Issue(stock, c.wh, -d, cost)
      unit   == IF Layered(stock) THEN HalfUp(issue.value, -d) ELSE cost
  IN /\ Len(adjusted) < MaxAdjustments
     /\ adjusted' = Append(adjusted, d)
     /\ \/ /\ d > 0
           /\ stock' = [grown EXCEPT !.inv[c.wh].qty = c.qty]
           /\ Post(c.wh, "adjustment", Cents(d * cost))
        \/ /\ d < 0 /\ Free(inv) + d >= 0 /\ issue.ok
           /\ stock' = [issue.stock EXCEPT !.inv[c.wh].qty = c.qty]
           /\ Post("adjustment", c.wh, Cents(-d * unit))
     /\ UNCHANGED <<opening, transfer, order, entries, today>> /\ ShippingUnchanged

\* create_sales_order reserves, with the check in the UPDATE;
\* cancel_sales_order releases.
CreateOrder(o) ==
  /\ order[o].status = "none"
  /\ \E f \in OrderForms :
       /\ Free(stock.inv[f.wh]) >= f.qty
       /\ order' = [order EXCEPT ![o] = [status |-> "draft", form |-> f]]
       /\ stock' = [stock EXCEPT !.inv[f.wh].reserved = @ + f.qty]
  /\ UNCHANGED <<opening, transfer, adjusted, gl, entries, today>> /\ ShippingUnchanged

CancelOrder(o) ==
  LET f == order[o].form
  IN /\ order[o].status = "draft"
     /\ order' = [order EXCEPT ![o].status = "cancelled"]
     /\ stock' = [stock EXCEPT !.inv[f.wh].reserved = AtLeast(0, @ - f.qty)]
     /\ UNCHANGED <<opening, transfer, adjusted, gl, entries, today>>
     /\ ShippingUnchanged

NextDay ==
  /\ today < LastDay
  /\ today' = today + 1
  /\ UNCHANGED <<stock, opening, transfer, order, adjusted, gl, entries>>
  /\ ShippingUnchanged

Next ==
  \/ \E s \in Shipments : \/ CreateShipment(s) \/ Dispatch(s) \/ Confirm(s)
                          \/ CancelRead(s) \/ CancelWrite(s)
  \/ \E t \in Transfers : TransferLookup(t) \/ TransferMove(t)
  \/ \E c \in Counts : Adjust(c)
  \/ \E o \in Orders : CreateOrder(o) \/ CancelOrder(o)
  \/ NextDay

Spec == Init /\ [][Next]_vars

(***************************************************************************)
(* Properties                                                              *)
(***************************************************************************)
Row == [qty : Nat, reserved : Nat, damaged : Nat, transit : Nat, avg : Nat]

\* Quantities on hand, reserved and in transit never go below zero, nor does
\* what a layer has left or a cost, whatever order the handlers run in.
TypeOK ==
  /\ stock.inv \in [Warehouses -> Row] /\ stock.price \in Nat
  /\ stock.layers \in Seq([wh : Warehouses, left : Nat, cost : Nat, doc : {<<>>}])
  /\ \A s \in Shipments :
       /\ ship[s].status \in {"none", "pending", "dispatched", "received", "cancelled"}
       /\ ship[s].moved \in Nat /\ ship[s].value \in Nat
  /\ cancels \subseteq Shipments
  /\ \A t \in Transfers : transfer[t].at \in {"new", "moving", "replayed", "done"}
  /\ gl \in [Accounts -> Int]
  /\ entries \subseteq Shipments \X (1..LastDay)
  /\ today \in 1..LastDay

OnHand(st)    == SumOver(Warehouses, LAMBDA w : st.inv[w].qty)
InTransit(st) == SumOver(Warehouses, LAMBDA w : st.inv[w].transit)

\* A shipment's goods are away: sent and not yet taken in.  Its status does
\* not always say so, for a late cancellation overwrites it.
Away(s) == ship[s].sent > 0 /\ ship[s].got = 0

\* Goods move and are counted, and nothing else makes or loses any: what is
\* on hand and in transit is what there was plus the adjustments, and each
\* warehouse's in_transit_quantity is what its shipments sent and nobody
\* received, whichever handlers interleave.
GoodsAccountedFor ==
  /\ OnHand(stock) + InTransit(stock)
       = OnHand(opening) + InTransit(opening) + SumLines(adjusted)
  /\ \A w \in Warehouses :
       stock.inv[w].transit = opening.inv[w].transit +
         SumOver({s \in Shipments : Away(s) /\ ship[s].form.src = w},
                 LAMBDA s : ship[s].moved)

ReservationsCovered ==
  \A w \in Warehouses :
    LET open == {o \in Orders : order[o].status = "draft" /\ order[o].form.wh = w}
    IN /\ stock.inv[w].reserved = SumOver(open, LAMBDA o : order[o].form.qty)
       /\ stock.inv[w].reserved <= stock.inv[w].qty

LayersCovered ==
  (\A s \in Shipments : ship[s].got > 0 => ~Repeats(ship[s].form))
    => \A w \in Warehouses : LayerStock(stock, w) <= stock.inv[w].qty

\* What a warehouse promises is there.  Open sales orders have reserved exactly
\* reserved_quantity, and no shipment, transfer or count takes it; the layers
\* never hold more to issue than there is, unless a shipment with two lines of
\* the product arrived (each line then creates the layers of both).
HoldingsCover == ReservationsCovered /\ LayersCovered

\* The in-transit account holds the value of the goods that are away, and
\* nothing when all have arrived, if each shipment arrived on a later day
\* and none has two lines of the product.
TransitAccount ==
  (\A s \in Shipments : ship[s].got > 0 => /\ ~Repeats(ship[s].form)
                                           /\ ship[s].got > ship[s].sent)
    => gl["transit"] = SumOver({s \in Shipments : Away(s)}, LAMBDA s : ship[s].value)
=============================================================================
