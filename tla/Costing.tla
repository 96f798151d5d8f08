------------------------------- MODULE Costing -------------------------------
(***************************************************************************)
(* services/costing_service.py: what a product costs and what its issues   *)
(* and returns cost.  The stock of a product is a record of its inventory  *)
(* rows by warehouse, its cost_price, and its cost layers in the order of  *)
(* their creation.  Costs are integers in units of 0.0001.                 *)
(***************************************************************************)
EXTENDS Integers, FiniteSets, FiniteSetsExt, Sequences, SequencesExt

CONSTANTS Warehouses,
          Method,         \* costing_method of the product's layers
          Policy          \* costing_policies.policy_type

ASSUME CostingAssumption ==
  /\ Method \in {"fifo", "lifo"}
  /\ Policy \in {"global_wac", "per_warehouse_wac"}

AtMost(a, b)  == IF a < b THEN a ELSE b
AtLeast(a, b) == IF a > b THEN a ELSE b

\* quantize(..., ROUND_HALF_UP) of a quotient.
HalfUp(num, den) == (2 * num + den) \div (2 * den)

SumOver(S, f(_)) == SumFunctionOnSet([x \in S |-> f(x)], S)

\* The value of rows of [qty, cost].
Value(rows) == SumOver(DOMAIN rows, LAMBDA i : rows[i].qty * rows[i].cost)

\* The rows that are of something.
Filled(rows) ==
  FoldLeft(LAMBDA acc, r : IF r.qty > 0 THEN Append(acc, r) ELSE acc, <<>>, rows)

\* calculate_new_cost: q0 in stock at c0 and q more at num/den each.
NewCost(q0, c0, q, num, den) ==
  IF q0 + q <= 0 THEN HalfUp(num, den)
                 ELSE HalfUp(q0 * c0 * den + q * num, (q0 + q) * den)

\* update_cost, called before the quantity changes.
UpdateCost(st, w, q, num, den) ==
  LET inv == st.inv
      all == SumOver(Warehouses, LAMBDA v : inv[v].qty)
      avg == NewCost(inv[w].qty, inv[w].avg, q, num, den)
      own == [inv EXCEPT ![w].avg = avg]
      new == NewCost(all, st.price, q, num, den)
  IN IF Policy = "global_wac"
     THEN [st EXCEPT !.price = new,
                     !.inv = [v \in Warehouses |-> [inv[v] EXCEPT !.avg = new]]]
     ELSE [st EXCEPT
            !.inv = own,
            !.price = IF all > 0
                      THEN HalfUp(SumOver(Warehouses, LAMBDA v : own[v].qty * own[v].avg),
                                  all)
                      ELSE HalfUp(num, den)]

\* get_cogs_cost
CogsCost(st, w) == IF Policy = "per_warehouse_wac" THEN st.inv[w].avg ELSE st.price

\* _get_product_costing_method: the product's method while it has a layer
\* that is not exhausted, whatever the warehouse, and "wac" otherwise.
Layered(st) == \E i \in DOMAIN st.layers : st.layers[i].left > 0

\* create_cost_layer, once per row; doc is the source document.
CreateLayers(st, w, rows, doc) ==
  [st EXCEPT !.layers = @ \o [i \in DOMAIN rows |->
     [wh |-> w, left |-> rows[i].qty, cost |-> rows[i].cost, doc |-> doc]]]

\* consume_layers: what it takes from each layer of the warehouse, oldest or
\* newest first; the rows it writes to cost_layer_consumptions.
LayerStock(st, w) ==
  SumOver(DOMAIN st.layers, LAMBDA i : IF st.layers[i].wh = w THEN st.layers[i].left ELSE 0)

TakeFrom(st, S, q) ==
  LET ls == st.layers
      first(i) == {j \in S : IF Method = "fifo" THEN j < i ELSE j > i}
      before(i) == SumFunctionOnSet([j \in DOMAIN ls |-> ls[j].left], first(i))
  IN [i \in DOMAIN ls |-> IF i \in S
                          THEN AtLeast(0, AtMost(ls[i].left, q - before(i)))
                          ELSE 0]

Take(st, w, q) == TakeFrom(st, {i \in DOMAIN st.layers : st.layers[i].wh = w}, q)

SumTaken(take) == SumFunction(take)

Consumptions(st, take) ==
  Filled([i \in DOMAIN st.layers |-> [qty |-> take[i], cost |-> st.layers[i].cost]])

Consume(st, take) ==
  [st EXCEPT !.layers =
     [i \in DOMAIN st.layers |-> [st.layers[i] EXCEPT !.left = @ - take[i]]]]

\* available_quantity, a generated column
Available(row) == AtLeast(row.qty - row.reserved - row.damaged, 0)
OnBooks(row)   == row.qty + row.transit
AllOfIt(row)   == row.qty
Free(row)      == row.qty - row.reserved

CanConsume(st, w, q) == q <= Available(st.inv[w]) /\ q <= LayerStock(st, w)

\* What an issue of q from w costs and leaves behind: by layers, or at
\* wacCost each when there are none.
Issue(st, w, q, wacCost) ==
  LET take == Take(st, w, q)
      rows == Consumptions(st, take)
  IN IF Layered(st)
     THEN [ok |-> CanConsume(st, w, q), stock |-> Consume(st, take),
           value |-> Value(rows), rows |-> rows]
     ELSE [ok |-> TRUE, stock |-> st, value |-> q * wacCost, rows |-> <<>>]

\* quantize(_D2, ROUND_HALF_UP) of a value
Cents(value) == 100 * HalfUp(value, 100)
=============================================================================
