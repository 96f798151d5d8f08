---------------------- MODULE PurchasingAndQueuesProofs ----------------------
(***************************************************************************)
(* The theorems about Purchasing and about RetryQueues.  The two share no  *)
(* state; their proofs share this module.                                  *)
(*                                                                         *)
(* Purchasing, for any stock, forms, prices, quantities and bounds: what   *)
(* the vocabulary of journal sources does to the handlers that look        *)
(* entries up by the source they were given (NoEntryFound,                 *)
(* OnlyPettyCancelled); that every table keeps its shape (TypeCorrect);    *)
(* that the supplier's balance and the accrual are what the ledger says,   *)
(* but for what is rounded (BalanceIsPayable, AccrualOfOrders); that goods *)
(* are carried at what was paid for them, but for what is rounded          *)
(* (GoodsCarriedAtCost); and that what is paid is what was allocated       *)
(* (PaymentsAllocated).                                                    *)
(*                                                                         *)
(* First come lists, the stock, rounding and the shapes of the tables;     *)
(* then one lemma for each action, which says what it does to every table; *)
(* then, for each theorem, what the action does to what it speaks of.      *)
(*                                                                         *)
(* RetryQueues, for any tables' kinds, rows, workers, replayed requests    *)
(* and bounds, at the end: its inductive invariant, one lemma for each     *)
(* action, and its theorems.                                               *)
(***************************************************************************)
EXTENDS Purchasing, RetryQueues, Sums, SequenceTheorems, TLAPS

(***************************************************************************)
(* Lists: sequences whose elements need not be from a named set            *)
(***************************************************************************)
IsList(s) == Len(s) \in Nat /\ s = [i \in 1..Len(s) |-> s[i]]

\* A list is a sequence of its elements, and of any more.
LEMMA ListIsSeq ==
  ASSUME NEW s, IsList(s), NEW S, \A i \in 1..Len(s) : s[i] \in S
  PROVE  s \in Seq(S)
<1>1. s \in [1..Len(s) -> S]
  BY DEF IsList
<1> QED BY <1>1, SeqDef DEF IsList

\* A function on 1..n is a list of length n.
LEMMA FunctionIsList ==
  ASSUME NEW n \in Nat, NEW s, s = [i \in 1..n |-> s[i]]
  PROVE  IsList(s) /\ Len(s) = n
<1> DEFINE S == {s[i] : i \in 1..n}
<1>1. s \in [1..n -> S]
  OBVIOUS
<1>2. s \in Seq(S)
  BY <1>1, SeqDef
<1>3. Len(s) \in Nat /\ DOMAIN s = 1..Len(s)
  BY <1>2, LenProperties
<1>4. DOMAIN s = 1..n
  BY <1>1
<1>5. Len(s) = n
  <2>1. 1..Len(s) = 1..n
    BY <1>3, <1>4
  <2>2. CASE n = 0
    BY <2>1, <2>2, <1>3
  <2>3. CASE n # 0
    BY <2>1, <2>3, <1>3
  <2> QED BY <2>2, <2>3
<1> QED BY <1>5 DEF IsList

\* What Append does to a list.
LEMMA AppendList ==
  ASSUME NEW s, IsList(s), NEW e
  PROVE  /\ IsList(Append(s, e)) /\ Len(Append(s, e)) = Len(s) + 1
         /\ DOMAIN s = 1..Len(s) /\ DOMAIN Append(s, e) = 1..(Len(s) + 1)
         /\ \A i \in 1..Len(s) : Append(s, e)[i] = s[i]
         /\ Append(s, e)[Len(s) + 1] = e
<1> DEFINE S == {s[i] : i \in 1..Len(s)} \cup {e}
<1>1. s \in Seq(S)
  BY ListIsSeq
<1>2. e \in S
  OBVIOUS
<1> HIDE DEF S
<1>3. /\ Append(s, e) \in Seq(S) /\ Len(Append(s, e)) = Len(s) + 1
      /\ \A i \in 1..Len(s) : Append(s, e)[i] = s[i]
      /\ Append(s, e)[Len(s) + 1] = e
  BY <1>1, <1>2, AppendProperties
<1>4. Append(s, e) \in [1..(Len(s) + 1) -> S]
  BY <1>3, LenProperties
<1>5. Append(s, e) = [i \in 1..Len(Append(s, e)) |-> Append(s, e)[i]]
  BY <1>3, <1>4
<1>6. DOMAIN s = 1..Len(s)
  BY <1>1, LenProperties
<1> QED BY <1>3, <1>4, <1>5, <1>6 DEF IsList

\* What adding one element by concatenation does to a list.
LEMMA ConcatList ==
  ASSUME NEW s, IsList(s), NEW t, IsList(t), Len(t) = 1
  PROVE  /\ IsList(s \o t) /\ Len(s \o t) = Len(s) + 1
         /\ \A i \in 1..Len(s) : (s \o t)[i] = s[i]
         /\ (s \o t)[Len(s) + 1] = t[1]
<1> DEFINE S == {s[i] : i \in 1..Len(s)} \cup {t[i] : i \in 1..Len(t)}
<1>1. s \in Seq(S) /\ t \in Seq(S)
  BY ListIsSeq
<1> HIDE DEF S
<1>2. /\ s \o t \in Seq(S) /\ Len(s \o t) = Len(s) + 1
      /\ \A i \in 1..(Len(s) + 1) : (s \o t)[i] = IF i <= Len(s) THEN s[i] ELSE t[i - Len(s)]
  BY <1>1, ConcatProperties
<1>3. Len(s) \in Nat /\ s \o t \in [1..Len(s \o t) -> S]
  BY <1>1, <1>2, LenProperties
<1>4. (s \o t)[Len(s) + 1] = t[1]
  <2>1. ~(Len(s) + 1 <= Len(s)) /\ Len(s) + 1 - Len(s) = 1 /\ Len(s) + 1 \in 1..(Len(s) + 1)
    BY <1>3
  <2> QED BY <1>2, <2>1
<1>5. \A i \in 1..Len(s) : (s \o t)[i] = s[i]
  BY <1>2, <1>3
<1> DEFINE c == s \o t
<1>6. c = [i \in 1..Len(c) |-> c[i]] /\ Len(c) \in Nat
  <2>1. c \in [1..Len(c) -> S] /\ Len(c) \in Nat
    BY <1>2, <1>3
  <2> HIDE DEF c
  <2> QED BY <2>1
<1> QED BY <1>2, <1>4, <1>5, <1>6 DEF IsList

(***************************************************************************)
(* The stock                                                               *)
(***************************************************************************)
IsRow(r) ==
  /\ r = [qty |-> r.qty, reserved |-> r.reserved, damaged |-> r.damaged,
          transit |-> r.transit, avg |-> r.avg]
  /\ r.qty \in Nat /\ (Policy = "per_warehouse_wac" => r.avg \in Nat)

IsLayer(l) == l.left \in Nat /\ l.cost \in Nat

IsStock(st) ==
  /\ st = [inv |-> st.inv, price |-> st.price, layers |-> st.layers]
  /\ st.inv = [w \in Warehouses |-> st.inv[w]] /\ IsRow(st.inv[wh])
  /\ IsList(st.layers) /\ \A i \in 1..Len(st.layers) : IsLayer(st.layers[i])

\* A quotient rounded is within half of it.
LEMMA HalfUpClose ==
  ASSUME NEW x \in Nat, NEW d \in Nat \ {0}
  PROVE  HalfUp(x, d) \in Nat /\ Close(2 * (HalfUp(x, d) * d), 2 * x, d)
<1> DEFINE m == 2 * x + d
           e == 2 * d
           k == m \div e
<1>1. m \in Nat /\ e \in Nat \ {0} /\ HalfUp(x, d) = k
  BY DEF HalfUp
<1>2. k \in Nat /\ e * k <= m /\ m < e * k + e
  <2> HIDE DEF m, e
  <2> QED BY <1>1
<1> HIDE DEF k
<1>3. PICK p \in Int : p = k * d
  BY <1>2
<1>4. e * k = 2 * p
  BY <1>2, <1>3
<1> QED BY <1>1, <1>2, <1>3, <1>4 DEF Close

\* update_cost writes averages and the price, and no quantity; the average
\* is that of what was there and what comes in.
LEMMA UpdateCostKeeps ==
  ASSUME NEW st, IsStock(st), NEW q \in Nat \ {0}, NEW num \in Nat
  PROVE  LET U == UpdateCost(st, wh, q, num, 1) was == st.inv[wh]
         IN /\ IsStock(U) /\ U.inv[wh].qty = was.qty /\ U.layers = st.layers
            /\ Policy = "per_warehouse_wac" =>
                 U.inv[wh].avg = HalfUp(was.qty * was.avg + q * num, was.qty + q)
<1> DEFINE U == UpdateCost(st, wh, q, num, 1)
           was == st.inv[wh]
           avg == HalfUp(was.qty * was.avg + q * num, was.qty + q)
<1>1. U.layers = st.layers /\ U = [inv |-> U.inv, price |-> U.price, layers |-> U.layers]
  BY DEF UpdateCost, IsStock
<1>2. /\ U.inv = [w \in Warehouses |-> U.inv[w]]
      /\ \E a : U.inv[wh] = [was EXCEPT !.avg = a]
  BY PurchasingAssumption DEF UpdateCost, IsStock
<1>3. Policy = "per_warehouse_wac" =>
        U.inv[wh] = [was EXCEPT !.avg = NewCost(was.qty, was.avg, q, num, 1)]
  BY PurchasingAssumption DEF UpdateCost, IsStock
<1>4. was.qty \in Nat /\ (Policy = "per_warehouse_wac" => was.avg \in Nat)
      /\ was = [qty |-> was.qty, reserved |-> was.reserved, damaged |-> was.damaged,
                transit |-> was.transit, avg |-> was.avg]
  BY DEF IsStock, IsRow
<1> HIDE DEF U, was
<1>5. Policy = "per_warehouse_wac" =>
        NewCost(was.qty, was.avg, q, num, 1) = avg /\ avg \in Nat
  <2> SUFFICES ASSUME Policy = "per_warehouse_wac"
               PROVE  NewCost(was.qty, was.avg, q, num, 1) = avg /\ avg \in Nat
    OBVIOUS
  <2>1. PICK a \in Nat, b \in Nat, n \in Nat \ {0} :
          a = was.qty * was.avg /\ b = q * num /\ n = was.qty + q
    BY <1>4
  <2>2. a * 1 + b = a + b /\ n * 1 = n /\ ~(n <= 0) /\ a + b \in Nat
    BY <2>1
  <2>3. NewCost(was.qty, was.avg, q, num, 1) = HalfUp(a * 1 + b, n * 1)
    BY <2>1, <2>2 DEF NewCost
  <2>4. HalfUp(a + b, n) \in Nat
    BY <2>1, <2>2, HalfUpClose
  <2> QED BY <2>1, <2>2, <2>3, <2>4
<1> HIDE DEF avg
<1>6. PICK a : U.inv[wh] = [was EXCEPT !.avg = a]
               /\ (Policy = "per_warehouse_wac" => a = avg)
  BY <1>2, <1>3, <1>5
<1>7. U.inv[wh] = [qty |-> was.qty, reserved |-> was.reserved, damaged |-> was.damaged,
                   transit |-> was.transit, avg |-> a]
  BY <1>4, <1>6
<1>8. IsRow(U.inv[wh]) /\ U.inv[wh].qty = was.qty /\ U.inv[wh].avg = a
  BY <1>4, <1>5, <1>6, <1>7 DEF IsRow
<1> QED BY <1>1, <1>2, <1>6, <1>8 DEF IsStock, U, was, avg

\* create_cost_layer of one row adds a layer.
LEMMA CreateLayersKeeps ==
  ASSUME NEW st, IsStock(st), NEW q \in Nat, NEW cost \in Nat, NEW doc
  PROVE  LET U == CreateLayers(st, wh, <<[qty |-> q, cost |-> cost]>>, doc) n == Len(st.layers)
         IN /\ IsStock(U) /\ U.inv = st.inv /\ Len(U.layers) = n + 1
            /\ \A i \in 1..n : U.layers[i] = st.layers[i]
            /\ U.layers[n + 1].left = q /\ U.layers[n + 1].cost = cost
<1> DEFINE rows == <<[qty |-> q, cost |-> cost]>>
           t == [i \in DOMAIN rows |->
                  [wh |-> wh, left |-> rows[i].qty, cost |-> rows[i].cost, doc |-> doc]]
           U == CreateLayers(st, wh, rows, doc)
           n == Len(st.layers)
<1>1. DOMAIN rows = 1..1 /\ rows[1].qty = q /\ rows[1].cost = cost
  OBVIOUS
<1>2. t = [i \in 1..1 |-> t[i]] /\ t[1].left = q /\ t[1].cost = cost
  BY <1>1
<1>3. IsList(t) /\ Len(t) = 1
  BY <1>2, FunctionIsList
<1>4. U.layers = st.layers \o t /\ U.inv = st.inv
      /\ U = [inv |-> U.inv, price |-> U.price, layers |-> U.layers]
  <2>1. U = [st EXCEPT !.layers = st.layers \o t]
    BY DEF CreateLayers
  <2>2. st = [inv |-> st.inv, price |-> st.price, layers |-> st.layers]
    BY DEF IsStock
  <2> HIDE DEF U, t
  <2> QED BY <2>1, <2>2
<1> HIDE DEF rows, t, U
<1>5. /\ IsList(U.layers) /\ Len(U.layers) = n + 1
      /\ \A i \in 1..n : U.layers[i] = st.layers[i]
      /\ U.layers[n + 1].left = q /\ U.layers[n + 1].cost = cost
  BY <1>2, <1>3, <1>4, ConcatList DEF IsStock
<1>6. \A i \in 1..Len(U.layers) : IsLayer(U.layers[i])
  <2>1. n \in Nat /\ \A i \in 1..n : IsLayer(st.layers[i])
    BY DEF IsStock, IsList
  <2>2. ASSUME NEW i \in 1..(n + 1) PROVE IsLayer(U.layers[i])
    <3>1. CASE i = n + 1
      BY <1>5, <3>1 DEF IsLayer
    <3>2. CASE i # n + 1
      <4>1. i \in 1..n
        BY <2>1, <3>2
      <4> QED BY <1>5, <2>1, <4>1
    <3> QED BY <3>1, <3>2
  <2> QED BY <1>5, <2>2
<1> QED BY <1>4, <1>5, <1>6 DEF IsStock, U, rows

\* Writing the quantity of the row writes nothing else.
LEMMA SetQuantity ==
  ASSUME NEW st, IsStock(st), NEW q \in Nat
  PROVE  LET U == [st EXCEPT !.inv[wh].qty = q]
         IN /\ IsStock(U) /\ U.inv[wh].qty = q /\ U.inv[wh].avg = st.inv[wh].avg
            /\ U.layers = st.layers
<1> DEFINE U == [st EXCEPT !.inv[wh].qty = q]
           own == [st.inv[wh] EXCEPT !.qty = q]
<1>1. /\ U.layers = st.layers /\ U.inv = [st.inv EXCEPT ![wh] = own]
      /\ U = [inv |-> U.inv, price |-> U.price, layers |-> U.layers]
  <2>1. st = [inv |-> st.inv, price |-> st.price, layers |-> st.layers]
    BY DEF IsStock
  <2> QED BY <2>1
<1>2. IsRow(own) /\ own.qty = q /\ own.avg = st.inv[wh].avg
  <2> DEFINE r == st.inv[wh]
  <2>1. own = [qty |-> q, reserved |-> r.reserved, damaged |-> r.damaged,
               transit |-> r.transit, avg |-> r.avg]
    <3>1. r = [qty |-> r.qty, reserved |-> r.reserved, damaged |-> r.damaged,
               transit |-> r.transit, avg |-> r.avg]
      BY DEF IsStock, IsRow
    <3>2. own = [r EXCEPT !.qty = q]
      OBVIOUS
    <3> HIDE DEF r, own
    <3> QED BY <3>1, <3>2
  <2>2. Policy = "per_warehouse_wac" => r.avg \in Nat
    BY DEF IsStock, IsRow
  <2> HIDE DEF own
  <2> QED BY <2>1, <2>2 DEF IsRow
<1> HIDE DEF U, own
<1>3. U.inv = [w \in Warehouses |-> U.inv[w]] /\ U.inv[wh] = own
  BY <1>1, PurchasingAssumption DEF IsStock
<1> QED BY <1>1, <1>2, <1>3 DEF IsStock, U

\* The layers after goods come in: one more where there are any.
LayersAfter(ls, more, q, price, new) ==
  IF more
  THEN /\ Len(new) = Len(ls) + 1 /\ \A i \in 1..Len(ls) : new[i] = ls[i]
       /\ new[Len(ls) + 1].left = q /\ new[Len(ls) + 1].cost = price
  ELSE new = ls

\* Goods in.
LEMMA StockInMoves ==
  ASSUME NEW st, IsStock(st), NEW q \in Nat \ {0}, NEW price \in Nat, NEW doc
  PROVE  LET U == StockIn(st, q, price, doc) was == st.inv[wh]
         IN /\ IsStock(U) /\ U.inv[wh].qty = was.qty + q
            /\ Policy = "per_warehouse_wac" =>
                 U.inv[wh].avg = HalfUp(was.qty * was.avg + q * price, was.qty + q)
            /\ LayersAfter(st.layers, Layered(st), q, price, U.layers)
<1> DEFINE costed == UpdateCost(st, wh, q, price, 1)
           layered == CreateLayers(costed, wh, <<[qty |-> q, cost |-> price]>>, doc)
           kept   == IF Layered(st) THEN layered ELSE costed
           was    == st.inv[wh]
           avg    == HalfUp(was.qty * was.avg + q * price, was.qty + q)
<1>1. /\ IsStock(costed) /\ costed.inv[wh].qty = was.qty /\ costed.layers = st.layers
      /\ Policy = "per_warehouse_wac" => costed.inv[wh].avg = avg
  BY UpdateCostKeeps
<1>2. StockIn(st, q, price, doc) = [kept EXCEPT !.inv[wh].qty = kept.inv[wh].qty + q]
  BY DEF StockIn
<1> HIDE DEF costed
<1>3. /\ IsStock(layered) /\ layered.inv = costed.inv
      /\ LayersAfter(st.layers, TRUE, q, price, layered.layers)
  BY <1>1, CreateLayersKeeps DEF LayersAfter
<1> HIDE DEF layered
<1>4. /\ IsStock(kept) /\ kept.inv = costed.inv
      /\ LayersAfter(st.layers, Layered(st), q, price, kept.layers)
  BY <1>1, <1>3 DEF LayersAfter
<1> HIDE DEF kept, avg
<1> DEFINE new == kept.inv[wh].qty + q
<1>5. new \in Nat /\ new = was.qty + q
  BY <1>1, <1>4 DEF IsStock, IsRow
<1> HIDE DEF new, was
<1>6. /\ IsStock([kept EXCEPT !.inv[wh].qty = new])
      /\ [kept EXCEPT !.inv[wh].qty = new].inv[wh].qty = new
      /\ [kept EXCEPT !.inv[wh].qty = new].inv[wh].avg = kept.inv[wh].avg
      /\ [kept EXCEPT !.inv[wh].qty = new].layers = kept.layers
  BY <1>4, <1>5, SetQuantity
<1> QED BY <1>1, <1>2, <1>4, <1>5, <1>6 DEF new, was, avg

(***************************************************************************)
(* What is found by source                                                 *)
(***************************************************************************)
Passed == {"purchase_order_receipt", "purchase_invoice", "payment_voucher",
           "purchase_credit_note", "purchase_debit_note"}

\* No purchasing entry keeps the source its handler gave it.
Unnamed == \A e \in journal : e.source = "system"

\* None of the sources of the purchasing handlers is in the vocabulary.
LEMMA PassedNormalize == \A s \in Passed : Normalize(s) = "system"
  BY DEF Passed, Normalize, Values, Alias

\* create_journal_entry stores them all as "system".
LEMMA PostUnnamed ==
  ASSUME NEW j, NEW source \in Passed, NEW id, NEW day, NEW lines,
         \A e \in j : e.source = "system"
  PROVE  \A e \in Post(j, source, id, day, lines) : e.source = "system"
  BY PassedNormalize DEF Post

\* A lookup by such a source finds nothing, and so nothing is reversed.
LEMMA NothingFound ==
  ASSUME Unnamed, NEW source \in Passed, NEW id
  PROVE  EntriesOf(journal, source, id) = {}
  BY DEF Unnamed, EntriesOf, Passed

LEMMA NothingReversed == ASSUME NEW j PROVE Reversing(j, {}) = j
  BY DEF Reversing

\* Every handler leaves the journal as it is, or posts an entry in it.
LEMMA UnnamedKept == Unnamed /\ [Next]_vars => Unnamed'
<1> SUFFICES ASSUME Unnamed, [Next]_vars PROVE Unnamed'
  OBVIOUS
<1> USE DEF Unnamed, Passed
<1>0. CASE UNCHANGED vars
  BY <1>0 DEF vars
<1>1. ASSUME NEW o \in Orders, CreateOrder(o) \/ ApproveOrder(o) \/ WriteBack(o)
      PROVE  Unnamed'
  BY <1>1 DEF CreateOrder, ApproveOrder, WriteBack
<1>2. ASSUME NEW o \in Orders, NEW q, NEW day, Receive(o, q, day)
      PROVE  Unnamed'
  BY <1>2, PostUnnamed DEF Receive
<1>3. ASSUME NEW total, ContractInvoice(total)
      PROVE  Unnamed'
  BY <1>3 DEF ContractInvoice
<1>4. ASSUME NEW amount, NEW to, NEW day,
             PaySupplier(amount, to, day) \/ TakeRefund(amount, to, day)
      PROVE  Unnamed'
  BY <1>4, PostUnnamed DEF PaySupplier, TakeRefund, Settle
<1>5. ASSUME NEW i, CancelInvoice(i)
      PROVE  Unnamed'
  <2>1. journal' = Reversing(journal, EntriesOf(journal, "purchase_invoice", InvoiceId(i)))
    BY <1>5 DEF CancelInvoice
  <2> QED BY <2>1, NothingFound, NothingReversed
<1>6. ASSUME NEW i, NEW total, NEW day, CreditNote(i, total, day) \/ DebitNote(i, total, day)
      PROVE  Unnamed'
  BY <1>6, PostUnnamed DEF CreditNote, DebitNote, Note
<1> QED
  BY <1>0, <1>1, <1>2, <1>3, <1>4, <1>5, <1>6 DEF Next, Receipts, Settlements, Notes

\* Nothing that purchasing posts can be found again by the source it was
\* posted with: what cancel_purchase_invoice does.
THEOREM NoEntryFound ==
  Spec => [](\A s \in Passed, id \in Int : EntriesOf(journal, s, id) = {})
<1>1. Init => Unnamed
  BY DEF Init, Unnamed
<1>2. Unnamed => \A s \in Passed, id \in Int : EntriesOf(journal, s, id) = {}
  BY NothingFound
<1> QED BY <1>1, <1>2, UnnamedKept, PTL DEF Spec

\* So no purchase document of more than 0.01 is ever cancelled, whatever has
\* been posted for it or paid on it: it is refused for want of an entry.
THEOREM OnlyPettyCancelled ==
  Spec => [][\A i \in DOMAIN invoice : CancelInvoice(i) => invoice[i].total <= D2]_vars
<1>1. Init => Unnamed
  BY DEF Init, Unnamed
<1>2. Unnamed => [\A i \in DOMAIN invoice : CancelInvoice(i) => invoice[i].total <= D2]_vars
  BY NothingFound DEF CancelInvoice, Passed
<1> QED BY <1>1, <1>2, UnnamedKept, PTL DEF Spec

(***************************************************************************)
(* Entries                                                                 *)
(***************************************************************************)
LEMMA CentsNat == \A x \in Nat : Cents(x) \in Nat /\ Close(2 * Cents(x), 2 * x, 100)
<1> SUFFICES ASSUME NEW x \in Nat PROVE Cents(x) \in Nat /\ Close(2 * Cents(x), 2 * x, 100)
  OBVIOUS
<1>1. HalfUp(x, 100) \in Nat /\ Close(2 * (HalfUp(x, 100) * 100), 2 * x, 100)
  BY HalfUpClose
<1> QED BY <1>1 DEF Cents

\* The lines of an entry add up to the four amounts.
LEMMA EntrySum ==
  ASSUME NEW a \in Int, NEW b \in Int, NEW c \in Int, NEW d \in Int
  PROVE  SumFunctionOnSet(Entry(a, b, c, d), Accounts) = a + b + c + d
<1> DEFINE w == Entry(a, b, c, d)
<1>1. w["inventory"] = a /\ w["unbilled"] = b /\ w["payable"] = c /\ w["cash"] = d
  BY DEF Entry, Accounts
<1> HIDE DEF w
<1>2. SumFunctionOnSet(w, {}) = 0 /\ IsFiniteSet({})
  BY SumNone, FS_EmptySet
<1>3. IsFiniteSet({"inventory"}) /\ SumFunctionOnSet(w, {"inventory"}) = a
  <2>1. {} \cup {"inventory"} = {"inventory"} /\ "inventory" \notin {}
    OBVIOUS
  <2>2. SumFunctionOnSet(w, {} \cup {"inventory"}) = SumFunctionOnSet(w, {}) + w["inventory"]
    BY <1>1, <1>2, SumAdd
  <2> QED BY <1>1, <1>2, <2>1, <2>2, FS_AddElement
<1>4. IsFiniteSet({"inventory", "unbilled"})
      /\ SumFunctionOnSet(w, {"inventory", "unbilled"}) = a + b
  <2>1. {"inventory"} \cup {"unbilled"} = {"inventory", "unbilled"} /\ "unbilled" \notin {"inventory"}
    OBVIOUS
  <2>2. SumFunctionOnSet(w, {"inventory"} \cup {"unbilled"})
          = SumFunctionOnSet(w, {"inventory"}) + w["unbilled"]
    BY <1>1, <1>3, <2>1, SumAdd
  <2> QED BY <1>1, <1>3, <2>1, <2>2, FS_AddElement
<1>5. IsFiniteSet({"inventory", "unbilled", "payable"})
      /\ SumFunctionOnSet(w, {"inventory", "unbilled", "payable"}) = a + b + c
  <2> DEFINE R == {"inventory", "unbilled"}
  <2>1. R \cup {"payable"} = {"inventory", "unbilled", "payable"} /\ "payable" \notin R
    OBVIOUS
  <2>2. \A y \in R \cup {"payable"} : w[y] \in Int
    BY <1>1
  <2>3. IsFiniteSet(R) /\ SumFunctionOnSet(w, R) = a + b
    BY <1>4
  <2> HIDE DEF R
  <2>4. SumFunctionOnSet(w, R \cup {"payable"}) = SumFunctionOnSet(w, R) + w["payable"]
    BY <2>1, <2>2, <2>3, SumAdd
  <2> QED BY <1>1, <2>1, <2>3, <2>4, FS_AddElement
<1> DEFINE R == {"inventory", "unbilled", "payable"}
<1>6. R \cup {"cash"} = Accounts /\ "cash" \notin R
  BY DEF Accounts
<1>7. \A y \in R \cup {"cash"} : w[y] \in Int
  BY <1>1
<1>8. IsFiniteSet(R) /\ SumFunctionOnSet(w, R) = a + b + c
  BY <1>5
<1> HIDE DEF R
<1>9. SumFunctionOnSet(w, R \cup {"cash"}) = SumFunctionOnSet(w, R) + w["cash"]
  BY <1>6, <1>7, <1>8, SumAdd
<1> QED BY <1>1, <1>6, <1>8, <1>9 DEF w

LEMMA LinesOf ==
  ASSUME NEW a, NEW b, NEW c, NEW d
  PROVE  Entry(a, b, c, d)["payable"] = c /\ Entry(a, b, c, d)["unbilled"] = b
  BY DEF Entry, Accounts

\* An entry that adds m to the payables and u to the unbilled purchases.
IsLines(lines, m, u) ==
  /\ Balanced(lines) /\ lines["payable"] = m /\ lines["unbilled"] = u
  /\ m \in Int /\ u \in Int

\* Entries of two lines.
LEMMA TwoLines ==
  ASSUME NEW a \in Int
  PROVE  /\ IsLines(Entry(a, -a, 0, 0), 0, -a) /\ IsLines(Entry(0, 0, a, -a), a, 0)
         /\ IsLines(Entry(-a, 0, a, 0), a, 0)
<1>1. PICK b \in Int, z \in Int : b = -a /\ z = 0
  OBVIOUS
<1>2. /\ SumFunctionOnSet(Entry(a, b, z, z), Accounts) = a + b + z + z
      /\ SumFunctionOnSet(Entry(z, z, a, b), Accounts) = z + z + a + b
      /\ SumFunctionOnSet(Entry(b, z, a, z), Accounts) = b + z + a + z
  BY EntrySum
<1>3. a + b + z + z = 0 /\ z + z + a + b = 0 /\ b + z + a + z = 0
  BY <1>1
<1> QED BY <1>1, <1>2, <1>3, LinesOf DEF Balanced, IsLines

IsEntry(e) ==
  /\ e.source = "system" /\ e.reversed = FALSE /\ e.day \in Days /\ Balanced(e.lines)
  /\ e.lines["payable"] \in Int /\ e.lines["unbilled"] \in Int

IsJournal(j) == IsFiniteSet(j) /\ \A e \in j : IsEntry(e)

\* An entry posted.
LEMMA PostKeeps ==
  ASSUME NEW j, IsJournal(j), NEW source \in Passed, NEW id, NEW day \in Days, NEW lines,
         NEW m, NEW u, IsLines(lines, m, u)
  PROVE  IsJournal(Post(j, source, id, day, lines))
<1> DEFINE e == [source |-> Normalize(source), id |-> id, day |-> day,
                 lines |-> lines, reversed |-> FALSE]
<1>1. IsEntry(e)
  BY PassedNormalize DEF IsEntry, IsLines
<1>2. Post(j, source, id, day, lines) \in {j, j \cup {e}}
  BY DEF Post
<1> HIDE DEF e
<1>3. IsFiniteSet(j \cup {e})
  BY FS_AddElement DEF IsJournal
<1> QED BY <1>1, <1>2, <1>3 DEF IsJournal

LineSum(j, a) == SumFunctionOnSet([e \in j |-> e.lines[a]], j)

LEMMA LineSumInt ==
  ASSUME NEW j, IsJournal(j), NEW a \in {"payable", "unbilled"}
  PROVE  LineSum(j, a) \in Int
<1> DEFINE w == [e \in j |-> e.lines[a]]
<1>1. IsFiniteSet(j) /\ \A e \in j : w[e] \in Int
  BY DEF IsJournal, IsEntry
<1> HIDE DEF w
<1>2. SumFunctionOnSet(w, j) \in Int
  BY <1>1, SumType
<1> QED BY <1>2 DEF LineSum, w

\* An entry of a number that no entry has adds its lines.
LEMMA PostAdds ==
  ASSUME NEW j, IsJournal(j), NEW source, NEW id, NEW day, NEW lines,
         NEW a \in {"payable", "unbilled"}, lines[a] \in Int, \A e \in j : e.id # id
  PROVE  LineSum(Post(j, source, id, day, lines), a) = LineSum(j, a) + lines[a]
<1> DEFINE e == [source |-> Normalize(source), id |-> id, day |-> day,
                 lines |-> lines, reversed |-> FALSE]
           w == [x \in j |-> x.lines[a]]
           v == [x \in j \cup {e} |-> x.lines[a]]
<1>1. CASE \A b \in Accounts : lines[b] = 0
  <2>1. lines[a] = 0 /\ Post(j, source, id, day, lines) = j
    BY <1>1 DEF Post, Accounts
  <2> QED BY <2>1, LineSumInt
<1>2. CASE \E b \in Accounts : lines[b] # 0
  <2>1. NewEntry(j, source, id, day)
    BY DEF NewEntry
  <2>2. Post(j, source, id, day, lines) = j \cup {e}
    BY <1>2, <2>1 DEF Post
  <2>3. e \notin j /\ v[e] = lines[a]
    OBVIOUS
  <2>4. IsFiniteSet(j) /\ \A x \in j : w[x] \in Int /\ w[x] = v[x]
    BY DEF IsJournal, IsEntry
  <2> HIDE DEF e, w, v
  <2>5. \A x \in j \cup {e} : v[x] \in Int
    BY <2>3, <2>4
  <2>6. SumFunctionOnSet(v, j \cup {e}) = SumFunctionOnSet(v, j) + v[e]
    BY <2>3, <2>4, <2>5, SumAdd
  <2>7. SumFunctionOnSet(w, j) = SumFunctionOnSet(v, j)
    BY <2>4, SumSame
  <2> QED BY <2>2, <2>3, <2>6, <2>7 DEF LineSum, w, v
<1> QED BY <1>1, <1>2

LEMMA PostIds ==
  ASSUME NEW j, NEW source, NEW id, NEW day, NEW lines,
         NEW e \in Post(j, source, id, day, lines)
  PROVE  e \in j \/ e.id = id
  BY DEF Post

(***************************************************************************)
(* Orders, and what they count for                                         *)
(***************************************************************************)
IsOrder(p) ==
  \/ p = [status |-> "none"]
  \/ /\ p = [status |-> p.status, qty |-> p.qty, price |-> p.price, received |-> p.received,
             worth |-> p.worth, receipts |-> p.receipts, petty |-> p.petty]
     /\ p.status # "none" /\ p.qty \in Nat /\ p.price \in Nat /\ p.received \in 0..p.qty
     /\ p.worth \in Nat /\ p.receipts \in Nat /\ p.petty \in Nat
     /\ Close(2 * p.worth * Per, 2 * p.received * p.price, D2 * Per * p.receipts)

IsOrders(s) == s = [o \in Orders |-> s[o]] /\ \A o \in Orders : IsOrder(s[o])

Counters == {"receipts", "received", "paid", "worth", "petty"}

\* What an order counts for in the sums over the orders made.
Counted(p) ==
  [x \in Counters |->
     IF p.status = "none" THEN 0
     ELSE CASE x = "receipts" -> p.receipts [] x = "received" -> p.received
            [] x = "paid" -> p.received * p.price [] x = "worth" -> p.worth
            [] x = "petty" -> p.petty]

Tally(s, x) == SumFunctionOnSet([o \in Orders |-> Counted(s[o])[x]], Orders)

LEMMA CountedNat ==
  ASSUME NEW p, IsOrder(p)
  PROVE  \A x \in Counters : Counted(p)[x] \in Nat
<1>1. CASE p.status = "none"
  BY <1>1 DEF Counted
<1>2. CASE p.status # "none"
  <2>1. p.receipts \in Nat /\ p.received \in Nat /\ p.worth \in Nat /\ p.petty \in Nat
        /\ p.price \in Nat
    BY <1>2 DEF IsOrder
  <2>2. p.received * p.price \in Nat
    BY <2>1
  <2> QED BY <1>2, <2>1, <2>2 DEF Counted, Counters
<1> QED BY <1>1, <1>2

LEMMA TallyNat ==
  ASSUME NEW s, IsOrders(s), NEW x \in Counters
  PROVE  Tally(s, x) \in Nat
<1> DEFINE w == [o \in Orders |-> Counted(s[o])[x]]
<1>1. IsFiniteSet(Orders) /\ \A o \in Orders : w[o] \in Nat
  BY CountedNat, PurchasingAssumption DEF IsOrders
<1> HIDE DEF w
<1>2. SumFunctionOnSet(w, Orders) \in Nat
  BY <1>1, SumNat
<1> QED BY <1>2 DEF Tally, w

\* When one order is rewritten, a sum changes by what it counts for.
LEMMA TallyMoves ==
  ASSUME NEW s, IsOrders(s), NEW t, IsOrders(t), NEW o \in Orders,
         \A y \in Orders \ {o} : t[y] = s[y], NEW x \in Counters
  PROVE  Tally(t, x) = Tally(s, x) + Counted(t[o])[x] - Counted(s[o])[x]
<1> DEFINE w == [y \in Orders |-> Counted(s[y])[x]]
           v == [y \in Orders |-> Counted(t[y])[x]]
<1>1. IsFiniteSet(Orders) /\ \A y \in Orders : w[y] \in Int /\ v[y] \in Int
  BY CountedNat, PurchasingAssumption DEF IsOrders
<1>2. \A y \in Orders \ {o} : w[y] = v[y]
  OBVIOUS
<1>3. w[o] = Counted(s[o])[x] /\ v[o] = Counted(t[o])[x]
  OBVIOUS
<1> HIDE DEF w, v
<1>4. SumFunctionOnSet(v, Orders) = SumFunctionOnSet(w, Orders) + v[o] - w[o]
  BY <1>1, <1>2, SumMove
<1> QED BY <1>3, <1>4 DEF Tally, w, v

\* The sums over the orders made.
LEMMA Tallies ==
  ASSUME IsOrders(order)
  PROVE  /\ ReceiptsMade = Tally(order, "receipts")
         /\ SumOver(LiveOrders, LAMBDA o : order[o].received) = Tally(order, "received")
         /\ SumOver(LiveOrders, LAMBDA o : order[o].received * order[o].price)
              = Tally(order, "paid")
         /\ SumOver(LiveOrders, LAMBDA o : order[o].worth) = Tally(order, "worth")
         /\ SumOver(LiveOrders, LAMBDA o : order[o].petty) = Tally(order, "petty")
<1> DEFINE R == {o \in Orders : Live(o)}
           u(x) == [o \in Orders |-> Counted(order[o])[x]]
           w == [o \in R |-> order[o].receipts]
           r == [o \in R |-> order[o].received]
           c == [o \in R |-> order[o].received * order[o].price]
           v == [o \in R |-> order[o].worth]
           l == [o \in R |-> order[o].petty]
<1>1. IsFiniteSet(Orders) /\ R \in SUBSET Orders
  BY PurchasingAssumption
<1>2. \A x \in Counters : (\A o \in Orders : u(x)[o] \in Int)
                          /\ \A o \in Orders \ R : u(x)[o] = 0
  <2> TAKE x \in Counters
  <2>1. \A o \in Orders : u(x)[o] = Counted(order[o])[x]
    OBVIOUS
  <2>2. \A o \in Orders : Counted(order[o])[x] \in Nat
    BY CountedNat DEF IsOrders
  <2>3. \A o \in Orders \ R : Counted(order[o])[x] = 0
    BY DEF Counted, Live
  <2> QED BY <2>1, <2>2, <2>3
<1>3. \A o \in R : /\ w[o] = u("receipts")[o] /\ r[o] = u("received")[o]
                   /\ c[o] = u("paid")[o] /\ v[o] = u("worth")[o] /\ l[o] = u("petty")[o]
  BY DEF Counted, Counters, Live
<1>4. /\ ReceiptsMade = SumFunctionOnSet(w, R)
      /\ SumOver(LiveOrders, LAMBDA o : order[o].received) = SumFunctionOnSet(r, R)
      /\ SumOver(LiveOrders, LAMBDA o : order[o].received * order[o].price)
           = SumFunctionOnSet(c, R)
      /\ SumOver(LiveOrders, LAMBDA o : order[o].worth) = SumFunctionOnSet(v, R)
      /\ SumOver(LiveOrders, LAMBDA o : order[o].petty) = SumFunctionOnSet(l, R)
  BY DEF ReceiptsMade, SumOver, LiveOrders
<1>5. \A x \in Counters : Tally(order, x) = SumFunctionOnSet(u(x), Orders)
  BY DEF Tally
<1> HIDE DEF R, u, w, r, c, v, l
<1>6. SumFunctionOnSet(w, R) = SumFunctionOnSet(u("receipts"), Orders)
  BY <1>1, <1>2, <1>3, SumPart DEF Counters
<1>7. SumFunctionOnSet(r, R) = SumFunctionOnSet(u("received"), Orders)
  BY <1>1, <1>2, <1>3, SumPart DEF Counters
<1>8. SumFunctionOnSet(c, R) = SumFunctionOnSet(u("paid"), Orders)
  BY <1>1, <1>2, <1>3, SumPart DEF Counters
<1>9. SumFunctionOnSet(v, R) = SumFunctionOnSet(u("worth"), Orders)
  BY <1>1, <1>2, <1>3, SumPart DEF Counters
<1>10. SumFunctionOnSet(l, R) = SumFunctionOnSet(u("petty"), Orders)
  BY <1>1, <1>2, <1>3, SumPart DEF Counters
<1> QED BY <1>4, <1>5, <1>6, <1>7, <1>8, <1>9, <1>10 DEF Counters

\* An order rewritten.
LEMMA OrderWritten ==
  ASSUME NEW f, IsOrders(f), NEW o \in Orders, NEW p, IsOrder(p)
  PROVE  /\ IsOrders([f EXCEPT ![o] = p]) /\ [f EXCEPT ![o] = p][o] = p
         /\ \A x \in Orders \ {o} : [f EXCEPT ![o] = p][x] = f[x]
<1> DEFINE g == [f EXCEPT ![o] = p]
<1>1. g = [x \in Orders |-> IF x = o THEN p ELSE f[x]]
  BY DEF IsOrders
<1> HIDE DEF g
<1>2. g = [x \in Orders |-> g[x]] /\ \A x \in Orders : g[x] = IF x = o THEN p ELSE f[x]
  BY <1>1
<1>3. \A x \in Orders : IsOrder(g[x])
  BY <1>2 DEF IsOrders
<1> QED BY <1>2, <1>3 DEF g, IsOrders

\* Orders that are made, approved and decided on count for what they did.
LEMMA OrderSteps ==
  ASSUME IsOrders(order), NEW o \in Orders, CreateOrder(o) \/ ApproveOrder(o) \/ WriteBack(o)
  PROVE  IsOrders(order') /\ \A x \in Counters : Tally(order', x) = Tally(order, x)
<1>1. PICK p : /\ order' = [order EXCEPT ![o] = p] /\ IsOrder(p)
               /\ \A x \in Counters : Counted(p)[x] = Counted(order[o])[x]
  <2>1. CASE CreateOrder(o)
    <3>1. PICK f \in OrderForms : order' = [order EXCEPT ![o] =
                   [status |-> "draft", qty |-> f.qty, price |-> f.price, received |-> 0,
                    worth |-> 0, receipts |-> 0, petty |-> 0]]
      BY <2>1 DEF CreateOrder
    <3> DEFINE p == [status |-> "draft", qty |-> f.qty, price |-> f.price, received |-> 0,
                     worth |-> 0, receipts |-> 0, petty |-> 0]
    <3>2. f.qty \in Nat /\ f.price \in Nat
      BY PurchasingAssumption
    <3>3. Per \in Nat
      BY PurchasingAssumption
    <3>4. 2 * 0 * Per = 0 /\ 2 * 0 * f.price = 0 /\ D2 * Per * 0 = 0
      BY <3>2, <3>3 DEF D2
    <3>5. IsOrder(p)
      BY <3>2, <3>4 DEF IsOrder, Close
    <3>6. order[o].status = "none"
      BY <2>1 DEF CreateOrder
    <3>7. 0 * f.price = 0
      BY <3>2
    <3>8. \A x \in Counters : Counted(p)[x] = 0 /\ Counted(order[o])[x] = 0
      BY <3>6, <3>7 DEF Counted, Counters
    <3>9. order' = [order EXCEPT ![o] = p]
      BY <3>1
    <3> HIDE DEF p
    <3> QED BY <3>5, <3>8, <3>9
  <2>2. CASE ~CreateOrder(o)
    <3>1. PICK s \in {"approved", "rejected"} : order' = [order EXCEPT ![o].status = s]
      BY <2>2 DEF ApproveOrder, WriteBack
    <3>2. order[o].status # "none" /\ IsOrder(order[o])
      BY <2>2 DEF ApproveOrder, WriteBack, IsOrders
    <3> DEFINE q == order[o]
               p == [q EXCEPT !.status = s]
    <3>3. order' = [order EXCEPT ![o] = p]
      BY <3>1
    <3>4. q = [status |-> q.status, qty |-> q.qty, price |-> q.price, received |-> q.received,
               worth |-> q.worth, receipts |-> q.receipts, petty |-> q.petty]
          /\ q.status # "none" /\ q.qty \in Nat /\ q.price \in Nat /\ q.received \in 0..q.qty
          /\ q.worth \in Nat /\ q.receipts \in Nat /\ q.petty \in Nat
          /\ Close(2 * q.worth * Per, 2 * q.received * q.price, D2 * Per * q.receipts)
      BY <3>2 DEF IsOrder
    <3> HIDE DEF q
    <3>5. p = [status |-> s, qty |-> q.qty, price |-> q.price, received |-> q.received,
               worth |-> q.worth, receipts |-> q.receipts, petty |-> q.petty]
      BY <3>4
    <3> HIDE DEF p
    <3>6. IsOrder(p)
      BY <3>4, <3>5 DEF IsOrder
    <3>7. \A x \in Counters : Counted(p)[x] = Counted(q)[x]
      BY <3>4, <3>5 DEF Counted, Counters
    <3>8. \A x \in Counters : Counted(p)[x] = Counted(order[o])[x]
      BY <3>7 DEF q
    <3> QED BY <3>3, <3>6, <3>8
  <2> QED BY <2>1, <2>2
<1>2. /\ IsOrders(order') /\ order'[o] = p
      /\ \A x \in Orders \ {o} : order'[x] = order[x]
  <2> DEFINE g == [order EXCEPT ![o] = p]
  <2>1. IsOrders(g) /\ g[o] = p /\ \A x \in Orders \ {o} : g[x] = order[x]
    <3>1. IsOrder(p)
      BY <1>1
    <3> QED BY <3>1, OrderWritten
  <2>2. order' = g
    BY <1>1
  <2> HIDE DEF g
  <2> QED BY <2>1, <2>2
<1>3. ASSUME NEW x \in Counters PROVE Tally(order', x) = Tally(order, x)
  <2>1. Tally(order', x) = Tally(order, x) + Counted(order'[o])[x] - Counted(order[o])[x]
    BY <1>2, TallyMoves
  <2>2. Tally(order, x) \in Nat /\ Counted(order[o])[x] \in Nat
    BY TallyNat, CountedNat DEF IsOrders
  <2> QED BY <1>1, <1>2, <2>1, <2>2
<1> QED BY <1>2, <1>3

\* One more receipt's rounding.
LEMMA WorthGrows ==
  ASSUME NEW w \in Nat, NEW r \in Nat, NEW n \in Nat, NEW price \in Nat, NEW q \in Nat,
         Close(2 * w * Per, 2 * r * price, D2 * Per * n)
  PROVE  /\ Worth(q, price) \in Nat
         /\ Close(2 * (w + Worth(q, price)) * Per, 2 * (r + q) * price, D2 * Per * (n + 1))
<1>1. Per \in Nat \ {0}
  BY PurchasingAssumption
<1>2. PICK x \in Nat, d \in Nat \ {0} : x = q * price /\ d = 100 * Per
  BY <1>1
<1>3. PICK k \in Nat : k = HalfUp(x, d) /\ Close(2 * (k * d), 2 * x, d)
  BY HalfUpClose
<1>4. Worth(q, price) = 100 * k
  BY <1>2, <1>3 DEF Worth
<1>5. PICK a \in Int, b \in Int, c \in Int, e \in Int :
        a = w * Per /\ b = k * Per /\ c = r * price /\ e = Per * n
  BY <1>1, <1>3
<1>6. /\ 2 * w * Per = 2 * a /\ 2 * r * price = 2 * c /\ D2 * Per * n = 100 * e
      /\ k * d = 100 * b /\ D2 * Per * (n + 1) = 100 * e + d
      /\ 2 * (w + 100 * k) * Per = 2 * a + 200 * b /\ 2 * (r + q) * price = 2 * c + 2 * x
  <2>1. 2 * w * Per = 2 * a /\ 2 * r * price = 2 * c /\ D2 * Per * n = 100 * e
    BY <1>1, <1>5 DEF D2
  <2>2. k * d = 100 * b
    BY <1>1, <1>2, <1>3, <1>5
  <2>3. D2 * Per * (n + 1) = 100 * e + d
    BY <1>1, <1>2, <1>5 DEF D2
  <2>4. 2 * (w + 100 * k) * Per = 2 * a + 200 * b
    BY <1>1, <1>3, <1>5
  <2>5. 2 * (r + q) * price = 2 * c + 2 * x
    BY <1>2, <1>5
  <2> QED BY <2>1, <2>2, <2>3, <2>4, <2>5
<1>7. Close(2 * a, 2 * c, 100 * e) /\ Close(200 * b, 2 * x, d)
  <2>1. Close(2 * a, 2 * c, 100 * e)
    BY <1>6
  <2>2. 2 * (k * d) = 200 * b
    <3>1. k * d = 100 * b
      BY <1>6
    <3>2. 2 * (100 * b) = 200 * b
      BY <1>5
    <3> QED BY <3>1, <3>2
  <2> QED BY <1>3, <2>1, <2>2
<1>8. Close(2 * a + 200 * b, 2 * c + 2 * x, 100 * e + d)
  BY <1>2, <1>5, <1>7 DEF Close
<1> QED BY <1>3, <1>4, <1>6, <1>8

\* What a receipt adds to the sums.
Adds(s, t, q, price, worth) ==
  /\ Tally(t, "receipts") = Tally(s, "receipts") + 1
  /\ Tally(t, "received") = Tally(s, "received") + q
  /\ Tally(t, "paid") = Tally(s, "paid") + q * price
  /\ Tally(t, "worth") = Tally(s, "worth") + worth
  /\ Tally(t, "petty") = Tally(s, "petty") + (IF worth <= D2 THEN 1 ELSE 0)

\* A receipt.
LEMMA ReceiveOrders ==
  ASSUME IsOrders(order), NEW o \in Orders, Live(o), NEW q \in 1..order[o].qty, NEW day,
         Receive(o, q, day)
  PROVE  /\ order[o].price \in Nat /\ q \in Nat \ {0} /\ Worth(q, order[o].price) \in Nat
         /\ IsOrders(order')
         /\ Adds(order, order', q, order[o].price, Worth(q, order[o].price))
<1> DEFINE p == order[o]
           worth == Worth(q, p.price)
           n == [p EXCEPT !.received = p.received + q, !.worth = p.worth + worth,
                   !.receipts = p.receipts + 1,
                   !.petty = IF worth <= D2 THEN p.petty + 1 ELSE p.petty,
                   !.status = IF p.received + q >= p.qty THEN "received" ELSE "partial"]
<1>1. /\ p = [status |-> p.status, qty |-> p.qty, price |-> p.price, received |-> p.received,
              worth |-> p.worth, receipts |-> p.receipts, petty |-> p.petty]
      /\ p.status # "none" /\ p.qty \in Nat /\ p.price \in Nat /\ p.received \in 0..p.qty
      /\ p.worth \in Nat /\ p.receipts \in Nat /\ p.petty \in Nat
      /\ Close(2 * p.worth * Per, 2 * p.received * p.price, D2 * Per * p.receipts)
  BY DEF IsOrders, IsOrder, Live
<1>2. q \in Nat \ {0}
  BY <1>1
<1>3. q <= p.qty - p.received /\ order' = [order EXCEPT ![o] = n]
  BY DEF Receive
<1> DEFINE received == p.received + q
           new == p.worth + worth
           receipts == p.receipts + 1
           petty == IF worth <= D2 THEN p.petty + 1 ELSE p.petty
           status == IF p.received + q >= p.qty THEN "received" ELSE "partial"
<1>4. n = [status |-> status, qty |-> p.qty, price |-> p.price, received |-> received,
           worth |-> new, receipts |-> receipts, petty |-> petty]
  <2>1. n = [p EXCEPT !.received = received, !.worth = new, !.receipts = receipts,
                      !.petty = petty, !.status = status]
    OBVIOUS
  <2>2. p = [status |-> p.status, qty |-> p.qty, price |-> p.price, received |-> p.received,
             worth |-> p.worth, receipts |-> p.receipts, petty |-> p.petty]
    BY <1>1
  <2> HIDE DEF p, n, received, new, receipts, petty, status
  <2> QED BY <2>1, <2>2
<1>5. status # "none"
  OBVIOUS
<1> HIDE DEF n, status
<1>6. /\ worth \in Nat
      /\ Close(2 * new * Per, 2 * received * p.price, D2 * Per * receipts)
  <2>1. p.received \in Nat /\ q \in Nat
    BY <1>1, <1>2
  <2> HIDE DEF p
  <2> QED BY <1>1, <2>1, WorthGrows
<1> HIDE DEF worth
<1>7. received \in 0..p.qty /\ new \in Nat /\ receipts \in Nat /\ petty \in Nat
  <2>1. received \in 0..p.qty
    <3> HIDE DEF p
    <3> QED BY <1>1, <1>2, <1>3
  <2> QED BY <1>1, <1>6, <2>1
<1>8. IsOrder(n)
  <2> HIDE DEF p, received, new, receipts, petty
  <2> QED BY <1>1, <1>4, <1>5, <1>6, <1>7 DEF IsOrder
<1>9. /\ IsOrders(order') /\ order'[o] = n
      /\ \A x \in Orders \ {o} : order'[x] = order[x]
  <2> DEFINE g == [order EXCEPT ![o] = n]
  <2>1. IsOrders(g) /\ g[o] = n /\ \A x \in Orders \ {o} : g[x] = order[x]
    BY <1>8, OrderWritten
  <2>2. order' = g
    BY <1>3
  <2> HIDE DEF g
  <2> QED BY <2>1, <2>2
<1>10. /\ Counted(n)["receipts"] = Counted(p)["receipts"] + 1
       /\ Counted(n)["received"] = Counted(p)["received"] + q
       /\ Counted(n)["paid"] = Counted(p)["paid"] + q * p.price
       /\ Counted(n)["worth"] = Counted(p)["worth"] + worth
       /\ Counted(n)["petty"] = Counted(p)["petty"] + (IF worth <= D2 THEN 1 ELSE 0)
  <2>1. received * p.price = p.received * p.price + q * p.price
    <3>1. p.received \in Nat
      BY <1>1
    <3> HIDE DEF p
    <3> QED BY <1>1, <1>2, <3>1
  <2>2. /\ n.status # "none" /\ n.receipts = receipts /\ n.received = received
        /\ n.price = p.price /\ n.worth = new /\ n.petty = petty
    BY <1>4, <1>5
  <2>3. petty = p.petty + (IF worth <= D2 THEN 1 ELSE 0)
    BY <1>1
  <2> QED BY <1>1, <2>1, <2>2, <2>3 DEF Counted, Counters
<1>11. \A x \in Counters :
         /\ Tally(order', x) = Tally(order, x) + Counted(n)[x] - Counted(p)[x]
         /\ Tally(order, x) \in Nat /\ Counted(p)[x] \in Nat
  <2> TAKE x \in Counters
  <2>1. Tally(order', x) = Tally(order, x) + Counted(order'[o])[x] - Counted(order[o])[x]
    BY <1>9, TallyMoves
  <2> QED BY <1>9, <2>1, TallyNat, CountedNat DEF IsOrders
<1>12. q * p.price \in Nat
  BY <1>1, <1>2
<1> HIDE DEF p
<1>13. Adds(order, order', q, p.price, worth)
  <2>1. \A a, b, c, d, e \in Int : d = b + e => a + d - b = a + e
    OBVIOUS
  <2>2. "receipts" \in Counters /\ "received" \in Counters /\ "paid" \in Counters
        /\ "worth" \in Counters /\ "petty" \in Counters
    BY DEF Counters
  <2>3. Tally(order', "receipts") = Tally(order, "receipts") + 1
    BY <1>10, <1>11, <2>2
  <2>4. Tally(order', "received") = Tally(order, "received") + q
    BY <1>2, <1>10, <1>11, <2>2
  <2>5. Tally(order', "paid") = Tally(order, "paid") + q * p.price
    BY <1>10, <1>11, <1>12, <2>2
  <2>6. Tally(order', "worth") = Tally(order, "worth") + worth
    BY <1>6, <1>10, <1>11, <2>2
  <2>7. Tally(order', "petty") = Tally(order, "petty") + (IF worth <= D2 THEN 1 ELSE 0)
    BY <1>10, <1>11, <2>2
  <2> QED BY <2>3, <2>4, <2>5, <2>6, <2>7 DEF Adds
<1> QED BY <1>1, <1>2, <1>6, <1>9, <1>13 DEF p, worth

(***************************************************************************)
(* Documents and vouchers                                                  *)
(***************************************************************************)
IsDoc(d) ==
  /\ d = [type |-> d.type, of |-> d.of, total |-> d.total, paid |-> d.paid,
          status |-> d.status, revived |-> d.revived]
  /\ d.total \in Nat /\ d.paid \in 0..d.total /\ d.revived \in BOOLEAN

IsDocs(s) == IsList(s) /\ \A i \in 1..Len(s) : IsDoc(s[i]) /\ s[i].of \in 0..Len(s)

\* A voucher, and a list of vouchers allocated to documents up to n.
IsVoucher(v) ==
  /\ v = [type |-> v.type, amount |-> v.amount, to |-> v.to, status |-> v.status]
  /\ v.amount \in Nat /\ v.status \in {"posted", "void"}
  /\ \A j \in DOMAIN v.to : v.to[j] \in Nat
  /\ v.status = "void" => DOMAIN v.to = {}

IsVouchers(s, n) ==
  IsList(s) /\ \A v \in 1..Len(s) : IsVoucher(s[v]) /\ DOMAIN s[v].to \subseteq 1..n

Shapes ==
  /\ IsOrders(order) /\ IsDocs(invoice) /\ IsVouchers(voucher, Len(invoice))
  /\ IsJournal(journal) /\ IsStock(stock) /\ opening \in Openings /\ balance \in Int

\* What shapes say of the lists.
LEMMA Counts ==
  ASSUME Shapes
  PROVE  /\ Len(invoice) \in Nat /\ DOMAIN invoice = 1..Len(invoice)
         /\ Len(voucher) \in Nat /\ DOMAIN voucher = 1..Len(voucher)
  BY DEF Shapes, IsDocs, IsVouchers, IsList

\* A document added.
LEMMA DocAppended ==
  ASSUME NEW s, IsDocs(s), NEW d, IsDoc(d), d.of \in 0..Len(s)
  PROVE  IsDocs(Append(s, d)) /\ Len(Append(s, d)) = Len(s) + 1
<1>1. /\ IsList(Append(s, d)) /\ Len(Append(s, d)) = Len(s) + 1
      /\ \A i \in 1..Len(s) : Append(s, d)[i] = s[i]
      /\ Append(s, d)[Len(s) + 1] = d
  BY AppendList DEF IsDocs
<1>2. Len(s) \in Nat
  BY DEF IsDocs, IsList
<1>3. ASSUME NEW i \in 1..(Len(s) + 1)
      PROVE  IsDoc(Append(s, d)[i]) /\ Append(s, d)[i].of \in 0..(Len(s) + 1)
  <2>1. CASE i = Len(s) + 1
    BY <1>1, <1>2, <2>1
  <2>2. CASE i \in 1..Len(s)
    BY <1>1, <1>2, <2>2 DEF IsDocs
  <2> QED BY <1>2, <2>1, <2>2
<1> QED BY <1>1, <1>3 DEF IsDocs

\* The documents rewritten, each one staying in its place.
SameDocument(e, d) == e.type = d.type /\ e.of = d.of /\ e.total = d.total
SameDocuments(t, s) ==
  Len(t) = Len(s) /\ \A i \in 1..Len(s) : SameDocument(t[i], s[i])

LEMMA DocsWritten ==
  ASSUME NEW s, IsDocs(s), NEW t, t = [i \in 1..Len(s) |-> t[i]],
         \A i \in 1..Len(s) : IsDoc(t[i]) /\ SameDocument(t[i], s[i])
  PROVE  IsDocs(t) /\ SameDocuments(t, s)
<1>1. Len(s) \in Nat
  BY DEF IsDocs, IsList
<1>2. IsList(t) /\ Len(t) = Len(s)
  BY <1>1, FunctionIsList
<1>3. \A i \in 1..Len(s) : t[i].of \in 0..Len(s)
  BY DEF IsDocs, SameDocument
<1> QED BY <1>2, <1>3 DEF IsDocs, SameDocuments

\* A voucher added.
LEMMA VoucherAppended ==
  ASSUME NEW n \in Nat, NEW s, IsVouchers(s, n), NEW v, IsVoucher(v), DOMAIN v.to \subseteq 1..n
  PROVE  IsVouchers(Append(s, v), n)
<1>1. /\ IsList(Append(s, v)) /\ Len(Append(s, v)) = Len(s) + 1
      /\ \A i \in 1..Len(s) : Append(s, v)[i] = s[i]
      /\ Append(s, v)[Len(s) + 1] = v
  BY AppendList DEF IsVouchers
<1>2. Len(s) \in Nat
  BY DEF IsVouchers, IsList
<1>3. ASSUME NEW i \in 1..(Len(s) + 1)
      PROVE  IsVoucher(Append(s, v)[i]) /\ DOMAIN Append(s, v)[i].to \subseteq 1..n
  <2>1. CASE i = Len(s) + 1
    BY <1>1, <1>2, <2>1
  <2>2. CASE i \in 1..Len(s)
    BY <1>1, <1>2, <2>2 DEF IsVouchers
  <2> QED BY <1>2, <2>1, <2>2
<1> QED BY <1>1, <1>3 DEF IsVouchers

\* The documents they may be allocated to grow in number.
LEMMA VouchersStay ==
  ASSUME NEW n \in Nat, NEW s, IsVouchers(s, n)
  PROVE  IsVouchers(s, n + 1)
  BY DEF IsVouchers

\* The vouchers after document i is withdrawn from their allocations.
Withdrawn(i) == [v \in DOMAIN voucher |->
                   IF v \in Allocated(i) THEN Unallocate(v, i) ELSE voucher[v]]

LEMMA VouchersWithdrawn ==
  ASSUME Shapes, NEW i, OnlyInline(i)
  PROVE  /\ IsVouchers(Withdrawn(i), Len(invoice)) /\ Len(Withdrawn(i)) = Len(voucher)
         /\ \A v \in 1..Len(voucher) :
              /\ Withdrawn(i)[v].amount = voucher[v].amount
              /\ DOMAIN Withdrawn(i)[v].to = DOMAIN voucher[v].to \ {i}
              /\ \A j \in DOMAIN voucher[v].to \ {i} : Withdrawn(i)[v].to[j] = voucher[v].to[j]
<1> DEFINE t == Withdrawn(i)
<1>1. DOMAIN voucher = 1..Len(voucher) /\ Len(voucher) \in Nat
  BY Counts
<1>2. t = [v \in 1..Len(voucher) |-> t[v]]
  BY <1>1 DEF Withdrawn
<1>3. ASSUME NEW v \in 1..Len(voucher)
      PROVE  /\ IsVoucher(t[v]) /\ t[v].amount = voucher[v].amount
             /\ DOMAIN t[v].to = DOMAIN voucher[v].to \ {i}
             /\ \A j \in DOMAIN voucher[v].to \ {i} : t[v].to[j] = voucher[v].to[j]
  <2>0. IsVoucher(voucher[v])
    BY DEF Shapes, IsVouchers
  <2>1. CASE v \in Allocated(i)
    <3> DEFINE u == voucher[v]
               rest == [j \in DOMAIN u.to \ {i} |-> u.to[j]]
    <3>1. t[v] = [u EXCEPT !.status = "void", !.to = rest]
      BY <1>1, <2>1 DEF Withdrawn, Unallocate
    <3>2. u = [type |-> u.type, amount |-> u.amount, to |-> u.to, status |-> u.status]
          /\ u.amount \in Nat
      BY <2>0 DEF IsVoucher
    <3>3. /\ DOMAIN rest = DOMAIN u.to \ {i}
          /\ \A j \in DOMAIN u.to \ {i} : rest[j] = u.to[j] /\ rest[j] \in Nat
      BY <2>0 DEF IsVoucher
    <3>4. DOMAIN rest = {}
      BY <2>1, <3>3 DEF OnlyInline
    <3> HIDE DEF u, rest, t
    <3>5. t[v] = [type |-> u.type, amount |-> u.amount, to |-> rest, status |-> "void"]
      BY <3>1, <3>2
    <3> QED BY <3>2, <3>3, <3>4, <3>5 DEF IsVoucher, u
  <2>2. CASE v \notin Allocated(i)
    <3>1. t[v] = voucher[v]
      BY <1>1, <2>2 DEF Withdrawn
    <3>2. i \notin DOMAIN voucher[v].to
      BY <1>1, <2>2 DEF Allocated
    <3> HIDE DEF t
    <3> QED BY <2>0, <3>1, <3>2
  <2> QED BY <2>1, <2>2
<1>4. IsList(t) /\ Len(t) = Len(voucher)
  <2> HIDE DEF t
  <2> QED BY <1>1, <1>2, FunctionIsList
<1>5. \A v \in 1..Len(voucher) : DOMAIN voucher[v].to \subseteq 1..Len(invoice)
  BY DEF Shapes, IsVouchers
<1> QED BY <1>3, <1>4, <1>5 DEF IsVouchers

(***************************************************************************)
(* What each action does                                                   *)
(***************************************************************************)
\* An opening stock has the shape of a stock.
LEMMA OpeningIs ==
  ASSUME NEW st \in Openings
  PROVE  IsStock(st)
<1> DEFINE Row == [qty : Nat, reserved : Nat, damaged : Nat, transit : Nat, avg : Nat]
           Layer == [wh : Warehouses, left : Nat, cost : Nat, doc : {<<>>}]
<1>1. st \in [inv : [Warehouses -> Row], price : Nat, layers : Seq(Layer)]
  BY PurchasingAssumption
<1>2. st.inv[wh] \in Row
  BY <1>1, PurchasingAssumption
<1>3. \A r \in Row : IsRow(r)
  BY DEF IsRow
<1>4. \A l \in Layer : IsLayer(l)
  BY DEF IsLayer
<1>5. IsList(st.layers) /\ \A i \in 1..Len(st.layers) : st.layers[i] \in Layer
  <2> DEFINE s == st.layers
  <2>1. s \in Seq(Layer)
    BY <1>1
  <2> HIDE DEF s, Layer
  <2>2. Len(s) \in Nat /\ s \in [1..Len(s) -> Layer]
    BY <2>1, LenProperties
  <2>3. IsList(s) /\ \A i \in 1..Len(s) : s[i] \in Layer
    BY <2>2 DEF IsList
  <2> QED BY <2>3 DEF s
<1>6. st = [inv |-> st.inv, price |-> st.price, layers |-> st.layers]
      /\ st.inv = [w \in Warehouses |-> st.inv[w]]
  BY <1>1
<1> QED BY <1>2, <1>3, <1>4, <1>5, <1>6 DEF IsStock

LEMMA ShapesInit == Init => Shapes
<1> SUFFICES ASSUME Init PROVE Shapes
  OBVIOUS
<1>1. \A s : s = <<>> => IsList(s) /\ Len(s) = 0
  BY DEF IsList
<1>2. IsDocs(invoice) /\ IsVouchers(voucher, Len(invoice))
  BY <1>1 DEF Init, IsDocs, IsVouchers
<1>3. IsJournal(journal)
  BY FS_EmptySet DEF Init, IsJournal
<1>4. IsOrders(order)
  BY DEF Init, IsOrder, IsOrders
<1>5. IsStock(stock)
  BY OpeningIs DEF Init
<1> QED BY <1>2, <1>3, <1>4, <1>5 DEF Init, Shapes

\* A step that posts an entry adding m to the payables and u to the unbilled
\* purchases.
Posts(source, id, m, u) ==
  \E day \in Days : \E lines :
    IsLines(lines, m, u) /\ journal' = Post(journal, source, id, day, lines)

LEMMA PostsKeeps ==
  ASSUME IsJournal(journal), NEW source \in Passed, NEW id, NEW m, NEW u, Posts(source, id, m, u)
  PROVE  IsJournal(journal')
<1>0. PICK day \in Days : \E lines : IsLines(lines, m, u)
                                     /\ journal' = Post(journal, source, id, day, lines)
  BY DEF Posts
<1>1. PICK lines : IsLines(lines, m, u) /\ journal' = Post(journal, source, id, day, lines)
  BY <1>0
<1>2. IsJournal(Post(journal, source, id, day, lines))
  BY <1>1, PostKeeps
<1> QED BY <1>1, <1>2

LEMMA OrderStep ==
  ASSUME Shapes, NEW o \in Orders, CreateOrder(o) \/ ApproveOrder(o) \/ WriteBack(o)
  PROVE  /\ Shapes' /\ UNCHANGED <<stock, opening, invoice, voucher, balance, journal>>
         /\ \A x \in Counters : Tally(order', x) = Tally(order, x)
<1>1. IsOrders(order') /\ \A x \in Counters : Tally(order', x) = Tally(order, x)
  BY OrderSteps DEF Shapes
<1>2. UNCHANGED <<stock, opening, invoice, voucher, balance, journal>>
  BY DEF CreateOrder, ApproveOrder, WriteBack
<1> QED BY <1>1, <1>2 DEF Shapes

\* The stock after q come in at a price.
TakenIn(st, q, price, new) ==
  LET was == st.inv[wh]
  IN /\ new.inv[wh].qty = was.qty + q
     /\ Policy = "per_warehouse_wac" =>
          new.inv[wh].avg = HalfUp(was.qty * was.avg + q * price, was.qty + q)
     /\ LayersAfter(st.layers, Layered(st), q, price, new.layers)

LEMMA ReceiveStep ==
  ASSUME Shapes, NEW o \in Orders, Live(o), NEW q \in 1..order[o].qty, NEW day \in Days,
         Receive(o, q, day)
  PROVE  /\ Shapes' /\ UNCHANGED <<opening, invoice, voucher, balance>>
         /\ \E price \in Nat, worth \in Nat :
              /\ q \in Nat \ {0} /\ Adds(order, order', q, price, worth)
              /\ Posts("purchase_order_receipt", ReceiptId, 0, -Above(worth))
              /\ TakenIn(stock, q, price, stock')
<1> DEFINE price == order[o].price
           worth == Worth(q, price)
           a     == Above(worth)
<1>1. /\ price \in Nat /\ q \in Nat \ {0} /\ worth \in Nat
      /\ IsOrders(order') /\ Adds(order, order', q, price, worth)
  BY ReceiveOrders DEF Shapes
<1>2. /\ stock' = StockIn(stock, q, price, ReceiptId)
      /\ journal' = Post(journal, "purchase_order_receipt", ReceiptId, day, Entry(a, -a, 0, 0))
      /\ UNCHANGED <<opening, invoice, voucher, balance>>
  BY DEF Receive
<1> HIDE DEF price, worth
<1>3. a \in Int
  BY <1>1 DEF Above
<1>4. Posts("purchase_order_receipt", ReceiptId, 0, -Above(worth))
  <2> HIDE DEF a
  <2>1. IsLines(Entry(a, -a, 0, 0), 0, -a)
    BY <1>3, TwoLines
  <2>2. Posts("purchase_order_receipt", ReceiptId, 0, -a)
    BY <1>2, <2>1 DEF Posts
  <2> QED BY <2>2 DEF a
<1>5. IsJournal(journal')
  <2>1. "purchase_order_receipt" \in Passed
    BY DEF Passed
  <2> QED BY <1>4, <2>1, PostsKeeps DEF Shapes
<1>6. IsStock(stock') /\ TakenIn(stock, q, price, stock')
  <2>1. IsStock(stock)
    BY DEF Shapes
  <2> QED BY <1>1, <1>2, <2>1, StockInMoves DEF TakenIn
<1>7. Shapes'
  BY <1>1, <1>2, <1>5, <1>6 DEF Shapes
<1> QED BY <1>1, <1>2, <1>4, <1>6, <1>7

\* What a document is after amount a more is paid or credited on it: unless
\* that revived it.
PaidMore(d, a, e) ==
  /\ IsDoc(e) /\ SameDocument(e, d)
  /\ e.status # "cancelled" /\ ~e.revived =>
       d.status # "cancelled" /\ ~d.revived /\ e.paid = AtMost(d.total, d.paid + a)

LEMMA PaidNoMore ==
  ASSUME NEW d, IsDoc(d)
  PROVE  PaidMore(d, 0, d)
<1>1. d.paid \in Nat /\ d.total \in Nat /\ d.paid <= d.total
  BY DEF IsDoc
<1>2. d.paid = AtMost(d.total, d.paid + 0)
  BY <1>1 DEF AtMost
<1> QED BY <1>2 DEF PaidMore, SameDocument

LEMMA PaymentWritten ==
  ASSUME NEW d, IsDoc(d), NEW a \in Nat, NEW p, p = AtMost(d.total, d.paid + a),
         NEW status, status = "cancelled" => d.status = "cancelled",
         NEW r \in BOOLEAN, ~r => d.status # "cancelled" /\ ~d.revived,
         NEW e, e = [d EXCEPT !.paid = p, !.status = status, !.revived = r]
  PROVE  PaidMore(d, a, e)
<1>1. d = [type |-> d.type, of |-> d.of, total |-> d.total, paid |-> d.paid,
           status |-> d.status, revived |-> d.revived]
      /\ d.total \in Nat /\ d.paid \in 0..d.total
  BY DEF IsDoc
<1>2. p \in 0..d.total
  BY <1>1 DEF AtMost
<1>3. e = [type |-> d.type, of |-> d.of, total |-> d.total, paid |-> p,
           status |-> status, revived |-> r]
  BY <1>1
<1>4. IsDoc(e) /\ SameDocument(e, d) /\ e.paid = p /\ e.status = status /\ e.revived = r
  BY <1>1, <1>2, <1>3 DEF IsDoc, SameDocument
<1> QED BY <1>2, <1>4 DEF PaidMore

\* What an allocation gives to document i.
Share(to, i) == IF i \in DOMAIN to THEN to[i] ELSE 0

LEMMA AllocateIs ==
  ASSUME Shapes, NEW to, \A i \in DOMAIN to : to[i] \in Nat
  PROVE  /\ IsDocs(Allocate(to)) /\ SameDocuments(Allocate(to), invoice)
         /\ \A i \in 1..Len(invoice) : PaidMore(invoice[i], Share(to, i), Allocate(to)[i])
<1> DEFINE t == Allocate(to)
<1>1. DOMAIN invoice = 1..Len(invoice)
  BY Counts
<1>2. t = [i \in 1..Len(invoice) |-> t[i]]
  BY <1>1 DEF Allocate
<1>3. ASSUME NEW i \in 1..Len(invoice) PROVE PaidMore(invoice[i], Share(to, i), t[i])
  <2> DEFINE d == invoice[i]
             paid == AtMost(d.total, d.paid + to[i])
             status == IF paid >= d.total - D2 THEN "paid"
                       ELSE IF paid > D2 THEN "partial" ELSE d.status
  <2>1. IsDoc(d)
    BY DEF Shapes, IsDocs
  <2>2. CASE i \in DOMAIN to
    <3>1. PICK r : r = (d.revived \/ d.status = "cancelled")
      OBVIOUS
    <3>2. r \in BOOLEAN /\ (~r => d.status # "cancelled" /\ ~d.revived)
      BY <2>1, <3>1 DEF IsDoc
    <3>3. t[i] = [d EXCEPT !.paid = paid, !.status = status, !.revived = r]
      BY <1>1, <2>2, <3>1 DEF Allocate, Settled
    <3>4. status = "cancelled" => d.status = "cancelled"
      OBVIOUS
    <3> HIDE DEF status, d, t, paid
    <3>5. PaidMore(d, to[i], t[i])
      BY <2>1, <2>2, <3>2, <3>3, <3>4, PaymentWritten DEF paid
    <3> QED BY <2>2, <3>5 DEF Share, d
  <2>3. CASE i \notin DOMAIN to
    <3>1. t[i] = d
      BY <1>1, <2>3 DEF Allocate
    <3> HIDE DEF d, t
    <3>2. PaidMore(d, 0, t[i])
      BY <2>1, <3>1, PaidNoMore
    <3> QED BY <2>3, <3>2 DEF Share, d
  <2> QED BY <2>2, <2>3
<1>4. \A i \in 1..Len(invoice) : IsDoc(t[i]) /\ SameDocument(t[i], invoice[i])
  BY <1>3 DEF PaidMore
<1> HIDE DEF t
<1>5. IsDocs(t) /\ SameDocuments(t, invoice)
  BY <1>2, <1>4, DocsWritten DEF Shapes
<1> QED BY <1>3, <1>5 DEF t

\* A payment or a refund.
LEMMA SettleStep ==
  ASSUME Shapes, NEW amount \in Amounts, NEW to, DOMAIN to \subseteq 1..Len(invoice),
         \A i \in DOMAIN to : to[i] \in Nat, NEW day \in Days,
         NEW type, NEW sign \in {1, -1}, Settle(amount, to, day, type, sign)
  PROVE  /\ Shapes' /\ UNCHANGED <<order, stock, opening>>
         /\ SameDocuments(invoice', invoice)
         /\ \A i \in 1..Len(invoice) : PaidMore(invoice[i], Share(to, i), invoice'[i])
         /\ \E v : voucher' = Append(voucher, v) /\ IsVoucher(v) /\ v.to = to /\ v.amount = amount
         /\ amount \in Nat /\ balance' = balance + sign * amount
         /\ Posts("payment_voucher", VoucherId(Len(voucher) + 1), sign * Cents(amount), 0)
<1> DEFINE v == [type |-> type, amount |-> amount, to |-> to, status |-> "posted"]
           x == sign * Cents(amount)
<1>1. amount \in Nat
  BY PurchasingAssumption
<1>2. /\ invoice' = Allocate(to) /\ voucher' = Append(voucher, v)
      /\ balance' = balance + sign * amount /\ UNCHANGED <<order, stock, opening>>
      /\ journal' = Post(journal, "payment_voucher", VoucherId(Len(voucher) + 1), day,
                         Entry(0, 0, x, -sign * Cents(amount)))
  BY DEF Settle
<1>3. /\ IsDocs(invoice') /\ SameDocuments(invoice', invoice)
      /\ \A i \in 1..Len(invoice) : PaidMore(invoice[i], Share(to, i), invoice'[i])
  BY <1>2, AllocateIs
<1>4. IsVoucher(v) /\ v.to = to /\ v.amount = amount
  BY <1>1 DEF IsVoucher
<1>5. IsVouchers(voucher', Len(invoice'))
  <2> HIDE DEF v
  <2>1. IsVouchers(Append(voucher, v), Len(invoice))
    BY <1>4, Counts, VoucherAppended DEF Shapes
  <2> QED BY <1>2, <1>3, <2>1 DEF SameDocuments
<1>6. x \in Int /\ -sign * Cents(amount) = -x /\ balance + sign * amount \in Int
  <2>1. Cents(amount) \in Nat /\ balance \in Int /\ (sign = 1 \/ sign = -1)
    BY <1>1, CentsNat DEF Shapes
  <2> QED BY <1>1, <2>1
<1>7. Posts("payment_voucher", VoucherId(Len(voucher) + 1), x, 0)
  <2> HIDE DEF x
  <2>1. IsLines(Entry(0, 0, x, -x), x, 0)
    BY <1>6, TwoLines
  <2> QED BY <1>2, <1>6, <2>1 DEF Posts
<1>8. IsJournal(journal')
  <2>1. "payment_voucher" \in Passed
    BY DEF Passed
  <2> QED BY <1>7, <2>1, PostsKeeps DEF Shapes
<1>9. Shapes'
  BY <1>2, <1>3, <1>5, <1>6, <1>8 DEF Shapes
<1> HIDE DEF v, x
<1> QED BY <1>1, <1>2, <1>3, <1>4, <1>7, <1>9 DEF x

LEMMA DocumentIs ==
  ASSUME NEW type, NEW of, NEW total \in Nat, NEW status
  PROVE  LET d == Document(type, of, total, status)
         IN IsDoc(d) /\ d.type = type /\ d.of = of /\ d.total = total /\ d.paid = 0
  BY DEF IsDoc, Document

\* A new document that nothing has been paid on.
Added(documents, d, type, of) ==
  IsDoc(d) /\ d.type = type /\ d.of = of /\ d.paid = 0 /\ invoice' = Append(documents, d)

\* A credit or debit note.
LEMMA NoteStep ==
  ASSUME Shapes, NEW documents, IsDocs(documents), Len(documents) = Len(invoice),
         NEW type \in {"purchase_credit_note", "purchase_debit_note"},
         NEW i \in 0..Len(invoice), NEW total \in NoteTotals, NEW day \in Days, NEW status,
         NEW sign \in {1, -1}, Note(documents, type, i, total, day, status, sign)
  PROVE  /\ Shapes' /\ UNCHANGED <<order, stock, opening, voucher>>
         /\ \E d : d.total = total /\ Added(documents, d, type, i)
         /\ total \in Nat /\ balance' = balance + sign * total
         /\ Posts(type, InvoiceId(Len(invoice) + 1), sign * total, 0)
<1> DEFINE d == Document(type, i, total, status)
           x == sign * total
<1>1. total \in Nat
  BY PurchasingAssumption
<1>2. /\ invoice' = Append(documents, d) /\ balance' = balance + x
      /\ journal' = Post(journal, type, InvoiceId(Len(invoice) + 1), day,
                         Entry(-sign * total, 0, x, 0))
      /\ UNCHANGED <<order, stock, opening, voucher>>
  BY DEF Note
<1>3. IsDoc(d) /\ d.type = type /\ d.of = i /\ d.total = total /\ d.paid = 0
  BY <1>1, DocumentIs
<1> HIDE DEF d
<1>4. IsDocs(invoice') /\ Len(invoice') = Len(invoice) + 1
  BY <1>2, <1>3, DocAppended
<1>5. IsVouchers(voucher', Len(invoice'))
  <2>1. IsVouchers(voucher, Len(invoice) + 1)
    BY Counts, VouchersStay DEF Shapes
  <2> QED BY <1>2, <1>4, <2>1
<1>6. x \in Int /\ -sign * total = -x /\ balance + x \in Int
  <2>1. balance \in Int /\ (sign = 1 \/ sign = -1)
    BY DEF Shapes
  <2> QED BY <1>1, <2>1
<1>7. Posts(type, InvoiceId(Len(invoice) + 1), x, 0)
  <2> HIDE DEF x
  <2>1. IsLines(Entry(-x, 0, x, 0), x, 0)
    BY <1>6, TwoLines
  <2> QED BY <1>2, <1>6, <2>1 DEF Posts
<1>8. IsJournal(journal')
  <2>1. type \in Passed
    BY DEF Passed
  <2> QED BY <1>7, <2>1, PostsKeeps DEF Shapes
<1>9. Shapes'
  BY <1>2, <1>4, <1>5, <1>6, <1>8 DEF Shapes
<1> QED BY <1>1, <1>2, <1>3, <1>7, <1>9 DEF Added

\* The documents once a note of total is credited to document i, if any.
CreditedOn(i, total, documents) ==
  /\ IsDocs(documents) /\ SameDocuments(documents, invoice)
  /\ \A j \in 1..Len(invoice) :
       PaidMore(invoice[j], IF j = i THEN total ELSE 0, documents[j])

LEMMA CreditedIs ==
  ASSUME Shapes, NEW i \in 0..Len(invoice), NEW total \in Nat
  PROVE  CreditedOn(i, total, IF i = 0 THEN invoice ELSE Credited(i, total))
<1>1. DOMAIN invoice = 1..Len(invoice) /\ Len(invoice) \in Nat
  BY Counts
<1>2. \A j \in 1..Len(invoice) : IsDoc(invoice[j]) /\ PaidMore(invoice[j], 0, invoice[j])
  BY PaidNoMore DEF Shapes, IsDocs
<1>3. CASE i = 0
  <2>1. \A j \in 1..Len(invoice) : j # i
    BY <1>3
  <2>2. SameDocuments(invoice, invoice)
    BY DEF SameDocuments, SameDocument
  <2> QED BY <1>2, <1>3, <2>1, <2>2 DEF CreditedOn, Shapes
<1>4. CASE i # 0
  <2> DEFINE d == invoice[i]
             t == Credited(i, total)
             paid == AtMost(d.total, d.paid + total)
             status == IF paid >= d.total THEN "paid"
                       ELSE IF paid > 0 THEN "partial" ELSE d.status
  <2>1. i \in 1..Len(invoice) /\ IsDoc(d)
    BY <1>1, <1>2, <1>4
  <2>2. PICK r : r = (d.revived \/ d.status = "cancelled")
    OBVIOUS
  <2>3. r \in BOOLEAN /\ (~r => d.status # "cancelled" /\ ~d.revived)
    BY <2>1, <2>2 DEF IsDoc
  <2> DEFINE e == [d EXCEPT !.paid = paid, !.status = status, !.revived = r]
  <2>4. t = [invoice EXCEPT ![i] = e]
    <3>1. t = [invoice EXCEPT ![i].paid = paid, ![i].revived = r, ![i].status = status]
      BY <1>1, <2>1, <2>2 DEF Credited, Cancelled
    <3>2. [d EXCEPT !.paid = paid, !.revived = r, !.status = status] = e
      <4>1. d = [type |-> d.type, of |-> d.of, total |-> d.total, paid |-> d.paid,
                 status |-> d.status, revived |-> d.revived]
        BY <2>1 DEF IsDoc
      <4> HIDE DEF d, paid, status
      <4> QED BY <4>1
    <3> HIDE DEF e, paid, status, t
    <3> QED BY <1>1, <2>1, <3>1, <3>2 DEF d
  <2>5. PaidMore(d, total, e)
    <3>1. status = "cancelled" => d.status = "cancelled"
      OBVIOUS
    <3> HIDE DEF d, status, paid
    <3> QED BY <2>1, <2>3, <3>1, PaymentWritten DEF paid
  <2> HIDE DEF e, t, d
  <2>6. /\ t = [j \in 1..Len(invoice) |-> t[j]]
        /\ \A j \in 1..Len(invoice) : t[j] = IF j = i THEN e ELSE invoice[j]
    BY <1>1, <2>1, <2>4
  <2>7. \A j \in 1..Len(invoice) : PaidMore(invoice[j], IF j = i THEN total ELSE 0, t[j])
    BY <1>2, <2>5, <2>6 DEF d
  <2>8. \A j \in 1..Len(invoice) : IsDoc(t[j]) /\ SameDocument(t[j], invoice[j])
    BY <2>7 DEF PaidMore
  <2>9. IsDocs(t) /\ SameDocuments(t, invoice)
    BY <2>6, <2>8, DocsWritten DEF Shapes
  <2> QED BY <1>4, <2>7, <2>9 DEF CreditedOn, t
<1> QED BY <1>3, <1>4

LEMMA CreditNoteStep ==
  ASSUME Shapes, NEW i \in 0..Len(invoice), NEW total \in NoteTotals, NEW day \in Days,
         CreditNote(i, total, day)
  PROVE  /\ Shapes' /\ UNCHANGED <<order, stock, opening, voucher>>
         /\ \E documents, d :
              /\ CreditedOn(i, total, documents)
              /\ d.total = total /\ Added(documents, d, "purchase_credit_note", i)
         /\ total \in Nat /\ balance' = balance + total
         /\ Posts("purchase_credit_note", InvoiceId(Len(invoice) + 1), total, 0)
<1> DEFINE documents == IF i = 0 THEN invoice ELSE Credited(i, total)
<1>1. Note(documents, "purchase_credit_note", i, total, day, "posted", 1)
  BY DEF CreditNote
<1>2. total \in Nat
  BY PurchasingAssumption
<1>3. CreditedOn(i, total, documents)
  BY <1>2, CreditedIs
<1> HIDE DEF documents
<1>4. IsDocs(documents) /\ Len(documents) = Len(invoice)
  BY <1>3 DEF CreditedOn, SameDocuments
<1>5. /\ Shapes' /\ UNCHANGED <<order, stock, opening, voucher>>
      /\ \E d : d.total = total /\ Added(documents, d, "purchase_credit_note", i)
      /\ balance' = balance + 1 * total
      /\ Posts("purchase_credit_note", InvoiceId(Len(invoice) + 1), 1 * total, 0)
  BY <1>1, <1>4, NoteStep
<1>6. 1 * total = total
  BY <1>2
<1> QED BY <1>2, <1>3, <1>5, <1>6

LEMMA DebitNoteStep ==
  ASSUME Shapes, NEW i \in 0..Len(invoice), NEW total \in NoteTotals, NEW day \in Days,
         DebitNote(i, total, day)
  PROVE  /\ Shapes' /\ UNCHANGED <<order, stock, opening, voucher>>
         /\ \E d : Added(invoice, d, "purchase_debit_note", i)
         /\ total \in Nat /\ balance' = balance - total
         /\ Posts("purchase_debit_note", InvoiceId(Len(invoice) + 1), -total, 0)
<1>1. Note(invoice, "purchase_debit_note", i, total, day, "unpaid", -1)
  BY DEF DebitNote
<1>2. IsDocs(invoice) /\ balance \in Int
  BY DEF Shapes
<1>3. /\ Shapes' /\ UNCHANGED <<order, stock, opening, voucher>>
      /\ \E d : d.total = total /\ Added(invoice, d, "purchase_debit_note", i)
      /\ total \in Nat /\ balance' = balance + -1 * total
      /\ Posts("purchase_debit_note", InvoiceId(Len(invoice) + 1), -1 * total, 0)
  BY <1>1, <1>2, NoteStep
<1>4. -1 * total = -total /\ balance + -total = balance - total
  BY <1>2, <1>3
<1> QED BY <1>3, <1>4

\* A contract's document.
LEMMA ContractStep ==
  ASSUME Shapes, NEW total \in ContractTotals, ContractInvoice(total)
  PROVE  /\ Shapes' /\ UNCHANGED <<order, stock, opening, voucher, balance, journal>>
         /\ \E d : Added(invoice, d, "purchase", 0)
<1> DEFINE d == Document("purchase", 0, total, "unpaid")
<1>1. /\ invoice' = Append(invoice, d)
      /\ UNCHANGED <<order, stock, opening, voucher, balance, journal>>
  BY DEF ContractInvoice
<1>2. total \in Nat
  BY PurchasingAssumption
<1>3. IsDoc(d) /\ d.type = "purchase" /\ d.of = 0 /\ d.paid = 0
  BY <1>2, DocumentIs
<1> HIDE DEF d
<1>4. 0 \in 0..Len(invoice) /\ Len(invoice) \in Nat
  BY Counts
<1>5. IsDocs(invoice') /\ Len(invoice') = Len(invoice) + 1
  BY <1>1, <1>3, <1>4, DocAppended DEF Shapes
<1>6. IsVouchers(voucher', Len(invoice'))
  <2>1. IsVouchers(voucher, Len(invoice) + 1)
    BY <1>4, VouchersStay DEF Shapes
  <2> QED BY <1>1, <1>5, <2>1
<1>7. Shapes'
  BY <1>1, <1>5, <1>6 DEF Shapes
<1> QED BY <1>1, <1>3, <1>7 DEF Added

\* A cancellation: it finds no entry, so it was of 0.01 at most.
LEMMA CancelStep ==
  ASSUME Shapes, NEW i \in DOMAIN invoice, CancelInvoice(i)
  PROVE  /\ Shapes' /\ UNCHANGED <<order, stock, opening, balance, journal>>
         /\ SameDocuments(invoice', invoice) /\ invoice'[i].status = "cancelled"
         /\ \A j \in 1..Len(invoice) \ {i} : invoice'[j] = invoice[j]
         /\ OnlyInline(i) /\ voucher' = Withdrawn(i)
<1>1. DOMAIN invoice = 1..Len(invoice) /\ Len(invoice) \in Nat
  BY Counts
<1>2. Unnamed
  BY DEF Shapes, IsJournal, IsEntry, Unnamed
<1>3. EntriesOf(journal, "purchase_invoice", InvoiceId(i)) = {}
  BY <1>2, NothingFound DEF Passed
<1>4. /\ invoice[i].total <= D2 /\ OnlyInline(i)
      /\ invoice' = [invoice EXCEPT ![i].status = "cancelled"]
      /\ balance' = balance + Outstanding(invoice[i])
      /\ journal' = journal /\ UNCHANGED <<order, stock, opening>>
  BY <1>3, NothingReversed DEF CancelInvoice
<1>5. voucher' = Withdrawn(i)
  BY DEF CancelInvoice, Withdrawn
<1> DEFINE d == invoice[i]
           e == [d EXCEPT !.status = "cancelled"]
<1>6. IsDoc(d)
  BY <1>1 DEF Shapes, IsDocs
<1>7. IsDoc(e) /\ SameDocument(e, d) /\ e.status = "cancelled"
  <2>1. /\ d = [type |-> d.type, of |-> d.of, total |-> d.total, paid |-> d.paid,
                status |-> d.status, revived |-> d.revived]
        /\ d.total \in Nat /\ d.paid \in 0..d.total /\ d.revived \in BOOLEAN
    BY <1>6 DEF IsDoc
  <2> HIDE DEF d
  <2>2. e = [type |-> d.type, of |-> d.of, total |-> d.total, paid |-> d.paid,
             status |-> "cancelled", revived |-> d.revived]
    BY <2>1
  <2> HIDE DEF e
  <2> QED BY <2>1, <2>2 DEF IsDoc, SameDocument
<1>8. balance' = balance
  <2>1. d.total \in Nat /\ d.paid \in 0..d.total /\ d.total <= 100 /\ balance \in Int
    BY <1>4, <1>6 DEF IsDoc, D2, Shapes
  <2> HIDE DEF d
  <2>2. Outstanding(d) = 0
    BY <2>1 DEF Outstanding, Above, D2
  <2> QED BY <1>4, <2>1, <2>2 DEF d
<1>9. invoice' = [invoice EXCEPT ![i] = e]
  BY <1>4
<1> HIDE DEF d, e
<1>10. /\ invoice' = [j \in 1..Len(invoice) |-> invoice'[j]]
       /\ \A j \in 1..Len(invoice) : invoice'[j] = IF j = i THEN e ELSE invoice[j]
  BY <1>1, <1>9
<1>11. \A j \in 1..Len(invoice) : IsDoc(invoice'[j]) /\ SameDocument(invoice'[j], invoice[j])
  BY <1>7, <1>10 DEF d, Shapes, IsDocs, SameDocument
<1>12. IsDocs(invoice') /\ SameDocuments(invoice', invoice)
  BY <1>10, <1>11, DocsWritten DEF Shapes
<1>13. IsVouchers(voucher', Len(invoice'))
  BY <1>4, <1>5, <1>12, VouchersWithdrawn DEF SameDocuments
<1>14. Shapes'
  BY <1>4, <1>8, <1>12, <1>13 DEF Shapes
<1> QED BY <1>1, <1>4, <1>5, <1>7, <1>8, <1>10, <1>12, <1>14

\* The steps, with what their arguments range over.
LEMMA Steps ==
  ASSUME Shapes, [Next]_vars
  PROVE  \/ UNCHANGED vars
         \/ \E o \in Orders : CreateOrder(o) \/ ApproveOrder(o) \/ WriteBack(o)
         \/ \E o \in Orders, day \in Days :
              Live(o) /\ \E q \in 1..order[o].qty : Receive(o, q, day)
         \/ \E total \in ContractTotals : ContractInvoice(total)
         \/ \E amount \in Amounts, day \in Days, sign \in {1, -1} : \E to, type :
              /\ DOMAIN to \subseteq 1..Len(invoice) /\ \A i \in DOMAIN to : to[i] \in Nat
              /\ Settle(amount, to, day, type, sign)
         \/ \E i \in 0..Len(invoice), total \in NoteTotals, day \in Days :
              CreditNote(i, total, day)
         \/ \E i \in 0..Len(invoice), total \in NoteTotals, day \in Days :
              DebitNote(i, total, day)
         \/ \E i \in DOMAIN invoice : CancelInvoice(i)
<1>0. DOMAIN invoice = 1..Len(invoice) /\ DOMAIN invoice \cup {0} = 0..Len(invoice)
  BY Counts
<1>1. CASE UNCHANGED vars
  BY <1>1
<1>2. CASE \E o \in Orders : CreateOrder(o) \/ ApproveOrder(o) \/ WriteBack(o)
  BY <1>2
<1>3. ASSUME NEW day \in Days, Receipts(day)
      PROVE  \E o \in Orders : Live(o) /\ \E q \in 1..order[o].qty : Receive(o, q, day)
  BY <1>3 DEF Receipts
<1>4. ASSUME NEW day \in Days, Notes(day)
      PROVE  \E i \in 0..Len(invoice), total \in NoteTotals :
               CreditNote(i, total, day) \/ DebitNote(i, total, day)
  BY <1>0, <1>4 DEF Notes
<1>5. ASSUME NEW day \in Days, Settlements(day)
      PROVE  \E amount \in Amounts, sign \in {1, -1} : \E to, type :
               /\ DOMAIN to \subseteq 1..Len(invoice) /\ \A i \in DOMAIN to : to[i] \in Nat
               /\ Settle(amount, to, day, type, sign)
  <2>1. PICK S \in SUBSET DOMAIN invoice, amount \in Amounts : \E to \in [S -> Allotments] :
               PaySupplier(amount, to, day) \/ TakeRefund(amount, to, day)
    BY <1>5 DEF Settlements
  <2>2. PICK to \in [S -> Allotments] : PaySupplier(amount, to, day) \/ TakeRefund(amount, to, day)
    BY <2>1
  <2>3. DOMAIN to \subseteq 1..Len(invoice) /\ \A i \in DOMAIN to : to[i] \in Nat
    BY <1>0, PurchasingAssumption
  <2>4. Settle(amount, to, day, "payment", 1) \/ Settle(amount, to, day, "refund", -1)
    BY <2>2 DEF PaySupplier, TakeRefund
  <2> QED BY <2>3, <2>4
<1> QED BY <1>1, <1>2, <1>3, <1>4, <1>5 DEF Next

LEMMA ShapesKept == Shapes /\ [Next]_vars => Shapes'
<1> SUFFICES ASSUME Shapes, [Next]_vars PROVE Shapes'
  OBVIOUS
<1>1. CASE UNCHANGED vars
  BY <1>1 DEF vars, Shapes
<1> QED BY <1>1, Steps, OrderStep, ReceiveStep, ContractStep, SettleStep, CreditNoteStep,
           DebitNoteStep, CancelStep

LEMMA ShapesType == Shapes => TypeOK
<1> SUFFICES ASSUME Shapes PROVE TypeOK
  OBVIOUS
<1>1. stock.inv[wh].qty \in Nat /\ \A i \in DOMAIN stock.layers : stock.layers[i].left \in Nat
  BY DEF Shapes, IsStock, IsRow, IsList, IsLayer
<1>2. \A i \in DOMAIN invoice : invoice[i].paid \in 0..invoice[i].total
  BY Counts DEF Shapes, IsDocs, IsDoc
<1>3. \A v \in DOMAIN voucher : voucher[v].status \in {"posted", "void"}
  BY Counts DEF Shapes, IsVouchers, IsVoucher
<1>4. \A e \in journal : Balanced(e.lines) /\ e.source \in Values /\ e.day \in Days
  BY DEF Shapes, IsJournal, IsEntry, Values
<1> QED BY <1>1, <1>2, <1>3, <1>4 DEF Shapes, TypeOK

\* Whatever is received, paid, noted and cancelled in whichever order, no
\* document is paid beyond its total and no entry is posted that does not
\* balance.
THEOREM TypeCorrect == Spec => []TypeOK
  BY ShapesInit, ShapesKept, ShapesType, PTL DEF Spec

(***************************************************************************)
(* The numbers of entries                                                  *)
(***************************************************************************)
Known    == ReceiptIds \cup NoteIds \cup VoucherIds
Numbered == \A e \in journal : e.id \in Known

\* Numbers are only added.
MoreIds ==
  ReceiptIds \subseteq ReceiptIds' /\ NoteIds \subseteq NoteIds' /\ VoucherIds \subseteq VoucherIds'

NewIds == (ReceiptIds' \ ReceiptIds) \cup (NoteIds' \ NoteIds) \cup (VoucherIds' \ VoucherIds)

LEMMA ReceiptsTally == IsOrders(order) => ReceiptsMade = Tally(order, "receipts")
  BY Tallies

LEMMA ReceiptsTallyNext == IsOrders(order)' => ReceiptsMade' = Tally(order', "receipts")
<1>1. (ReceiptsMade = Tally(order, "receipts"))' => ReceiptsMade' = Tally(order', "receipts")
  OBVIOUS
<1> QED BY <1>1, ReceiptsTally, PTL

LEMMA SameReceipts ==
  ASSUME Shapes, IsOrders(order'), Tally(order', "receipts") = Tally(order, "receipts")
  PROVE  ReceiptIds' = ReceiptIds
<1>1. IsOrders(order) /\ IsOrders(order)'
  BY DEF Shapes
<1>2. ReceiptsMade = Tally(order, "receipts") /\ ReceiptsMade' = Tally(order', "receipts")
  BY <1>1, ReceiptsTally, ReceiptsTallyNext
<1> QED BY <1>2 DEF ReceiptIds

LEMMA NewReceipt ==
  ASSUME Shapes, IsOrders(order'), Tally(order', "receipts") = Tally(order, "receipts") + 1
  PROVE  ReceiptIds \subseteq ReceiptIds' /\ ReceiptId \in ReceiptIds' \ ReceiptIds
<1>1. IsOrders(order) /\ IsOrders(order)'
  BY DEF Shapes
<1>2. ReceiptsMade = Tally(order, "receipts") /\ ReceiptsMade' = Tally(order', "receipts")
  BY <1>1, ReceiptsTally, ReceiptsTallyNext
<1>3. ReceiptsMade \in Nat /\ ReceiptsMade' = ReceiptsMade + 1 /\ Before.receipts \in Nat
  <2>1. "receipts" \in Counters
    BY DEF Counters
  <2> QED BY <1>1, <1>2, <2>1, TallyNat, PurchasingAssumption
<1>4. ReceiptId = Before.receipts + 1 + ReceiptsMade
  BY DEF ReceiptId
<1>5. PICK b \in Nat, n \in Nat : b = Before.receipts /\ n = ReceiptsMade
  BY <1>3
<1>6. ReceiptIds = {b + k : k \in 1..n} /\ ReceiptIds' = {b + k : k \in 1..(n + 1)}
  BY <1>3, <1>5 DEF ReceiptIds
<1>7. ReceiptId = b + (n + 1)
  BY <1>4, <1>5
<1> QED BY <1>5, <1>6, <1>7

IsNote(d) == d.type \in {"purchase_credit_note", "purchase_debit_note"}
NotesIn(s) == {InvoiceId(i) : i \in {k \in 1..Len(s) : IsNote(s[k])}}

LEMMA NoteIdsAre ==
  ASSUME Shapes
  PROVE  NoteIds = NotesIn(invoice)
<1>1. DOMAIN invoice = 1..Len(invoice)
  BY Counts
<1>2. CreditNotes \cup DebitNotes = {k \in 1..Len(invoice) : IsNote(invoice[k])}
  BY <1>1 DEF CreditNotes, DebitNotes, IsNote
<1> QED BY <1>2 DEF NoteIds, NotesIn

LEMMA NoteIdsNext == Shapes' => NoteIds' = NotesIn(invoice')
<1>1. Shapes => NoteIds = NotesIn(invoice)
  BY NoteIdsAre
<1>2. (NoteIds = NotesIn(invoice))' => NoteIds' = NotesIn(invoice')
  OBVIOUS
<1> QED BY <1>1, <1>2, PTL

LEMMA SameNotes ==
  ASSUME Shapes, Shapes', SameDocuments(invoice', invoice)
  PROVE  NoteIds' = NoteIds
<1>1. {k \in 1..Len(invoice') : IsNote(invoice'[k])} = {k \in 1..Len(invoice) : IsNote(invoice[k])}
  BY DEF SameDocuments, SameDocument, IsNote
<1>2. NotesIn(invoice') = NotesIn(invoice)
  BY <1>1 DEF NotesIn
<1> QED BY <1>2, NoteIdsAre, NoteIdsNext

\* The numbers when a document is added.
LEMMA NoteAdded ==
  ASSUME Shapes, Shapes', NEW documents, IsDocs(documents), SameDocuments(documents, invoice),
         NEW d, NEW type, NEW of, Added(documents, d, type, of)
  PROVE  /\ NoteIds \subseteq NoteIds'
         /\ IsNote(d) => InvoiceId(Len(invoice) + 1) \in NoteIds' \ NoteIds
         /\ ~IsNote(d) => NoteIds' = NoteIds
<1> DEFINE n == Len(invoice)
<1>1. n \in Nat /\ Len(documents) = n
  BY Counts DEF SameDocuments
<1>2. /\ Len(invoice') = n + 1 /\ \A k \in 1..n : invoice'[k] = documents[k]
      /\ invoice'[n + 1] = d
  BY <1>1, AppendList DEF Added, IsDocs
<1>3. \A k \in 1..n : IsNote(invoice'[k]) <=> IsNote(invoice[k])
  BY <1>2 DEF SameDocuments, SameDocument, IsNote
<1>4. NoteIds = NotesIn(invoice) /\ NoteIds' = NotesIn(invoice')
  BY NoteIdsAre, NoteIdsNext
<1>5. {k \in 1..n : IsNote(invoice[k])} \subseteq {k \in 1..(n + 1) : IsNote(invoice'[k])}
  BY <1>1, <1>3
<1>6. NoteIds \subseteq NoteIds'
  BY <1>2, <1>4, <1>5 DEF NotesIn
<1>7. ASSUME IsNote(d) PROVE InvoiceId(n + 1) \in NoteIds' \ NoteIds
  <2>1. n + 1 \in {k \in 1..(n + 1) : IsNote(invoice'[k])}
    BY <1>1, <1>2, <1>7
  <2>2. InvoiceId(n + 1) \in NoteIds'
    BY <1>2, <1>4, <2>1 DEF NotesIn
  <2>3. \A k \in 1..n : InvoiceId(k) # InvoiceId(n + 1)
    BY <1>1, PurchasingAssumption DEF InvoiceId
  <2>4. InvoiceId(n + 1) \notin NoteIds
    BY <1>4, <2>3 DEF NotesIn
  <2> QED BY <2>2, <2>4
<1>8. ASSUME ~IsNote(d) PROVE NoteIds' = NoteIds
  <2>1. {k \in 1..n : IsNote(invoice[k])} = {k \in 1..(n + 1) : IsNote(invoice'[k])}
    BY <1>1, <1>2, <1>3, <1>8
  <2> QED BY <1>2, <1>4, <2>1 DEF NotesIn
<1> QED BY <1>6, <1>7, <1>8

\* The numbers of vouchers, of which there are as many or one more.
LEMMA VoucherNumbers ==
  ASSUME Shapes, Shapes'
  PROVE  /\ Len(voucher') = Len(voucher) => VoucherIds' = VoucherIds
         /\ Len(voucher') = Len(voucher) + 1 =>
              /\ VoucherIds \subseteq VoucherIds'
              /\ VoucherId(Len(voucher) + 1) \in VoucherIds' \ VoucherIds
<1>1. /\ Len(voucher) \in Nat /\ DOMAIN voucher = 1..Len(voucher)
      /\ DOMAIN voucher' = 1..Len(voucher')
  BY Counts DEF Shapes, IsVouchers, IsList
<1>2. VoucherIds = {VoucherId(v) : v \in 1..Len(voucher)}
      /\ VoucherIds' = {VoucherId(v) : v \in 1..Len(voucher')}
  BY <1>1 DEF VoucherIds
<1>3. \A v \in 1..Len(voucher) : VoucherId(v) # VoucherId(Len(voucher) + 1)
  BY <1>1, PurchasingAssumption DEF VoucherId
<1>4. Len(voucher') = Len(voucher) => VoucherIds' = VoucherIds
  BY <1>2
<1>5. ASSUME Len(voucher') = Len(voucher) + 1
      PROVE  /\ VoucherIds \subseteq VoucherIds'
             /\ VoucherId(Len(voucher) + 1) \in VoucherIds' \ VoucherIds
  <2>1. 1..Len(voucher) \subseteq 1..Len(voucher') /\ Len(voucher) + 1 \in 1..Len(voucher')
    BY <1>1, <1>5
  <2>2. VoucherIds \subseteq VoucherIds'
    BY <1>2, <2>1
  <2>3. VoucherId(Len(voucher) + 1) \in VoucherIds'
    BY <1>2, <2>1
  <2>4. VoucherId(Len(voucher) + 1) \notin VoucherIds
    BY <1>2, <1>3
  <2> QED BY <2>2, <2>3, <2>4
<1> QED BY <1>4, <1>5

\* An entry posted under a new number, when numbers are apart, is that of
\* no other, and its lines count.
LEMMA PostedNew ==
  ASSUME Shapes, Numbered, MoreIds, NEW source, NEW id \in NewIds, NEW m, NEW u,
         Posts(source, id, m, u)
  PROVE  /\ Numbered'
         /\ Apart' => /\ Apart
                      /\ LineSum(journal', "payable") = LineSum(journal, "payable") + m
                      /\ LineSum(journal', "unbilled") = LineSum(journal, "unbilled") + u
<1>0. PICK day \in Days : \E lines : IsLines(lines, m, u)
                                     /\ journal' = Post(journal, source, id, day, lines)
  BY DEF Posts
<1>1. PICK lines : IsLines(lines, m, u) /\ journal' = Post(journal, source, id, day, lines)
  BY <1>0
<1>2. Known \subseteq Known' /\ id \in Known'
  BY DEF MoreIds, NewIds, Known
<1>3. Numbered'
  BY <1>1, <1>2, PostIds DEF Numbered
<1>4. ASSUME Apart'
      PROVE  /\ Apart
             /\ LineSum(journal', "payable") = LineSum(journal, "payable") + m
             /\ LineSum(journal', "unbilled") = LineSum(journal, "unbilled") + u
  <2>1. Apart
    BY <1>4 DEF Apart, MoreIds
  <2>2. id \notin Known
    BY <1>4 DEF Apart, MoreIds, NewIds, Known
  <2>3. \A e \in journal : e.id # id
    BY <2>2 DEF Numbered
  <2>4. lines["payable"] = m /\ lines["unbilled"] = u /\ m \in Int /\ u \in Int
    BY <1>1 DEF IsLines
  <2>5. LineSum(Post(journal, source, id, day, lines), "payable")
          = LineSum(journal, "payable") + lines["payable"]
    BY <2>3, <2>4, PostAdds DEF Shapes
  <2>6. LineSum(Post(journal, source, id, day, lines), "unbilled")
          = LineSum(journal, "unbilled") + lines["unbilled"]
    BY <2>3, <2>4, PostAdds DEF Shapes
  <2> QED BY <1>1, <2>1, <2>4, <2>5, <2>6
<1> QED BY <1>3, <1>4

\* Nothing posted, and no number added.
LEMMA NothingPosted ==
  ASSUME Numbered, Known' = Known, ReceiptIds' = ReceiptIds, NoteIds' = NoteIds,
         VoucherIds' = VoucherIds, journal' = journal
  PROVE  Numbered' /\ (Apart' => Apart)
  BY DEF Numbered, Apart

(***************************************************************************)
(* The ledger, the orders and the supplier's balance                       *)
(***************************************************************************)
\* Nothing is reversed, so every entry counts.
LEMMA BookedIs ==
  ASSUME Shapes, NEW a
  PROVE  Booked(a) = LineSum(journal, a)
<1>1. {e \in journal : ~e.reversed} = journal
  BY DEF Shapes, IsJournal, IsEntry
<1> QED BY <1>1 DEF Booked, SumOver, LineSum

UnevenOf(s) == {v \in 1..Len(s) : s[v].amount # Cents(s[v].amount)}
UnevenCount(s) == Cardinality(UnevenOf(s))

LEMMA UnevenNat ==
  ASSUME NEW n, NEW s, IsVouchers(s, n)
  PROVE  IsFiniteSet(UnevenOf(s)) /\ UnevenCount(s) \in Nat
<1>1. IsFiniteSet(1..Len(s)) /\ UnevenOf(s) \subseteq 1..Len(s)
  BY FS_Interval DEF IsVouchers, IsList, UnevenOf
<1>2. IsFiniteSet(UnevenOf(s))
  BY <1>1, FS_Subset
<1> QED BY <1>2, FS_CardinalityType DEF UnevenCount

LEMMA UnevenMore ==
  ASSUME NEW n, NEW s, IsVouchers(s, n), NEW v
  PROVE  UnevenCount(Append(s, v))
           = UnevenCount(s) + (IF v.amount # Cents(v.amount) THEN 1 ELSE 0)
<1> DEFINE t == Append(s, v)
           m == Len(s)
<1>1. /\ Len(t) = m + 1 /\ \A j \in 1..m : t[j] = s[j]
      /\ t[m + 1] = v /\ m \in Nat
  BY AppendList DEF IsVouchers, IsList
<1>2. IsFiniteSet(UnevenOf(s)) /\ UnevenCount(s) \in Nat
  BY UnevenNat
<1> HIDE DEF t
<1>3. CASE v.amount # Cents(v.amount)
  <2>1. UnevenOf(t) = UnevenOf(s) \cup {m + 1} /\ m + 1 \notin UnevenOf(s)
    BY <1>1, <1>3 DEF UnevenOf
  <2>2. Cardinality(UnevenOf(s) \cup {m + 1}) = Cardinality(UnevenOf(s)) + 1
    BY <1>2, <2>1, FS_AddElement
  <2> QED BY <1>3, <2>1, <2>2 DEF UnevenCount, t
<1>4. CASE v.amount = Cents(v.amount)
  <2>1. UnevenOf(t) = UnevenOf(s)
    BY <1>1, <1>4 DEF UnevenOf
  <2> QED BY <1>2, <1>4, <2>1 DEF UnevenCount, t
<1> QED BY <1>3, <1>4

\* What is off, and how much of it there may be.
Short(x, d) == 0 <= x /\ x <= d
Unbooked == Tally(order, "worth") + LineSum(journal, "unbilled")

Agrees ==
  /\ Numbered
  /\ Apart => /\ Short(Unbooked, D2 * Tally(order, "petty"))
              /\ Close(2 * LineSum(journal, "payable"), 2 * balance, D2 * UnevenCount(voucher))

\* The figures are numbers.
LEMMA Figures ==
  ASSUME Shapes
  PROVE  /\ LineSum(journal, "payable") \in Int /\ LineSum(journal, "unbilled") \in Int
         /\ \A x \in Counters : Tally(order, x) \in Nat
         /\ balance \in Int /\ UnevenCount(voucher) \in Nat
  BY LineSumInt, TallyNat, UnevenNat DEF Shapes

LEMMA AgreesInit == Init => Agrees
<1> SUFFICES ASSUME Init PROVE Agrees
  OBVIOUS
<1>1. Shapes /\ journal = {} /\ balance = 0 /\ voucher = <<>>
  BY ShapesInit DEF Init
<1>2. LineSum(journal, "payable") = 0 /\ LineSum(journal, "unbilled") = 0
  BY <1>1, SumNone DEF LineSum
<1>3. \A x \in Counters : Tally(order, x) = 0
  <2> SUFFICES ASSUME NEW x \in Counters PROVE Tally(order, x) = 0
    OBVIOUS
  <2> DEFINE w == [o \in Orders |-> Counted(order[o])[x]]
  <2>1. \A o \in Orders : w[o] = 0
    BY DEF Init, Counted
  <2>2. IsFiniteSet(Orders) /\ {} \in SUBSET Orders
    BY PurchasingAssumption
  <2> HIDE DEF w
  <2>3. SumFunctionOnSet(w, Orders) = SumFunctionOnSet(w, {})
    <3>1. \A o \in Orders : w[o] \in Int
      BY <2>1
    <3>2. \A o \in Orders \ {} : w[o] = 0
      BY <2>1
    <3> QED BY <2>2, <3>1, <3>2, SumSupport
  <2> QED BY <2>3, SumNone DEF Tally, w
<1>4. "worth" \in Counters /\ "petty" \in Counters
  BY DEF Counters
<1>5. Numbered
  BY <1>1 DEF Numbered
<1>6. Short(Unbooked, D2 * Tally(order, "petty"))
  BY <1>2, <1>3, <1>4 DEF Short, Unbooked, D2
<1>7. UnevenCount(voucher) \in Nat
  BY <1>1, Figures
<1>8. Close(2 * LineSum(journal, "payable"), 2 * balance, D2 * UnevenCount(voucher))
  BY <1>1, <1>2, <1>7 DEF Close, D2
<1> QED BY <1>5, <1>6, <1>8 DEF Agrees

LEMMA ReceiveAgrees ==
  ASSUME Shapes, Agrees, NEW o \in Orders, Live(o), NEW q \in 1..order[o].qty, NEW day \in Days,
         Receive(o, q, day)
  PROVE  Agrees'
<1>1. /\ Shapes' /\ UNCHANGED <<opening, invoice, voucher, balance>>
      /\ \E price \in Nat, worth \in Nat :
           /\ Adds(order, order', q, price, worth)
           /\ Posts("purchase_order_receipt", ReceiptId, 0, -Above(worth))
  BY ReceiveStep
<1>2. PICK price \in Nat, worth \in Nat :
           /\ Adds(order, order', q, price, worth)
           /\ Posts("purchase_order_receipt", ReceiptId, 0, -Above(worth))
  BY <1>1
<1>3. MoreIds /\ ReceiptId \in NewIds
  <2>1. ReceiptIds \subseteq ReceiptIds' /\ ReceiptId \in ReceiptIds' \ ReceiptIds
    BY <1>1, <1>2, NewReceipt DEF Adds, Shapes
  <2>2. NoteIds' = NoteIds /\ VoucherIds' = VoucherIds
    BY <1>1 DEF NoteIds, CreditNotes, DebitNotes, VoucherIds
  <2> QED BY <2>1, <2>2 DEF MoreIds, NewIds
<1>4. /\ Numbered'
      /\ Apart' => /\ Apart
                   /\ LineSum(journal', "payable") = LineSum(journal, "payable") + 0
                   /\ LineSum(journal', "unbilled") = LineSum(journal, "unbilled") + -Above(worth)
  BY <1>2, <1>3, PostedNew DEF Agrees
<1>5. ASSUME Apart'
      PROVE  /\ Short(Unbooked', D2 * Tally(order', "petty"))
             /\ Close(2 * LineSum(journal', "payable"), 2 * balance', D2 * UnevenCount(voucher'))
  <2>1. PICK w \in Nat, l \in Nat, p \in Int, u \in Int, b \in Int, n \in Nat :
          /\ w = Tally(order, "worth") /\ l = Tally(order, "petty")
          /\ p = LineSum(journal, "payable") /\ u = LineSum(journal, "unbilled")
          /\ b = balance /\ n = UnevenCount(voucher)
    BY Figures DEF Counters
  <2>2. /\ Short(w + u, D2 * l) /\ Close(2 * p, 2 * b, D2 * n)
        /\ Unbooked' = (w + worth) + (u + -Above(worth))
        /\ Tally(order', "petty") = l + (IF worth <= D2 THEN 1 ELSE 0)
        /\ LineSum(journal', "payable") = p + 0
    BY <1>2, <1>4, <1>5, <2>1 DEF Agrees, Unbooked, Adds
  <2>3. Short((w + worth) + (u + -Above(worth)), D2 * (l + (IF worth <= D2 THEN 1 ELSE 0)))
    BY <2>2 DEF Short, Above, D2
  <2>4. p + 0 = p
    OBVIOUS
  <2> QED BY <1>1, <2>1, <2>2, <2>3, <2>4
<1> QED BY <1>4, <1>5 DEF Agrees

\* A step that posts to the payables as much as it gives the balance, but
\* for rounding, and receives nothing.
LEMMA PayableMoves ==
  ASSUME Shapes, Agrees, order' = order, MoreIds, NEW source, NEW id \in NewIds,
         NEW m \in Int, NEW x \in Int, Posts(source, id, m, 0), balance' = balance + x,
         NEW k \in Nat, UnevenCount(voucher') = UnevenCount(voucher) + k,
         Close(2 * m, 2 * x, D2 * k)
  PROVE  Agrees'
<1>1. /\ Numbered'
      /\ Apart' => /\ Apart
                   /\ LineSum(journal', "payable") = LineSum(journal, "payable") + m
                   /\ LineSum(journal', "unbilled") = LineSum(journal, "unbilled") + 0
  BY PostedNew DEF Agrees
<1>2. ASSUME Apart'
      PROVE  /\ Short(Unbooked', D2 * Tally(order', "petty"))
             /\ Close(2 * LineSum(journal', "payable"), 2 * balance', D2 * UnevenCount(voucher'))
  <2>1. PICK w \in Nat, p \in Int, u \in Int, b \in Int, n \in Nat :
          /\ w = Tally(order, "worth")
          /\ p = LineSum(journal, "payable") /\ u = LineSum(journal, "unbilled")
          /\ b = balance /\ n = UnevenCount(voucher)
    BY Figures DEF Counters
  <2>2. /\ Close(2 * p, 2 * b, D2 * n) /\ Short(w + u, D2 * Tally(order, "petty"))
        /\ Unbooked' = w + (u + 0)
    BY <1>1, <1>2, <2>1 DEF Agrees, Unbooked
  <2>3. Close(2 * (p + m), 2 * (b + x), D2 * (n + k))
    BY <2>2 DEF Close, D2
  <2>4. w + (u + 0) = w + u
    BY <2>1
  <2> QED BY <1>1, <1>2, <2>1, <2>2, <2>3, <2>4
<1> QED BY <1>1, <1>2 DEF Agrees

LEMMA SettleAgrees ==
  ASSUME Shapes, Agrees, NEW amount \in Amounts, NEW to, DOMAIN to \subseteq 1..Len(invoice),
         \A i \in DOMAIN to : to[i] \in Nat, NEW day \in Days,
         NEW type, NEW sign \in {1, -1}, Settle(amount, to, day, type, sign)
  PROVE  Agrees'
<1>1. /\ Shapes' /\ UNCHANGED <<order, stock, opening>> /\ SameDocuments(invoice', invoice)
      /\ \E v : voucher' = Append(voucher, v) /\ v.amount = amount
      /\ amount \in Nat /\ balance' = balance + sign * amount
      /\ Posts("payment_voucher", VoucherId(Len(voucher) + 1), sign * Cents(amount), 0)
  BY SettleStep
<1>2. PICK v : voucher' = Append(voucher, v) /\ v.amount = amount
  BY <1>1
<1>3. MoreIds /\ VoucherId(Len(voucher) + 1) \in NewIds
  <2>1. Len(voucher') = Len(voucher) + 1
    BY <1>2, AppendList DEF Shapes, IsVouchers
  <2>2. NoteIds' = NoteIds
    BY <1>1, SameNotes
  <2>3. ReceiptIds' = ReceiptIds
    BY <1>1, SameReceipts DEF Shapes
  <2> QED BY <1>1, <2>1, <2>2, <2>3, VoucherNumbers DEF MoreIds, NewIds
<1> DEFINE k == IF amount # Cents(amount) THEN 1 ELSE 0
<1>4. UnevenCount(voucher') = UnevenCount(voucher) + k
  BY <1>2, UnevenMore DEF Shapes
<1>5. /\ sign * Cents(amount) \in Int /\ sign * amount \in Int /\ k \in Nat
      /\ Close(2 * (sign * Cents(amount)), 2 * (sign * amount), D2 * k)
  <2>1. Cents(amount) \in Nat /\ Close(2 * Cents(amount), 2 * amount, 100)
    BY <1>1, CentsNat
  <2>2. PICK c \in Nat : c = Cents(amount)
    BY <2>1
  <2>3. CASE sign = 1
    BY <1>1, <2>1, <2>2, <2>3 DEF Close, D2
  <2>4. CASE sign = -1
    <3>1. PICK a \in Nat : a = amount
      BY <1>1
    <3>2. Close(2 * c, 2 * a, D2 * k) => Close(2 * (-c), 2 * (-a), D2 * k)
      <4> HIDE DEF k
      <4>1. k \in Int /\ D2 * k \in Int
        BY DEF k, D2
      <4>2. PICK e \in Int : e = D2 * k
        BY <4>1
      <4> QED BY <4>2 DEF Close
    <3>3. Close(2 * c, 2 * a, D2 * k)
      BY <2>1, <2>2, <3>1 DEF Close, D2
    <3>4. sign * Cents(amount) = -c /\ sign * amount = -a
      BY <2>2, <2>4, <3>1
    <3>5. k \in Nat
      OBVIOUS
    <3> HIDE DEF k
    <3> QED BY <3>2, <3>3, <3>4, <3>5
  <2> QED BY <2>3, <2>4
<1> HIDE DEF k
<1> QED BY <1>1, <1>3, <1>4, <1>5, PayableMoves

LEMMA CreditNoteAgrees ==
  ASSUME Shapes, Agrees, NEW i \in 0..Len(invoice), NEW total \in NoteTotals, NEW day \in Days,
         CreditNote(i, total, day)
  PROVE  Agrees'
<1>1. /\ Shapes' /\ UNCHANGED <<order, stock, opening, voucher>>
      /\ \E documents, d : /\ CreditedOn(i, total, documents)
                           /\ Added(documents, d, "purchase_credit_note", i)
      /\ total \in Nat /\ balance' = balance + total
      /\ Posts("purchase_credit_note", InvoiceId(Len(invoice) + 1), total, 0)
  BY CreditNoteStep
<1>2. PICK documents, d : /\ CreditedOn(i, total, documents)
                          /\ Added(documents, d, "purchase_credit_note", i)
  BY <1>1
<1>3. MoreIds /\ InvoiceId(Len(invoice) + 1) \in NewIds
  <2>1. NoteIds \subseteq NoteIds' /\ InvoiceId(Len(invoice) + 1) \in NoteIds' \ NoteIds
    <3>1. IsNote(d)
      BY <1>2 DEF Added, IsNote
    <3>2. IsDocs(documents) /\ SameDocuments(documents, invoice)
      BY <1>2 DEF CreditedOn
    <3> QED BY <1>1, <1>2, <3>1, <3>2, NoteAdded
  <2>2. ReceiptIds' = ReceiptIds
    BY <1>1, SameReceipts DEF Shapes
  <2>3. VoucherIds' = VoucherIds
    BY <1>1 DEF VoucherIds
  <2> QED BY <2>1, <2>2, <2>3 DEF MoreIds, NewIds
<1>4. UnevenCount(voucher') = UnevenCount(voucher) + 0
  <2>1. UnevenCount(voucher) \in Nat
    BY Figures
  <2> QED BY <1>1, <2>1
<1>5. Close(2 * total, 2 * total, D2 * 0)
  BY <1>1 DEF Close, D2
<1> QED BY <1>1, <1>3, <1>4, <1>5, PayableMoves

LEMMA DebitNoteAgrees ==
  ASSUME Shapes, Agrees, NEW i \in 0..Len(invoice), NEW total \in NoteTotals, NEW day \in Days,
         DebitNote(i, total, day)
  PROVE  Agrees'
<1>1. /\ Shapes' /\ UNCHANGED <<order, stock, opening, voucher>>
      /\ \E d : Added(invoice, d, "purchase_debit_note", i)
      /\ total \in Nat /\ balance' = balance - total
      /\ Posts("purchase_debit_note", InvoiceId(Len(invoice) + 1), -total, 0)
  BY DebitNoteStep
<1>2. PICK d : Added(invoice, d, "purchase_debit_note", i)
  BY <1>1
<1>3. MoreIds /\ InvoiceId(Len(invoice) + 1) \in NewIds
  <2>1. NoteIds \subseteq NoteIds' /\ InvoiceId(Len(invoice) + 1) \in NoteIds' \ NoteIds
    <3>1. IsNote(d)
      BY <1>2 DEF Added, IsNote
    <3>2. IsDocs(invoice) /\ SameDocuments(invoice, invoice)
      BY DEF Shapes, SameDocuments, SameDocument
    <3> QED BY <1>1, <1>2, <3>1, <3>2, NoteAdded
  <2>2. ReceiptIds' = ReceiptIds
    BY <1>1, SameReceipts DEF Shapes
  <2>3. VoucherIds' = VoucherIds
    BY <1>1 DEF VoucherIds
  <2> QED BY <2>1, <2>2, <2>3 DEF MoreIds, NewIds
<1>4. UnevenCount(voucher') = UnevenCount(voucher) + 0
  <2>1. UnevenCount(voucher) \in Nat
    BY Figures
  <2> QED BY <1>1, <2>1
<1>5. -total \in Int /\ balance' = balance + -total /\ Close(2 * (-total), 2 * (-total), D2 * 0)
  <2>1. balance \in Int
    BY Figures
  <2> QED BY <1>1, <2>1 DEF Close, D2
<1> QED BY <1>1, <1>3, <1>4, <1>5, PayableMoves

\* A step that posts nothing, and changes neither what orders count for nor
\* the vouchers' amounts.
LEMMA NothingMoves ==
  ASSUME Shapes, Shapes', Agrees, journal' = journal, balance' = balance,
         \A x \in Counters : Tally(order', x) = Tally(order, x),
         NoteIds' = NoteIds, Len(voucher') = Len(voucher),
         UnevenCount(voucher') = UnevenCount(voucher)
  PROVE  Agrees'
<1>1. ReceiptIds' = ReceiptIds /\ VoucherIds' = VoucherIds
  BY SameReceipts, VoucherNumbers DEF Counters, Shapes
<1>2. Numbered' /\ (Apart' => Apart)
  <2>1. Known' = Known
    BY <1>1 DEF Known
  <2> QED BY <1>1, <2>1, NothingPosted DEF Agrees
<1>3. Tally(order', "worth") = Tally(order, "worth") /\ Tally(order', "petty") = Tally(order, "petty")
  BY DEF Counters
<1> QED BY <1>2, <1>3 DEF Agrees, Unbooked

LEMMA CancelAgrees ==
  ASSUME Shapes, Agrees, NEW i \in DOMAIN invoice, CancelInvoice(i)
  PROVE  Agrees'
<1>1. /\ Shapes' /\ UNCHANGED <<order, stock, opening, balance, journal>>
      /\ SameDocuments(invoice', invoice) /\ OnlyInline(i) /\ voucher' = Withdrawn(i)
  BY CancelStep
<1>2. Len(voucher') = Len(voucher) /\ \A v \in 1..Len(voucher) : voucher'[v].amount = voucher[v].amount
  BY <1>1, VouchersWithdrawn
<1>3. UnevenOf(voucher') = UnevenOf(voucher)
  BY <1>2 DEF UnevenOf
<1>4. UnevenCount(voucher') = UnevenCount(voucher) /\ NoteIds' = NoteIds
  BY <1>1, <1>3, SameNotes DEF UnevenCount
<1> QED BY <1>1, <1>2, <1>4, NothingMoves

LEMMA ContractAgrees ==
  ASSUME Shapes, Agrees, NEW total \in ContractTotals, ContractInvoice(total)
  PROVE  Agrees'
<1>1. /\ Shapes' /\ UNCHANGED <<order, stock, opening, voucher, balance, journal>>
      /\ \E d : Added(invoice, d, "purchase", 0)
  BY ContractStep
<1>2. PICK d : Added(invoice, d, "purchase", 0)
  BY <1>1
<1>3. NoteIds' = NoteIds
  <2>1. ~IsNote(d)
    BY <1>2 DEF Added, IsNote
  <2>2. IsDocs(invoice) /\ SameDocuments(invoice, invoice)
    BY DEF Shapes, SameDocuments, SameDocument
  <2> QED BY <1>1, <1>2, <2>1, <2>2, NoteAdded
<1> QED BY <1>1, <1>3, NothingMoves

LEMMA OrderAgrees ==
  ASSUME Shapes, Agrees, NEW o \in Orders, CreateOrder(o) \/ ApproveOrder(o) \/ WriteBack(o)
  PROVE  Agrees'
<1>1. /\ Shapes' /\ UNCHANGED <<stock, opening, invoice, voucher, balance, journal>>
      /\ \A x \in Counters : Tally(order', x) = Tally(order, x)
  BY OrderStep
<1>2. NoteIds' = NoteIds
  BY <1>1 DEF NoteIds, CreditNotes, DebitNotes
<1> QED BY <1>1, <1>2, NothingMoves

LEMMA AgreesKept == Shapes /\ Agrees /\ [Next]_vars => Agrees'
<1> SUFFICES ASSUME Shapes, Agrees, [Next]_vars PROVE Agrees'
  OBVIOUS
<1>1. CASE UNCHANGED vars
  <2>1. Shapes' /\ NoteIds' = NoteIds
    BY <1>1 DEF vars, Shapes, NoteIds, CreditNotes, DebitNotes
  <2> QED BY <1>1, <2>1, NothingMoves DEF vars
<1> QED BY <1>1, Steps, OrderAgrees, ReceiveAgrees, ContractAgrees, SettleAgrees,
           CreditNoteAgrees, DebitNoteAgrees, CancelAgrees

\* Whatever is paid, refunded, noted and cancelled, in whichever order, the
\* supplier's balance and the payables account stay together, but for half a
\* cent for each voucher whose amount is not in whole cents: proved under no
\* bound, for any amounts.
THEOREM BalanceIsPayable == Spec => []PayableAgrees
<1>1. Shapes /\ Agrees => PayableAgrees
  <2> SUFFICES ASSUME Shapes, Agrees PROVE PayableAgrees
    OBVIOUS
  <2>1. Uneven = UnevenOf(voucher)
    BY Counts DEF Uneven, UnevenOf
  <2>2. Booked("payable") = LineSum(journal, "payable")
    BY BookedIs
  <2> QED BY <2>1, <2>2 DEF Agrees, PayableAgrees, UnevenCount
<1> QED BY <1>1, ShapesInit, ShapesKept, AgreesInit, AgreesKept, PTL DEF Spec

\* Through part receipts at any price and late approval decisions, no more is
\* received than ordered, what the receipts are worth is within half a cent
\* each of the price, and the unbilled-purchases account holds it, all but
\* what was too small to post.
THEOREM AccrualOfOrders == Spec => []AccrualMatchesOrders
<1>1. Shapes /\ Agrees => AccrualMatchesOrders
  <2> SUFFICES ASSUME Shapes, Agrees PROVE AccrualMatchesOrders
    OBVIOUS
  <2>1. ASSUME NEW o \in LiveOrders
        PROVE  /\ order[o].received <= order[o].qty
               /\ Close(2 * order[o].worth * Per, 2 * order[o].received * order[o].price,
                        D2 * Per * order[o].receipts)
    BY <2>1 DEF LiveOrders, Live, Shapes, IsOrders, IsOrder
  <2>2. /\ Booked("unbilled") = LineSum(journal, "unbilled")
        /\ SumOver(LiveOrders, LAMBDA o : order[o].worth) = Tally(order, "worth")
        /\ SumOver(LiveOrders, LAMBDA o : order[o].petty) = Tally(order, "petty")
    BY BookedIs, Tallies DEF Shapes
  <2>3. Apart => 0 <= Unbooked /\ Unbooked <= D2 * Tally(order, "petty")
    BY DEF Agrees, Short
  <2> QED BY <2>1, <2>2, <2>3 DEF AccrualMatchesOrders, Unbooked
<1> QED BY <1>1, ShapesInit, ShapesKept, AgreesInit, AgreesKept, PTL DEF Spec

(***************************************************************************)
(* The goods and what they are carried at                                  *)
(***************************************************************************)
\* The goods of stock st, from opening op, when the orders are s.
Carried(st, op, s) ==
  LET was == st.inv[wh] first == op.inv[wh]
  IN /\ was.qty = first.qty + Tally(s, "received")
     /\ Policy = "per_warehouse_wac" =>
          Close(2 * (was.qty * was.avg), 2 * (first.qty * first.avg + Tally(s, "paid")),
                Tally(s, "receipts") * was.qty)
     /\ IF Layered(op)
        THEN /\ Layered(st) /\ Pieces(st) = Pieces(op) + Tally(s, "received")
             /\ Layers(st) = Layers(op) + Tally(s, "paid")
        ELSE st.layers = op.layers

Goods == Carried(stock, opening, order)

LEMMA TalliesNat ==
  ASSUME NEW s, IsOrders(s)
  PROVE  Tally(s, "receipts") \in Nat /\ Tally(s, "received") \in Nat /\ Tally(s, "paid") \in Nat
<1>1. "receipts" \in Counters /\ "received" \in Counters /\ "paid" \in Counters
  BY DEF Counters
<1> QED BY <1>1, TallyNat

LEMMA LayersNat ==
  ASSUME NEW st, IsStock(st)
  PROVE  /\ DOMAIN st.layers = 1..Len(st.layers) /\ Len(st.layers) \in Nat
         /\ \A i \in 1..Len(st.layers) : st.layers[i].left * st.layers[i].cost \in Nat
         /\ Pieces(st) \in Nat /\ Layers(st) \in Nat
<1> DEFINE ls == st.layers
           p == [i \in DOMAIN ls |-> ls[i].left]
           v == [i \in DOMAIN ls |-> ls[i].left * ls[i].cost]
<1>1. DOMAIN ls = 1..Len(ls) /\ Len(ls) \in Nat
  BY DEF IsStock, IsList
<1>2. \A i \in 1..Len(ls) : ls[i].left \in Nat /\ ls[i].cost \in Nat
  BY DEF IsStock, IsLayer
<1>3. \A i \in 1..Len(ls) : ls[i].left * ls[i].cost \in Nat
  <2> TAKE i \in 1..Len(ls)
  <2>1. PICK a \in Nat, b \in Nat : a = ls[i].left /\ b = ls[i].cost
    BY <1>2
  <2>2. a * b \in Nat
    BY <2>1
  <2> QED BY <2>1, <2>2
<1>4. IsFiniteSet(DOMAIN ls) /\ \A i \in DOMAIN ls : p[i] \in Nat /\ v[i] \in Nat
  <2>1. IsFiniteSet(DOMAIN ls)
    BY <1>1, FS_Interval
  <2>2. \A i \in DOMAIN ls : p[i] = ls[i].left /\ v[i] = ls[i].left * ls[i].cost
    OBVIOUS
  <2> HIDE DEF p, v, ls
  <2> QED BY <1>1, <1>2, <1>3, <2>1, <2>2
<1>5. Pieces(st) = SumFunctionOnSet(p, DOMAIN ls) /\ Layers(st) = SumFunctionOnSet(v, DOMAIN ls)
  BY DEF Pieces, Layers, SumOver
<1>6. SumFunctionOnSet(p, DOMAIN ls) \in Nat /\ SumFunctionOnSet(v, DOMAIN ls) \in Nat
  <2> HIDE DEF p, v
  <2> QED BY <1>4, SumNat
<1> QED BY <1>1, <1>3, <1>5, <1>6

\* One more layer.
LEMMA LayersGrow ==
  ASSUME NEW st, IsStock(st), NEW new, IsStock(new), NEW q \in Nat, NEW price \in Nat,
         LayersAfter(st.layers, TRUE, q, price, new.layers)
  PROVE  Pieces(new) = Pieces(st) + q /\ Layers(new) = Layers(st) + q * price
<1> DEFINE ls == st.layers
           ms == new.layers
           n  == Len(ls)
           p(s) == [i \in DOMAIN s |-> s[i].left]
           v(s) == [i \in DOMAIN s |-> s[i].left * s[i].cost]
           r == p(ls)
           t == p(ms)
           x == v(ls)
           y == v(ms)
           k == q * price
<1>1. /\ DOMAIN ls = 1..n /\ n \in Nat /\ DOMAIN ms = 1..(n + 1)
      /\ \A i \in 1..n : ms[i] = ls[i]
      /\ ms[n + 1].left = q /\ ms[n + 1].cost = price
  BY LayersNat DEF LayersAfter
<1>2. \A i \in 1..n : ls[i].left \in Nat /\ ls[i].left * ls[i].cost \in Nat
  BY LayersNat DEF IsStock, IsLayer
<1>3. \A j \in 1..n : r[j] \in Int /\ t[j] = r[j]
  BY <1>1, <1>2
<1>4. \A j \in 1..n : x[j] \in Int /\ y[j] = x[j]
  BY <1>1, <1>2
<1>5. t[n + 1] = q /\ y[n + 1] = k
  <2>1. n + 1 \in 1..(n + 1)
    BY <1>1
  <2> QED BY <1>1, <2>1
<1>6. k \in Int /\ q \in Int
  OBVIOUS
<1>7. /\ Pieces(st) = SumFunctionOnSet(r, 1..n) /\ Pieces(new) = SumFunctionOnSet(t, 1..(n + 1))
      /\ Layers(st) = SumFunctionOnSet(x, 1..n) /\ Layers(new) = SumFunctionOnSet(y, 1..(n + 1))
  BY <1>1 DEF Pieces, Layers, SumOver
<1> HIDE DEF r, t, x, y, k, n
<1>8. SumFunctionOnSet(t, 1..(n + 1)) = SumFunctionOnSet(r, 1..n) + q
  BY <1>1, <1>3, <1>5, <1>6, SumAppended
<1>9. SumFunctionOnSet(y, 1..(n + 1)) = SumFunctionOnSet(x, 1..n) + k
  BY <1>1, <1>4, <1>5, <1>6, SumAppended
<1> QED BY <1>7, <1>8, <1>9 DEF k

\* The average after one more receipt: its rounding is one more half unit a
\* piece.
LEMMA AverageGrows ==
  ASSUME NEW Q \in Nat, NEW A \in Nat, NEW T \in Nat, NEW n \in Nat, NEW q \in Nat \ {0},
         NEW price \in Nat, Close(2 * (Q * A), 2 * T, n * Q)
  PROVE  Close(2 * ((Q + q) * HalfUp(Q * A + q * price, Q + q)), 2 * (T + q * price),
               (n + 1) * (Q + q))
<1>1. Q * A \in Nat /\ q * price \in Nat /\ n * Q \in Nat /\ n * q \in Nat /\ Q + q \in Nat \ {0}
  OBVIOUS
<1>2. PICK x \in Nat, y \in Nat, d \in Nat \ {0}, e \in Nat, f \in Nat :
        x = Q * A /\ y = q * price /\ d = Q + q /\ e = n * Q /\ f = n * q
  BY <1>1
<1>3. PICK k \in Nat : k = HalfUp(x + y, d) /\ Close(2 * (k * d), 2 * (x + y), d)
  <2>1. x + y \in Nat
    OBVIOUS
  <2> QED BY <2>1, HalfUpClose
<1>4. PICK z \in Nat : z = k * d /\ z = d * k
  <2>1. k * d \in Nat /\ k * d = d * k
    OBVIOUS
  <2> QED BY <2>1
<1>5. (n + 1) * (Q + q) = e + f + d
  <2>1. (n + 1) * (Q + q) = n * Q + n * q + (Q + q)
    OBVIOUS
  <2> QED BY <1>2, <2>1
<1>6. Close(2 * x, 2 * T, e) /\ Close(2 * z, 2 * (x + y), d)
  BY <1>2, <1>3, <1>4
<1>7. Close(2 * z, 2 * (T + y), e + f + d)
  BY <1>6 DEF Close
<1>8. (Q + q) * HalfUp(Q * A + q * price, Q + q) = z
  BY <1>2, <1>3, <1>4
<1> QED BY <1>2, <1>5, <1>7, <1>8

\* A receipt keeps the goods at what was paid for them.
LEMMA CarriedMore ==
  ASSUME NEW st, IsStock(st), NEW new, IsStock(new), NEW op, IsStock(op),
         NEW s, IsOrders(s), NEW t, NEW q \in Nat \ {0}, NEW price \in Nat, NEW worth,
         Carried(st, op, s), Adds(s, t, q, price, worth), TakenIn(st, q, price, new)
  PROVE  Carried(new, op, t)
<1> DEFINE was   == st.inv[wh]
           first == op.inv[wh]
           rec   == Tally(s, "received")
           paid  == Tally(s, "paid")
           n     == Tally(s, "receipts")
<1>1. /\ rec \in Nat /\ paid \in Nat /\ n \in Nat /\ q * price \in Nat
      /\ Tally(t, "received") = rec + q /\ Tally(t, "receipts") = n + 1
      /\ Tally(t, "paid") = paid + q * price
  <2>1. q * price \in Nat
    OBVIOUS
  <2> QED BY <2>1, TalliesNat DEF Adds
<1>2. /\ was.qty \in Nat /\ first.qty \in Nat
      /\ Policy = "per_warehouse_wac" => was.avg \in Nat /\ first.avg \in Nat
  BY DEF IsStock, IsRow
<1>3. was.qty = first.qty + rec /\ new.inv[wh].qty = was.qty + q
  BY DEF Carried, TakenIn
<1>4. new.inv[wh].qty = first.qty + Tally(t, "received")
  BY <1>1, <1>2, <1>3
<1>5. ASSUME Policy = "per_warehouse_wac"
      PROVE  Close(2 * (new.inv[wh].qty * new.inv[wh].avg),
                   2 * (first.qty * first.avg + Tally(t, "paid")),
                   Tally(t, "receipts") * new.inv[wh].qty)
  <2>1. PICK Q \in Nat, A \in Nat, B \in Nat : Q = was.qty /\ A = was.avg
                                               /\ B = first.qty * first.avg
    <3>1. first.qty * first.avg \in Nat
      BY <1>2, <1>5
    <3> QED BY <1>2, <1>5, <3>1
  <2>2. PICK T \in Nat : T = B + paid
    BY <1>1, <2>1
  <2>3. Close(2 * (Q * A), 2 * T, n * Q)
    BY <1>5, <2>1, <2>2 DEF Carried
  <2>4. Close(2 * ((Q + q) * HalfUp(Q * A + q * price, Q + q)), 2 * (T + q * price),
              (n + 1) * (Q + q))
    BY <1>1, <2>3, AverageGrows
  <2>5. new.inv[wh].qty = Q + q /\ new.inv[wh].avg = HalfUp(Q * A + q * price, Q + q)
    BY <1>5, <2>1 DEF TakenIn
  <2>6. T + q * price = first.qty * first.avg + Tally(t, "paid")
    BY <1>1, <2>1, <2>2
  <2> HIDE DEF was, first, rec, paid, n
  <2> QED BY <1>1, <2>4, <2>5, <2>6
<1>6. ASSUME Layered(op)
      PROVE  /\ Layered(new) /\ Pieces(new) = Pieces(op) + Tally(t, "received")
             /\ Layers(new) = Layers(op) + Tally(t, "paid")
  <2>1. Layered(st) /\ Pieces(st) = Pieces(op) + rec /\ Layers(st) = Layers(op) + paid
    BY <1>6 DEF Carried
  <2>2. LayersAfter(st.layers, TRUE, q, price, new.layers)
    BY <2>1 DEF TakenIn, LayersAfter
  <2>3. Pieces(new) = Pieces(st) + q /\ Layers(new) = Layers(st) + q * price
    BY <2>2, LayersGrow
  <2>4. Layered(new)
    <3>1. Len(new.layers) = Len(st.layers) + 1 /\ new.layers[Len(st.layers) + 1].left = q
      BY <2>2 DEF LayersAfter
    <3>2. Len(st.layers) \in Nat /\ DOMAIN new.layers = 1..Len(new.layers)
      BY LayersNat
    <3>3. Len(st.layers) + 1 \in DOMAIN new.layers /\ q > 0
      BY <3>1, <3>2
    <3> QED BY <3>1, <3>3 DEF Layered
  <2>5. Pieces(op) \in Nat /\ Layers(op) \in Nat
    BY LayersNat
  <2> HIDE DEF rec, paid
  <2> QED BY <1>1, <2>1, <2>3, <2>4, <2>5
<1>7. ASSUME ~Layered(op) PROVE new.layers = op.layers
  <2>1. st.layers = op.layers
    BY <1>7 DEF Carried
  <2>2. ~Layered(st)
    BY <1>7, <2>1 DEF Layered
  <2> QED BY <2>1, <2>2 DEF TakenIn, LayersAfter
<1> QED BY <1>4, <1>5, <1>6, <1>7 DEF Carried

LEMMA GoodsInit == Init => Goods
<1> SUFFICES ASSUME Init PROVE Goods
  OBVIOUS
<1>1. stock \in Openings /\ opening = stock /\ IsStock(stock) /\ IsOrders(order)
  BY ShapesInit DEF Init, Shapes
<1>2. Tally(order, "received") = 0 /\ Tally(order, "paid") = 0 /\ Tally(order, "receipts") = 0
  <2> DEFINE w(x) == [o \in Orders |-> Counted(order[o])[x]]
  <2>1. ASSUME NEW x \in Counters PROVE Tally(order, x) = 0
    <3> DEFINE u == w(x)
    <3>1. \A o \in Orders : u[o] = 0
      BY DEF Init, Counted
    <3>2. IsFiniteSet(Orders) /\ {} \in SUBSET Orders
      BY PurchasingAssumption
    <3>3. Tally(order, x) = SumFunctionOnSet(u, Orders)
      BY DEF Tally
    <3> HIDE DEF u
    <3>4. SumFunctionOnSet(u, Orders) = SumFunctionOnSet(u, {})
      BY <3>1, <3>2, SumSupport
    <3> QED BY <3>3, <3>4, SumNone
  <2> QED BY <2>1 DEF Counters
<1> DEFINE was == stock.inv[wh]
<1>3. was.qty \in Nat /\ (Policy = "per_warehouse_wac" => was.avg \in Nat)
  BY <1>1 DEF IsStock, IsRow
<1>4. Pieces(stock) \in Nat /\ Layers(stock) \in Nat
  BY <1>1, LayersNat
<1>5. was.qty = was.qty + 0
      /\ (Policy = "per_warehouse_wac" =>
            Close(2 * (was.qty * was.avg), 2 * (was.qty * was.avg + 0), 0 * was.qty))
  <2>1. ASSUME Policy = "per_warehouse_wac"
        PROVE  Close(2 * (was.qty * was.avg), 2 * (was.qty * was.avg + 0), 0 * was.qty)
    <3>1. PICK a \in Nat : a = was.qty * was.avg
      <4>1. was.qty * was.avg \in Nat
        BY <1>3, <2>1
      <4> QED BY <4>1
    <3>2. 0 * was.qty = 0
      BY <1>3
    <3>3. Close(2 * a, 2 * (a + 0), 0)
      BY DEF Close
    <3> QED BY <3>1, <3>2, <3>3
  <2> QED BY <1>3, <2>1
<1> HIDE DEF was
<1>6. Layered(opening) = Layered(stock) /\ Pieces(opening) = Pieces(stock) + 0
      /\ Layers(opening) = Layers(stock) + 0
  BY <1>1, <1>4
<1> QED BY <1>1, <1>2, <1>4, <1>5, <1>6 DEF Goods, Carried, was

\* Steps other than receipts.
LEMMA GoodsStay ==
  ASSUME Goods, UNCHANGED <<stock, opening>>, \A x \in Counters : Tally(order', x) = Tally(order, x)
  PROVE  Goods'
<1>1. /\ Tally(order', "received") = Tally(order, "received")
      /\ Tally(order', "paid") = Tally(order, "paid")
      /\ Tally(order', "receipts") = Tally(order, "receipts")
  BY DEF Counters
<1>2. Carried(stock, opening, order')
  BY <1>1 DEF Goods, Carried
<1> QED BY <1>2 DEF Goods

LEMMA GoodsKept == Shapes /\ Goods /\ [Next]_vars => Goods'
<1> SUFFICES ASSUME Shapes, Goods, [Next]_vars PROVE Goods'
  OBVIOUS
<1>1. ASSUME NEW o \in Orders, CreateOrder(o) \/ ApproveOrder(o) \/ WriteBack(o) PROVE Goods'
  BY <1>1, OrderStep, GoodsStay
<1>2. ASSUME NEW o \in Orders, NEW day \in Days, Live(o), NEW q \in 1..order[o].qty,
             Receive(o, q, day)
      PROVE  Goods'
  <2>1. /\ Shapes' /\ opening' = opening
        /\ \E price \in Nat, worth \in Nat :
             /\ q \in Nat \ {0} /\ Adds(order, order', q, price, worth)
             /\ TakenIn(stock, q, price, stock')
    BY <1>2, ReceiveStep
  <2>2. IsStock(stock) /\ IsStock(stock') /\ IsStock(opening) /\ IsOrders(order)
    BY <2>1, OpeningIs DEF Shapes
  <2>3. Carried(stock', opening, order')
    BY <2>1, <2>2, CarriedMore DEF Goods
  <2> QED BY <2>1, <2>3 DEF Goods
<1>3. ASSUME UNCHANGED <<order, stock, opening>> PROVE Goods'
  BY <1>3, GoodsStay
<1>4. CASE UNCHANGED vars
  BY <1>3, <1>4 DEF vars
<1>5. ASSUME NEW total \in ContractTotals, ContractInvoice(total) PROVE Goods'
  BY <1>3, <1>5, ContractStep
<1>6. ASSUME NEW amount \in Amounts, NEW day \in Days, NEW sign \in {1, -1}, NEW to, NEW type,
             DOMAIN to \subseteq 1..Len(invoice), \A i \in DOMAIN to : to[i] \in Nat,
             Settle(amount, to, day, type, sign)
      PROVE  Goods'
  BY <1>3, <1>6, SettleStep
<1>7. ASSUME NEW i \in 0..Len(invoice), NEW total \in NoteTotals, NEW day \in Days,
             CreditNote(i, total, day)
      PROVE  Goods'
  BY <1>3, <1>7, CreditNoteStep
<1>8. ASSUME NEW i \in 0..Len(invoice), NEW total \in NoteTotals, NEW day \in Days,
             DebitNote(i, total, day)
      PROVE  Goods'
  BY <1>3, <1>8, DebitNoteStep
<1>9. ASSUME NEW i \in DOMAIN invoice, CancelInvoice(i) PROVE Goods'
  BY <1>3, <1>9, CancelStep
<1> QED BY <1>1, <1>2, <1>4, <1>5, <1>6, <1>7, <1>8, <1>9, Steps

\* Goods on hand are the opening ones and those received, and whatever the
\* prices and quantities of the receipts and their order, rounding keeps the
\* average within half a unit per piece and receipt of what was paid, and the
\* layers exactly at it.
THEOREM GoodsCarriedAtCost == Spec => []GoodsAtCost
<1>1. Shapes /\ Goods => GoodsAtCost
  <2> SUFFICES ASSUME Shapes, Goods PROVE GoodsAtCost
    OBVIOUS
  <2>1. /\ ReceiptsMade = Tally(order, "receipts")
        /\ SumOver(LiveOrders, LAMBDA o : order[o].received) = Tally(order, "received")
        /\ SumOver(LiveOrders, LAMBDA o : order[o].received * order[o].price)
             = Tally(order, "paid")
    BY Tallies DEF Shapes
  <2>2. ASSUME Policy = "per_warehouse_wac"
        PROVE  2 * (stock.inv[wh].qty * stock.inv[wh].avg)
                 = 2 * stock.inv[wh].qty * stock.inv[wh].avg
    <3>1. stock.inv[wh].qty \in Nat /\ stock.inv[wh].avg \in Nat
      BY <2>2 DEF Shapes, IsStock, IsRow
    <3> QED BY <3>1
  <2> QED BY <2>1, <2>2 DEF Goods, Carried, GoodsAtCost
<1> QED BY <1>1, ShapesInit, ShapesKept, GoodsInit, GoodsKept, PTL DEF Spec

(***************************************************************************)
(* What documents are paid                                                 *)
(***************************************************************************)
\* What vouchers s allocate to document i, and what credit notes among s give it.
Allots(s, i) == [v \in 1..Len(s) |-> IF i \in DOMAIN s[v].to THEN s[v].to[i] ELSE 0]
Allotted(s, i) == SumFunctionOnSet(Allots(s, i), 1..Len(s))
Credits(s, i) ==
  [n \in 1..Len(s) |-> IF s[n].type = "purchase_credit_note" /\ s[n].of = i THEN s[n].total ELSE 0]
CreditedTo(s, i) == SumFunctionOnSet(Credits(s, i), 1..Len(s))

LEMMA AllotsNat ==
  ASSUME NEW n, NEW s, IsVouchers(s, n), NEW i
  PROVE  /\ IsFiniteSet(1..Len(s)) /\ Len(s) \in Nat
         /\ \A v \in 1..Len(s) :
              /\ Allots(s, i)[v] \in Nat
              /\ Allots(s, i)[v] = IF i \in DOMAIN s[v].to THEN s[v].to[i] ELSE 0
         /\ Allotted(s, i) \in Nat
<1>1. IsFiniteSet(1..Len(s)) /\ Len(s) \in Nat
  BY FS_Interval DEF IsVouchers, IsList
<1>2. \A v \in 1..Len(s) :
        /\ Allots(s, i)[v] \in Nat
        /\ Allots(s, i)[v] = IF i \in DOMAIN s[v].to THEN s[v].to[i] ELSE 0
  BY DEF IsVouchers, IsVoucher, Allots
<1> QED BY <1>1, <1>2, SumNat DEF Allotted

LEMMA CreditsNat ==
  ASSUME NEW s, IsDocs(s), NEW i
  PROVE  /\ IsFiniteSet(1..Len(s)) /\ Len(s) \in Nat
         /\ \A n \in 1..Len(s) :
              /\ Credits(s, i)[n] \in Nat
              /\ Credits(s, i)[n] = IF s[n].type = "purchase_credit_note" /\ s[n].of = i
                                    THEN s[n].total ELSE 0
         /\ CreditedTo(s, i) \in Nat
<1>1. IsFiniteSet(1..Len(s)) /\ Len(s) \in Nat
  BY FS_Interval DEF IsDocs, IsList
<1>2. \A n \in 1..Len(s) :
        /\ Credits(s, i)[n] \in Nat
        /\ Credits(s, i)[n] = IF s[n].type = "purchase_credit_note" /\ s[n].of = i
                              THEN s[n].total ELSE 0
  BY DEF IsDocs, IsDoc, Credits
<1> QED BY <1>1, <1>2, SumNat DEF CreditedTo

\* A voucher added.
LEMMA AllottedMore ==
  ASSUME NEW n, NEW s, IsVouchers(s, n), NEW v, IsVoucher(v), NEW i
  PROVE  /\ Share(v.to, i) \in Nat
         /\ Allotted(Append(s, v), i) = Allotted(s, i) + Share(v.to, i)
<1> DEFINE t == Append(s, v)
           u == Allots(s, i)
           w == Allots(t, i)
           x == Share(v.to, i)
           m == Len(s)
<1>1. /\ Len(t) = m + 1 /\ \A j \in 1..m : t[j] = s[j]
      /\ t[m + 1] = v
  BY AppendList DEF IsVouchers
<1>2. m \in Nat /\ \A j \in 1..m : u[j] \in Int
  BY AllotsNat
<1>3. x \in Nat
  BY DEF IsVoucher, Share
<1> HIDE DEF t
<1>4. \A j \in 1..m : w[j] = u[j]
  BY <1>1, <1>2 DEF Allots
<1>5. w[m + 1] = x
  BY <1>1, <1>2 DEF Allots, Share
<1>6. Allotted(s, i) = SumFunctionOnSet(u, 1..m) /\ Allotted(t, i) = SumFunctionOnSet(w, 1..(m + 1))
  BY <1>1 DEF Allotted
<1> HIDE DEF u, w, x, m
<1>7. SumFunctionOnSet(w, 1..(m + 1)) = SumFunctionOnSet(u, 1..m) + x
  BY <1>2, <1>3, <1>4, <1>5, SumAppended
<1> QED BY <1>3, <1>6, <1>7 DEF x, t

\* Nothing is allocated to a document that is not there.
LEMMA NothingAllotted ==
  ASSUME NEW n \in Nat, NEW s, IsVouchers(s, n)
  PROVE  Allotted(s, n + 1) = 0
<1> DEFINE u == Allots(s, n + 1)
<1>1. IsFiniteSet(1..Len(s)) /\ {} \in SUBSET (1..Len(s))
  BY AllotsNat
<1>2. \A v \in 1..Len(s) : u[v] \in Int /\ u[v] = 0
  <2> TAKE v \in 1..Len(s)
  <2>1. n + 1 \notin DOMAIN s[v].to
    BY DEF IsVouchers
  <2> QED BY <2>1, AllotsNat
<1> HIDE DEF u
<1>3. SumFunctionOnSet(u, 1..Len(s)) = SumFunctionOnSet(u, {})
  BY <1>1, <1>2, SumSupport
<1> QED BY <1>3, SumNone DEF Allotted, u

\* Withdrawing one document leaves what the others got.
LEMMA WithdrawnAllots ==
  ASSUME Shapes, NEW k, OnlyInline(k), NEW i, i # k
  PROVE  Allotted(Withdrawn(k), i) = Allotted(voucher, i)
<1> DEFINE t == Withdrawn(k)
           u == Allots(voucher, i)
           w == Allots(t, i)
<1>1. /\ Len(t) = Len(voucher)
      /\ \A v \in 1..Len(voucher) :
           /\ DOMAIN t[v].to = DOMAIN voucher[v].to \ {k}
           /\ \A j \in DOMAIN voucher[v].to \ {k} : t[v].to[j] = voucher[v].to[j]
  BY VouchersWithdrawn
<1>2. IsFiniteSet(1..Len(voucher))
  BY AllotsNat DEF Shapes
<1> HIDE DEF t
<1>3. \A v \in 1..Len(voucher) : w[v] = u[v]
  BY <1>1 DEF Allots
<1> HIDE DEF u, w
<1>4. SumFunctionOnSet(w, 1..Len(voucher)) = SumFunctionOnSet(u, 1..Len(voucher))
  BY <1>2, <1>3, SumSame
<1> QED BY <1>1, <1>4 DEF Allotted, t, u, w

\* A document added.
LEMMA CreditedMore ==
  ASSUME NEW s, IsDocs(s), NEW d, IsDoc(d), NEW i
  PROVE  CreditedTo(Append(s, d), i)
           = CreditedTo(s, i)
             + (IF d.type = "purchase_credit_note" /\ d.of = i THEN d.total ELSE 0)
<1> DEFINE t == Append(s, d)
           u == Credits(s, i)
           w == Credits(t, i)
           x == IF d.type = "purchase_credit_note" /\ d.of = i THEN d.total ELSE 0
           m == Len(s)
<1>1. /\ Len(t) = m + 1 /\ \A j \in 1..m : t[j] = s[j]
      /\ t[m + 1] = d
  BY AppendList DEF IsDocs
<1>2. m \in Nat /\ \A j \in 1..m : u[j] \in Int
  BY CreditsNat
<1>3. x \in Int
  BY DEF IsDoc
<1> HIDE DEF t
<1>4. \A j \in 1..m : w[j] = u[j]
  BY <1>1, <1>2 DEF Credits
<1>5. w[m + 1] = x
  BY <1>1, <1>2 DEF Credits
<1>6. /\ CreditedTo(s, i) = SumFunctionOnSet(u, 1..m)
      /\ CreditedTo(t, i) = SumFunctionOnSet(w, 1..(m + 1))
  BY <1>1 DEF CreditedTo
<1> HIDE DEF u, w, x, m
<1>7. SumFunctionOnSet(w, 1..(m + 1)) = SumFunctionOnSet(u, 1..m) + x
  BY <1>2, <1>3, <1>4, <1>5, SumAppended
<1> QED BY <1>6, <1>7 DEF x, t

LEMMA NothingCredited ==
  ASSUME NEW s, IsDocs(s)
  PROVE  CreditedTo(s, Len(s) + 1) = 0
<1> DEFINE u == Credits(s, Len(s) + 1)
<1>1. IsFiniteSet(1..Len(s)) /\ {} \in SUBSET (1..Len(s)) /\ Len(s) \in Nat
  BY CreditsNat
<1>2. \A n \in 1..Len(s) : u[n] \in Int /\ u[n] = 0
  <2> TAKE n \in 1..Len(s)
  <2>1. s[n].of # Len(s) + 1
    BY <1>1 DEF IsDocs
  <2> QED BY <2>1, CreditsNat
<1> HIDE DEF u
<1>3. SumFunctionOnSet(u, 1..Len(s)) = SumFunctionOnSet(u, {})
  BY <1>1, <1>2, SumSupport
<1> QED BY <1>3, SumNone DEF CreditedTo, u

\* A document rewritten.
LEMMA CreditedSame ==
  ASSUME NEW s, IsDocs(s), NEW t, SameDocuments(t, s), NEW i
  PROVE  CreditedTo(t, i) = CreditedTo(s, i)
<1> DEFINE u == Credits(s, i)
           w == Credits(t, i)
<1>1. \A n \in 1..Len(s) : w[n] = u[n]
  BY DEF Credits, SameDocuments, SameDocument
<1>2. IsFiniteSet(1..Len(s))
  BY CreditsNat
<1> HIDE DEF u, w
<1>3. SumFunctionOnSet(w, 1..Len(s)) = SumFunctionOnSet(u, 1..Len(s))
  BY <1>1, <1>2, SumSame
<1> QED BY <1>3 DEF CreditedTo, SameDocuments, u, w

\* A document in force is paid what it was given, up to its total.
PaidAs(d, given) == d.status # "cancelled" /\ ~d.revived => d.paid = AtMost(d.total, given)
GivenTo(s, vs, i) == Allotted(vs, i) + CreditedTo(s, i)
AllPaid(s, vs) == \A i \in 1..Len(s) : PaidAs(s[i], GivenTo(s, vs, i))

LEMMA GivenNat ==
  ASSUME Shapes, NEW i
  PROVE  /\ Allotted(voucher, i) \in Nat /\ CreditedTo(invoice, i) \in Nat
         /\ GivenTo(invoice, voucher, i) \in Nat
<1>1. IsVouchers(voucher, Len(invoice)) /\ IsDocs(invoice)
  BY DEF Shapes
<1>2. Allotted(voucher, i) \in Nat /\ CreditedTo(invoice, i) \in Nat
  BY <1>1, AllotsNat, CreditsNat
<1> QED BY <1>2 DEF GivenTo

LEMMA NewGetsNothing ==
  ASSUME Shapes
  PROVE  Allotted(voucher, Len(invoice) + 1) = 0 /\ CreditedTo(invoice, Len(invoice) + 1) = 0
<1>1. IsVouchers(voucher, Len(invoice)) /\ IsDocs(invoice) /\ Len(invoice) \in Nat
  BY Counts DEF Shapes
<1> QED BY <1>1, NothingAllotted, NothingCredited

\* Capping what is paid at each payment caps the whole.
LEMMA CappedTwice ==
  \A t, g, a \in Nat : AtMost(t, AtMost(t, g) + a) = AtMost(t, g + a)
  BY DEF AtMost

\* More is given to a document.
LEMMA PaidGiven ==
  ASSUME NEW d, IsDoc(d), NEW a \in Nat, NEW e, PaidMore(d, a, e), NEW g \in Nat, PaidAs(d, g)
  PROVE  PaidAs(e, g + a)
<1> SUFFICES ASSUME e.status # "cancelled", ~e.revived PROVE e.paid = AtMost(e.total, g + a)
  BY DEF PaidAs
<1>1. /\ e.total = d.total /\ e.paid = AtMost(d.total, d.paid + a)
      /\ ~d.revived /\ d.status # "cancelled" /\ e.total \in Nat
  BY DEF PaidMore, SameDocument, IsDoc
<1>2. d.paid = AtMost(d.total, g)
  BY <1>1 DEF PaidAs
<1>3. AtMost(e.total, AtMost(e.total, g) + a) = AtMost(e.total, g + a)
  BY <1>1, CappedTwice
<1> QED BY <1>1, <1>2, <1>3

\* The documents after each was given its part a of something more, by a
\* voucher or a note.
LEMMA AllGiven ==
  ASSUME Shapes, AllPaid(invoice, voucher), NEW s, NEW a,
         \A i \in 1..Len(invoice) : a[i] \in Nat /\ PaidMore(invoice[i], a[i], s[i]),
         NEW g, \A i \in 1..Len(invoice) : g[i] = GivenTo(invoice, voucher, i) + a[i]
  PROVE  \A i \in 1..Len(invoice) : PaidAs(s[i], g[i])
<1> SUFFICES ASSUME NEW i \in 1..Len(invoice) PROVE PaidAs(s[i], g[i])
  OBVIOUS
<1>1. IsDoc(invoice[i]) /\ PaidAs(invoice[i], GivenTo(invoice, voucher, i))
  BY DEF Shapes, IsDocs, AllPaid
<1>2. GivenTo(invoice, voucher, i) \in Nat
  BY GivenNat
<1>3. PaidAs(s[i], GivenTo(invoice, voucher, i) + a[i])
  BY <1>1, <1>2, PaidGiven
<1> QED BY <1>3

\* A document added that nothing is paid on, whichever it is credited to.
LEMMA AddedPaid ==
  ASSUME Shapes, AllPaid(invoice, voucher), NEW documents, NEW d, NEW type, NEW i \in 0..Len(invoice),
         NEW total \in Nat, CreditedOn(i, total, documents), Added(documents, d, type, i),
         (IF type = "purchase_credit_note" THEN d.total ELSE 0) = total
  PROVE  AllPaid(invoice', voucher)
<1> DEFINE n == Len(invoice)
           a == [j \in 1..n |-> IF j = i THEN total ELSE 0]
           g == [j \in 1..n |-> GivenTo(invoice', voucher, j)]
<1>1. /\ n \in Nat /\ Len(documents) = n /\ IsDocs(documents) /\ IsDoc(d)
      /\ invoice' = Append(documents, d)
  BY Counts DEF CreditedOn, SameDocuments, Added
<1>2. /\ Len(invoice') = n + 1 /\ \A j \in 1..n : invoice'[j] = documents[j]
      /\ invoice'[n + 1] = d
  BY <1>1, AppendList DEF IsDocs
<1>3. ASSUME NEW j
      PROVE  GivenTo(invoice', voucher, j)
               = GivenTo(invoice, voucher, j) + (IF j = i THEN total ELSE 0)
  <2>1. CreditedTo(documents, j) = CreditedTo(invoice, j)
    BY CreditedSame DEF Shapes, CreditedOn
  <2>2. CreditedTo(invoice', j)
          = CreditedTo(documents, j)
            + (IF d.type = "purchase_credit_note" /\ d.of = j THEN d.total ELSE 0)
    BY <1>1, CreditedMore
  <2>3. CreditedTo(invoice', j) = CreditedTo(invoice, j) + (IF j = i THEN total ELSE 0)
    <3>1. CASE type = "purchase_credit_note"
      BY <2>1, <2>2, <3>1 DEF Added
    <3>2. CASE type # "purchase_credit_note"
      <4>1. total = 0 /\ CreditedTo(invoice, j) \in Nat
        BY <3>2, GivenNat
      <4> QED BY <2>1, <2>2, <3>2, <4>1 DEF Added
    <3> QED BY <3>1, <3>2
  <2> QED BY <2>3, GivenNat DEF GivenTo
<1>4. \A j \in 1..n : a[j] \in Nat /\ PaidMore(invoice[j], a[j], documents[j])
  BY DEF CreditedOn
<1>5. \A j \in 1..n : g[j] = GivenTo(invoice, voucher, j) + a[j]
  BY <1>3
<1> HIDE DEF a
<1>6. \A j \in 1..n : PaidAs(documents[j], g[j])
  <2> HIDE DEF g
  <2> QED BY <1>4, <1>5, AllGiven
<1>7. PaidAs(d, GivenTo(invoice', voucher, n + 1))
  <2>1. n + 1 # i
    BY <1>1
  <2>2. GivenTo(invoice', voucher, n + 1) = 0
    BY <1>3, <2>1, NewGetsNothing DEF GivenTo
  <2>3. d.paid = 0 /\ d.paid = AtMost(d.total, 0)
    BY DEF Added, IsDoc, AtMost
  <2> QED BY <2>2, <2>3 DEF PaidAs
<1> SUFFICES ASSUME NEW j \in 1..(n + 1) PROVE PaidAs(invoice'[j], GivenTo(invoice', voucher, j))
  BY <1>2 DEF AllPaid
<1>8. CASE j = n + 1
  BY <1>2, <1>7, <1>8
<1>9. CASE j # n + 1
  <2>1. j \in 1..n
    BY <1>1, <1>9
  <2> QED BY <1>2, <1>6, <2>1
<1> QED BY <1>8, <1>9

\* Nothing is credited.
LEMMA UncreditedIs ==
  ASSUME Shapes
  PROVE  CreditedOn(0, 0, invoice)
  BY CreditedIs

LEMMA SettlePaid ==
  ASSUME Shapes, AllPaid(invoice, voucher), NEW amount \in Amounts, NEW to,
         DOMAIN to \subseteq 1..Len(invoice), \A i \in DOMAIN to : to[i] \in Nat,
         NEW day \in Days, NEW type, NEW sign \in {1, -1}, Settle(amount, to, day, type, sign)
  PROVE  AllPaid(invoice', voucher')
<1> DEFINE n == Len(invoice)
           a == [i \in 1..n |-> Share(to, i)]
           g == [i \in 1..n |-> GivenTo(invoice', voucher', i)]
<1>1. /\ SameDocuments(invoice', invoice)
      /\ \A i \in 1..n : PaidMore(invoice[i], Share(to, i), invoice'[i])
      /\ \E v : voucher' = Append(voucher, v) /\ IsVoucher(v) /\ v.to = to
  BY SettleStep
<1>2. PICK v : voucher' = Append(voucher, v) /\ IsVoucher(v) /\ v.to = to
  BY <1>1
<1>3. ASSUME NEW i
      PROVE  Share(to, i) \in Nat
             /\ GivenTo(invoice', voucher', i) = GivenTo(invoice, voucher, i) + Share(to, i)
  <2>1. IsVouchers(voucher, n) /\ IsDocs(invoice)
    BY DEF Shapes
  <2>2. Share(to, i) \in Nat /\ Allotted(voucher', i) = Allotted(voucher, i) + Share(to, i)
    BY <1>2, <2>1, AllottedMore
  <2>3. CreditedTo(invoice', i) = CreditedTo(invoice, i)
    BY <1>1, <2>1, CreditedSame
  <2> QED BY <2>2, <2>3, GivenNat DEF GivenTo
<1>4. \A i \in 1..n : a[i] \in Nat /\ PaidMore(invoice[i], a[i], invoice'[i])
  BY <1>1, <1>3
<1>5. \A i \in 1..n : g[i] = GivenTo(invoice, voucher, i) + a[i]
  BY <1>3
<1> HIDE DEF a
<1>6. \A i \in 1..n : PaidAs(invoice'[i], g[i])
  <2> HIDE DEF g
  <2> QED BY <1>4, <1>5, AllGiven
<1> QED BY <1>1, <1>6 DEF AllPaid, SameDocuments

\* A document cancelled is out of force; the others keep what they were given.
LEMMA CancelPaid ==
  ASSUME Shapes, AllPaid(invoice, voucher), NEW i \in DOMAIN invoice, CancelInvoice(i)
  PROVE  AllPaid(invoice', voucher')
<1>1. /\ SameDocuments(invoice', invoice) /\ invoice'[i].status = "cancelled"
      /\ \A j \in 1..Len(invoice) \ {i} : invoice'[j] = invoice[j]
      /\ OnlyInline(i) /\ voucher' = Withdrawn(i)
  BY CancelStep
<1> SUFFICES ASSUME NEW j \in 1..Len(invoice)
             PROVE  PaidAs(invoice'[j], GivenTo(invoice', voucher', j))
  BY <1>1 DEF AllPaid, SameDocuments
<1>2. CASE j = i
  BY <1>1, <1>2 DEF PaidAs
<1>3. CASE j # i
  <2>1. Allotted(voucher', j) = Allotted(voucher, j)
    BY <1>1, <1>3, WithdrawnAllots
  <2>2. CreditedTo(invoice', j) = CreditedTo(invoice, j)
    BY <1>1, CreditedSame DEF Shapes
  <2>3. GivenTo(invoice', voucher', j) = GivenTo(invoice, voucher, j) /\ invoice'[j] = invoice[j]
    BY <1>1, <1>3, <2>1, <2>2 DEF GivenTo
  <2> QED BY <2>3 DEF AllPaid
<1> QED BY <1>2, <1>3

LEMMA PaidKept == Shapes /\ AllPaid(invoice, voucher) /\ [Next]_vars => AllPaid(invoice, voucher)'
<1> SUFFICES ASSUME Shapes, AllPaid(invoice, voucher), [Next]_vars
             PROVE  AllPaid(invoice', voucher')
  OBVIOUS
<1>1. CASE UNCHANGED vars
  BY <1>1 DEF vars
<1>2. ASSUME NEW o \in Orders, CreateOrder(o) \/ ApproveOrder(o) \/ WriteBack(o)
      PROVE  AllPaid(invoice', voucher')
  BY <1>2 DEF CreateOrder, ApproveOrder, WriteBack
<1>3. ASSUME NEW o \in Orders, NEW day \in Days, NEW q \in 1..order[o].qty, Receive(o, q, day)
      PROVE  AllPaid(invoice', voucher')
  BY <1>3 DEF Receive
<1>4. ASSUME NEW total \in ContractTotals, ContractInvoice(total)
      PROVE  AllPaid(invoice', voucher')
  <2>1. UNCHANGED voucher /\ \E d : Added(invoice, d, "purchase", 0)
    BY <1>4, ContractStep
  <2>2. 0 \in 0..Len(invoice)
    BY Counts
  <2> QED BY <2>1, <2>2, UncreditedIs, AddedPaid
<1>5. ASSUME NEW i \in 0..Len(invoice), NEW total \in NoteTotals, NEW day \in Days,
             CreditNote(i, total, day)
      PROVE  AllPaid(invoice', voucher')
  <2>1. /\ UNCHANGED voucher /\ total \in Nat
        /\ \E documents, d : /\ CreditedOn(i, total, documents) /\ d.total = total
                             /\ Added(documents, d, "purchase_credit_note", i)
    BY <1>5, CreditNoteStep
  <2> QED BY <2>1, AddedPaid
<1>6. ASSUME NEW i \in 0..Len(invoice), NEW total \in NoteTotals, NEW day \in Days,
             DebitNote(i, total, day)
      PROVE  AllPaid(invoice', voucher')
  <2>1. UNCHANGED voucher /\ \E d : Added(invoice, d, "purchase_debit_note", i)
    BY <1>6, DebitNoteStep
  <2>2. CreditedOn(i, 0, invoice)
    <3>1. \A j \in 1..Len(invoice) : (IF j = i THEN 0 ELSE 0) = 0
      OBVIOUS
    <3> QED BY <3>1, UncreditedIs DEF CreditedOn
  <2> QED BY <2>1, <2>2, AddedPaid
<1> QED BY <1>1, <1>2, <1>3, <1>4, <1>5, <1>6, Steps, SettlePaid, CancelPaid

\* A void voucher is allocated to nothing.
LEMMA PostedOnly ==
  ASSUME Shapes, NEW i
  PROVE  {v \in Allocated(i) : voucher[v].status = "posted"} = Allocated(i)
<1>1. ASSUME NEW v \in Allocated(i) PROVE voucher[v].status = "posted"
  <2>1. v \in 1..Len(voucher) /\ i \in DOMAIN voucher[v].to
    BY Counts DEF Allocated
  <2> QED BY <2>1 DEF Shapes, IsVouchers, IsVoucher
<1> QED BY <1>1

LEMMA GivenIsAllocated ==
  ASSUME Shapes, NEW i
  PROVE  GivenTo(invoice, voucher, i)
           = SumOver(Allocated(i), LAMBDA v : voucher[v].to[i])
             + SumOver({n \in CreditNotes : invoice[n].of = i}, LAMBDA n : invoice[n].total)
<1> DEFINE V == 1..Len(voucher)
           S == 1..Len(invoice)
           A == Allocated(i)
           C == {n \in CreditNotes : invoice[n].of = i}
           wa == [v \in A |-> voucher[v].to[i]]
           wc == [n \in C |-> invoice[n].total]
           a == Allots(voucher, i)
           c == Credits(invoice, i)
<1>1. /\ IsFiniteSet(V) /\ IsFiniteSet(S) /\ DOMAIN voucher = V /\ DOMAIN invoice = S
      /\ \A v \in V : a[v] \in Int /\ a[v] = IF i \in DOMAIN voucher[v].to
                                             THEN voucher[v].to[i] ELSE 0
      /\ \A n \in S : c[n] \in Int /\ c[n] = IF invoice[n].type = "purchase_credit_note"
                                                /\ invoice[n].of = i
                                             THEN invoice[n].total ELSE 0
  BY Counts, AllotsNat, CreditsNat DEF Shapes
<1>2. A \in SUBSET V /\ \A v \in V : v \in A <=> i \in DOMAIN voucher[v].to
  BY <1>1 DEF Allocated
<1>3. C \in SUBSET S
      /\ \A n \in S : n \in C <=> invoice[n].type = "purchase_credit_note" /\ invoice[n].of = i
  BY <1>1 DEF CreditNotes
<1>4. (\A v \in A : wa[v] = voucher[v].to[i]) /\ (\A n \in C : wc[n] = invoice[n].total)
  OBVIOUS
<1>5. /\ SumOver(A, LAMBDA v : voucher[v].to[i]) = SumFunctionOnSet(wa, A)
      /\ SumOver(C, LAMBDA n : invoice[n].total) = SumFunctionOnSet(wc, C)
  BY DEF SumOver
<1>6. GivenTo(invoice, voucher, i) = SumFunctionOnSet(a, V) + SumFunctionOnSet(c, S)
  BY DEF GivenTo, Allotted, CreditedTo
<1> HIDE DEF V, S, A, C, wa, wc, a, c
<1>7. (\A v \in A : wa[v] = a[v]) /\ (\A v \in V \ A : a[v] = 0)
  BY <1>1, <1>2, <1>4
<1>8. (\A n \in C : wc[n] = c[n]) /\ (\A n \in S \ C : c[n] = 0)
  BY <1>1, <1>3, <1>4
<1>9. SumFunctionOnSet(wa, A) = SumFunctionOnSet(a, V)
  BY <1>1, <1>2, <1>7, SumPart
<1>10. SumFunctionOnSet(wc, C) = SumFunctionOnSet(c, S)
  BY <1>1, <1>3, <1>8, SumPart
<1> QED BY <1>5, <1>6, <1>9, <1>10 DEF A, C

\* What a document in force is paid is what posted vouchers allocate to it and
\* credit notes give it, up to its total, whatever is cancelled beside it,
\* unless a payment or a note has revived it.
THEOREM PaymentsAllocated == Spec => []PaidIsAllocated
<1>1. Init => AllPaid(invoice, voucher)
  BY DEF Init, AllPaid
<1>2. Shapes /\ AllPaid(invoice, voucher) => PaidIsAllocated
  <2> SUFFICES ASSUME Shapes, AllPaid(invoice, voucher), NEW i \in DOMAIN invoice,
                      ~Cancelled(i), ~invoice[i].revived
               PROVE  invoice[i].paid = AtMost(invoice[i].total,
                        SumOver({v \in Allocated(i) : voucher[v].status = "posted"},
                                LAMBDA v : voucher[v].to[i])
                        + SumOver({n \in CreditNotes : invoice[n].of = i},
                                  LAMBDA n : invoice[n].total))
    BY DEF PaidIsAllocated
  <2>1. invoice[i].paid = AtMost(invoice[i].total, GivenTo(invoice, voucher, i))
    BY Counts DEF AllPaid, PaidAs, Cancelled
  <2> QED BY <2>1, GivenIsAllocated, PostedOnly
<1> QED BY <1>1, <1>2, ShapesInit, ShapesKept, PaidKept, PTL DEF Spec

(***************************************************************************)
(* Queues: the inductive invariant                                         *)
(***************************************************************************)
\* The states of a row that is not finished.
Open(k) == Waiting(k) \cup (IF k \in Retries THEN {"processing"} ELSE {})

HasAttempts(r) ==
  /\ r.state \in Open(kind) => r.attempts < MaxAttempts
  /\ r.state = "absent" => r.attempts = 0

AttemptsLeft == \A i \in Items : HasAttempts(row[i]) /\ HasAttempts(draft[i])

\* Only a transaction that holds a row has written to it, and it took the
\* row unfinished.
LocksHold ==
  /\ \A i \in Items : lock[i] = NoOne => draft[i] = row[i]
  /\ \A i \in Items : lock[i] # NoOne => row[i].state \in Open(kind)
  /\ \A w \in Workers : pc[w] = "idle" => todo[w] = {} /\ \A i \in Items : lock[i] # w
  /\ \A w \in Workers : kind = "retry_job" /\ pc[w] = "calling" =>
       \A i \in Items : lock[i] # w

\* A row to try is claimed: by the worker's lock, or for good.
TodoClaimed ==
  /\ \A w \in Workers : pc[w] = "calling" => kind \in Retries
  /\ \A w \in Workers : \A i \in todo[w] :
       /\ draft[i].state \in Open(kind)
       /\ kind \in Retries => draft[i].state = "processing"
       /\ pc[w] = "claimed" => lock[i] = w
       /\ pc[w] = "calling" => lock[i] = NoOne /\ row[i].state = "processing"
  /\ \A w1, w2 \in Workers : \A i \in Items :
       i \in todo[w1] /\ i \in todo[w2] => w1 = w2

\* The sendings n of a row r, with l losses and s submissions, are accounted
\* for: by an attempt it counts, by a loss or by a submission.
Within(k, n, r, l, s) ==
  n <= CASE k = "event" -> l + (IF r.state = Done(k) THEN 1 ELSE 0)
         [] k = "zatca" -> 0
         [] k = "einvoice" -> r.attempts + l + s
         [] OTHER -> r.attempts + (IF r.state = "processing" THEN 1 ELSE 0)

\* What covers them if the transaction that holds the row rolls back.
Fallback(i) ==
  /\ kind = "einvoice" /\ lock[i] # NoOne =>
       sent[i] <= row[i].attempts + 1 + lost[i] + submits[i]
  /\ kind \in Retries => Within(kind, sent[i], row[i], lost[i], submits[i])

\* No attempt has been made of a row since the claim of the job that is yet
\* to try it.
Fresh(i) ==
  /\ draft[i].attempts = row[i].attempts
  /\ kind \in Retries => sent[i] <= draft[i].attempts

SendsCounted ==
  \A i \in Items :
    /\ Within(kind, sent[i], draft[i], lost[i], submits[i])
    /\ Fallback(i)
    /\ (\E w \in Workers : i \in todo[w]) => Fresh(i)

IInv == QueueTables /\ AttemptsLeft /\ LocksHold /\ TodoClaimed /\ SendsCounted

(***************************************************************************)
(* Queues: lemmas about the operators                                      *)
(***************************************************************************)
\* A finished row is not open, a waiting one is.
LEMMA KindFacts ==
  ASSUME NEW k
  PROVE  /\ Waiting(k) \subseteq Open(k) /\ Open(k) \subseteq States(k)
         /\ Done(k) \in States(k) /\ Dead(k) \in States(k)
         /\ Done(k) \notin Open(k) /\ Dead(k) \notin Open(k)
         /\ Done(k) # Dead(k) /\ Done(k) # "absent" /\ Dead(k) # "absent"
         /\ "pending" \in Waiting(k) /\ "absent" \notin Open(k) /\ "absent" \in States(k)
         /\ k \in Retries => "processing" \in Open(k) /\ Waiting(k) = {"pending"}
         /\ k \in Retries => Done(k) # "pending" /\ Dead(k) # "pending"
         /\ Done(k) # "failed" /\ Done(k) # "dead_letter" /\ Done(k) # "pending"
         /\ "failed" \in Waiting(k) => k = "zatca"
         /\ Final(k) = {Done(k), Dead(k)}
BY DEF Waiting, Open, Done, Dead, States, Retries, Final

\* What is accounted for, by kind of table.
LEMMA WithinIs ==
  ASSUME NEW k, NEW n, NEW r, NEW l, NEW s
  PROVE  /\ k = "event" =>
              (Within(k, n, r, l, s) <=> n <= l + (IF r.state = Done(k) THEN 1 ELSE 0))
         /\ k = "zatca" => (Within(k, n, r, l, s) <=> n <= 0)
         /\ k = "einvoice" => (Within(k, n, r, l, s) <=> n <= r.attempts + l + s)
         /\ k \in Retries =>
              (Within(k, n, r, l, s) <=>
                 n <= r.attempts + (IF r.state = "processing" THEN 1 ELSE 0))
BY DEF Within, Retries

\* The kinds of table.
LEMMA KindIs == QueueTables => kind \in {"event", "zatca", "einvoice"} \cup Retries
BY QueuesAssumption DEF QueueTables, Retries

\* An attempt makes of an open row a done one, or one that is dead or waits
\* with attempts left; it counts, but in the event outbox, which knows no
\* failure; and a zatca row is never taken.
LEMMA OutcomeFacts ==
  ASSUME NEW k, NEW r \in Rows(k), r.state \in Open(k), r.attempts < MaxAttempts,
         NEW o \in Outcomes(k, r)
  PROVE  /\ o.row \in Rows(k)
         /\ o.taken \in BOOLEAN
         /\ k = "zatca" => ~o.taken
         /\ k = "event" => o.row.state = Done(k)
         /\ k # "event" => o.row.attempts = r.attempts + 1
         /\ o.row.state \in Waiting(k) \cup {Done(k), Dead(k)}
         /\ o.row.state \in Open(k) => o.row.attempts < MaxAttempts
<1>1. /\ r.state \in States(k) /\ r.attempts \in 0..MaxAttempts
      /\ r.due \in BOOLEAN /\ r.keyed \in BOOLEAN
      /\ MaxAttempts \in Nat
  BY QueuesAssumption DEF Rows
<1>2. CASE o = [taken |-> k # "zatca", row |-> Succeeded(k, r)]
  <2>1. /\ o.taken = (k # "zatca") /\ o.row = Succeeded(k, r)
    BY <1>2
  <2>2. /\ Succeeded(k, r).state = Done(k)
        /\ Succeeded(k, r).attempts = IF k = "event" THEN r.attempts ELSE r.attempts + 1
        /\ Succeeded(k, r).due = r.due /\ Succeeded(k, r).keyed = r.keyed
    BY <1>1 DEF Succeeded, Rows
  <2>3. Done(k) \in States(k)
    BY KindFacts
  <2>4. r.attempts \in 0..MaxAttempts /\ r.attempts + 1 \in 0..MaxAttempts
    BY <1>1
  <2>5. Succeeded(k, r) \in Rows(k)
    BY <1>1, <2>2, <2>3, <2>4 DEF Succeeded, Rows
  <2> QED
    BY <2>1, <2>2, <2>5, KindFacts
<1>3. CASE k # "event" /\ \E t \in Takes(k) : o = [taken |-> t, row |-> Failed(k, r)]
  <2>1. o.taken \in Takes(k) /\ o.row = Failed(k, r)
    BY <1>3
  <2>2. /\ Failed(k, r).attempts = r.attempts + 1
        /\ Failed(k, r).due = FALSE /\ Failed(k, r).keyed = r.keyed
        /\ Failed(k, r).state = IF r.attempts + 1 >= MaxAttempts THEN Dead(k)
                                ELSE IF k = "zatca" THEN "failed" ELSE "pending"
    BY <1>1 DEF Failed, Rows
  <2>3. Failed(k, r).state \in Waiting(k) \cup {Dead(k)}
    BY <2>2, KindFacts DEF Waiting
  <2>4. Failed(k, r) \in Rows(k)
    <3>1. Failed(k, r).state \in States(k)
      BY <2>3, KindFacts
    <3>2. r.attempts + 1 \in 0..MaxAttempts
      BY <1>1
    <3> QED
      BY <1>1, <3>1, <3>2, <2>2 DEF Failed, Rows
  <2>5. Failed(k, r).state \in Open(k) => Failed(k, r).attempts < MaxAttempts
    BY <1>1, <2>2, KindFacts
  <2>6. o.taken \in BOOLEAN /\ (k = "zatca" => ~o.taken)
    BY <2>1 DEF Takes
  <2> QED
    BY <1>3, <2>1, <2>2, <2>3, <2>4, <2>5, <2>6
<1> QED
  BY <1>2, <1>3 DEF Outcomes

(***************************************************************************)
(* Queues: the initial states and the steps                                *)
(***************************************************************************)
LEMMA InitInv == QueuesInit => IInv
<1> SUFFICES ASSUME QueuesInit PROVE IInv
  OBVIOUS
<1> USE QueuesAssumption
<1>0. /\ kind \in Kinds
      /\ row = [i \in Items |-> [state |-> "absent", attempts |-> 0,
                                due |-> FALSE, keyed |-> FALSE]]
      /\ draft = row /\ lock = [i \in Items |-> NoOne]
      /\ pc = [w \in Workers |-> "idle"] /\ todo = [w \in Workers |-> {}]
      /\ sent = [i \in Items |-> 0] /\ lost = [i \in Items |-> 0] /\ losses = 0
      /\ submits = [i \in Items |-> 0] /\ admin = [a \in Admins |-> "new"]
  BY DEF QueuesInit
<1>1. /\ \A i \in Items : /\ row[i] \in Rows(kind) /\ row[i].state = "absent"
                            /\ row[i].attempts = 0
      /\ "absent" \notin Open(kind) /\ "absent" \notin Waiting(kind)
  <2>1. [state |-> "absent", attempts |-> 0, due |-> FALSE, keyed |-> FALSE] \in Rows(kind)
    BY KindFacts DEF Rows
  <2> QED
    BY <1>0, <2>1, KindFacts
<1>2. QueueTables
  BY <1>0, <1>1 DEF QueueTables
<1>3. AttemptsLeft
  BY <1>0, <1>1 DEF AttemptsLeft, HasAttempts
<1>4. LocksHold
  BY <1>0, <1>1 DEF LocksHold
<1>5. TodoClaimed
  BY <1>0 DEF TodoClaimed
<1>6. SendsCounted
  <2> SUFFICES ASSUME NEW i \in Items
               PROVE  Within(kind, sent[i], draft[i], lost[i], submits[i]) /\ Fallback(i)
    BY <1>0 DEF SendsCounted
  <2>1. /\ sent[i] = 0 /\ lost[i] = 0 /\ submits[i] = 0 /\ lock[i] = NoOne
        /\ draft[i] = row[i] /\ row[i].attempts = 0 /\ row[i].state = "absent"
    BY <1>0, <1>1
  <2>2. kind \in {"event", "zatca", "einvoice"} \cup Retries
    BY <1>2, KindIs
  <2>3. Within(kind, 0, row[i], 0, 0)
    BY <2>1, <2>2, WithinIs
  <2> QED
    BY <2>1, <2>3 DEF Fallback
<1> QED
  BY <1>2, <1>3, <1>4, <1>5, <1>6 DEF IInv

\* What a submission may do to the counts of a row; nothing else outside the
\* jobs does anything to them.
Submitted(j) ==
  \/ sent'[j] = sent[j] /\ submits'[j] = submits[j]
  \/ kind = "einvoice" /\ sent'[j] <= sent[j] + 1 /\ submits'[j] = submits[j] + 1

\* It is accounted for, if the row has no fewer attempts afterwards.
LEMMA SubmittedWithin ==
  ASSUME NEW j, NEW r, NEW s, Submitted(j),
         kind \in {"event", "zatca", "einvoice"} \cup Retries,
         sent[j] \in Nat, lost[j] \in Nat, submits[j] \in Nat, sent'[j] \in Nat,
         r.attempts \in Nat, s.attempts \in Nat,
         kind # "zatca" => r.attempts <= s.attempts,
         r.state = Done(kind) <=> s.state = Done(kind),
         kind \in Retries /\ r.state = "processing" => s.state = "processing",
         Within(kind, sent[j], r, lost[j], submits[j])
  PROVE  Within(kind, sent'[j], s, lost[j], submits'[j])
<1>1. CASE kind = "einvoice"
  <2>1. sent[j] <= r.attempts + lost[j] + submits[j]
    BY <1>1, WithinIs
  <2>2. sent'[j] <= s.attempts + lost[j] + submits'[j]
    BY <1>1, <2>1 DEF Submitted
  <2> QED
    BY <1>1, <2>2, WithinIs
<1>2. CASE kind # "einvoice"
  <2>1. sent'[j] = sent[j] /\ submits'[j] = submits[j]
    BY <1>2 DEF Submitted
  <2> QED
    BY <1>2, <2>1, WithinIs DEF Retries
<1> QED
  BY <1>1, <1>2

\* A submission that writes no row.
LEMMA SubmittedInv ==
  ASSUME IInv, UNCHANGED <<kind, row, draft, lock, pc, todo, lost, losses, admin>>,
         \A j \in Items : Submitted(j),
         sent' \in [Items -> Nat], submits' \in [Items -> 0..MaxSubmits]
  PROVE  IInv'
<1>1. QueueTables'
  BY DEF IInv, QueueTables
<1>2. AttemptsLeft' /\ LocksHold' /\ TodoClaimed'
  BY DEF IInv, AttemptsLeft, HasAttempts, LocksHold, TodoClaimed
<1>3. SendsCounted'
  <2> SUFFICES ASSUME NEW j \in Items
               PROVE  /\ Within(kind, sent'[j], draft[j], lost[j], submits'[j])
                      /\ Fallback(j)'
                      /\ (\E w \in Workers : j \in todo[w]) => Fresh(j)'
    BY DEF SendsCounted
  <2>1. /\ Submitted(j) /\ sent[j] \in Nat /\ lost[j] \in Nat /\ submits[j] \in Nat
        /\ sent'[j] \in Nat /\ draft[j].attempts \in Nat /\ row[j].attempts \in Nat
        /\ kind \in {"event", "zatca", "einvoice"} \cup Retries
    BY KindIs, QueuesAssumption DEF IInv, QueueTables, Rows
  <2>2. /\ Within(kind, sent[j], draft[j], lost[j], submits[j]) /\ Fallback(j)
        /\ (\E w \in Workers : j \in todo[w]) => Fresh(j)
    BY DEF IInv, SendsCounted
  <2>3. Within(kind, sent'[j], draft[j], lost[j], submits'[j])
    BY <2>1, <2>2, SubmittedWithin
  <2>4. Fallback(j)'
    <3>1. kind \in Retries => Within(kind, sent'[j], row[j], lost[j], submits'[j])
      BY <2>1, <2>2, SubmittedWithin DEF Fallback
    <3> QED
      BY <2>1, <2>2, <3>1 DEF Fallback, Submitted
  <2>5. Fresh(j) => Fresh(j)'
    BY <2>1 DEF Fresh, Submitted, Retries
  <2> QED
    BY <2>2, <2>3, <2>4, <2>5
<1> QED
  BY <1>1, <1>2, <1>3 DEF IInv

\* A committed change from outside the jobs.
LEMMA WriteInv ==
  ASSUME IInv, NEW i \in Items, NEW r \in Rows(kind), Put(i, r),
         UNCHANGED <<kind, lock, pc, todo, lost, losses>>,
         HasAttempts(r),
         r.state = Done(kind) <=> row[i].state = Done(kind),
         kind # "zatca" => row[i].attempts <= r.attempts,
         kind \in Retries => row[i].state # "processing",
         \A j \in Items : Submitted(j),
         sent' \in [Items -> Nat], submits' \in [Items -> 0..MaxSubmits],
         admin' \in [Admins -> {"new", "done"} \cup Items]
  PROVE  IInv'
<1> USE DEF IInv
<1>1. /\ lock[i] = NoOne /\ draft[i] = row[i]
      /\ row' = [row EXCEPT ![i] = r] /\ draft' = [draft EXCEPT ![i] = r]
  BY DEF Put, LocksHold
<1>2. /\ row'[i] = r /\ draft'[i] = r
      /\ \A j \in Items : j # i => row'[j] = row[j] /\ draft'[j] = draft[j]
  BY <1>1 DEF QueueTables
<1>3. \A w \in Workers : i \notin todo[w]
  <2> SUFFICES ASSUME NEW w \in Workers, i \in todo[w] PROVE FALSE
    OBVIOUS
  <2>1. pc[w] # "idle" /\ pc[w] # "claimed"
    BY <1>1, QueuesAssumption DEF LocksHold, TodoClaimed
  <2>2. pc[w] = "calling"
    BY <2>1 DEF QueueTables
  <2> QED
    BY <2>2 DEF TodoClaimed
<1>4. QueueTables'
  <2>1. r.state \in Waiting(kind) => r.attempts < MaxAttempts
    BY KindFacts DEF HasAttempts
  <2>2. \A j \in Items : row'[j].state \in Waiting(kind) => row'[j].attempts < MaxAttempts
    BY <1>2, <2>1 DEF QueueTables
  <2> QED
    BY <1>1, <2>2 DEF QueueTables
<1>5. AttemptsLeft'
  BY <1>1, <1>2 DEF AttemptsLeft, HasAttempts
<1>6. LocksHold'
  BY <1>1, <1>2 DEF LocksHold
<1>7. TodoClaimed'
  BY <1>1, <1>2, <1>3 DEF TodoClaimed, QueueTables
<1>8. SendsCounted'
  <2> SUFFICES ASSUME NEW j \in Items
               PROVE  /\ Within(kind, sent'[j], draft'[j], lost[j], submits'[j])
                      /\ Fallback(j)'
                      /\ (\E w \in Workers : j \in todo[w]) => Fresh(j)'
    BY DEF SendsCounted
  <2>1. /\ Submitted(j) /\ sent[j] \in Nat /\ lost[j] \in Nat /\ submits[j] \in Nat
        /\ sent'[j] \in Nat /\ draft[j].attempts \in Nat /\ row[j].attempts \in Nat
        /\ r.attempts \in Nat
        /\ kind \in {"event", "zatca", "einvoice"} \cup Retries
    BY KindIs, QueuesAssumption DEF QueueTables, Rows
  <2>2. /\ Within(kind, sent[j], draft[j], lost[j], submits[j]) /\ Fallback(j)
        /\ (\E w \in Workers : j \in todo[w]) => Fresh(j)
    BY DEF SendsCounted
  <2>3. CASE j # i
    <3>1. row'[j] = row[j] /\ draft'[j] = draft[j]
      BY <1>2, <2>3
    <3>2. Within(kind, sent'[j], draft[j], lost[j], submits'[j])
      BY <2>1, <2>2, SubmittedWithin
    <3>3. kind \in Retries => Within(kind, sent'[j], row[j], lost[j], submits'[j])
      BY <2>1, <2>2, SubmittedWithin DEF Fallback
    <3>4. Fallback(j)'
      BY <2>1, <2>2, <3>1, <3>3 DEF Fallback, Submitted
    <3>5. Fresh(j) => Fresh(j)'
      BY <2>1, <3>1 DEF Fresh, Submitted, Retries
    <3> QED
      BY <2>2, <3>1, <3>2, <3>4, <3>5
  <2>4. CASE j = i
    <3>1. Within(kind, sent'[i], r, lost[i], submits'[i])
      BY <1>1, <2>1, <2>2, <2>4, SubmittedWithin
    <3>2. Fallback(i)'
      BY <1>1, <1>2, <3>1 DEF Fallback
    <3> QED
      BY <1>2, <1>3, <2>4, <3>1, <3>2
  <2> QED
    BY <2>3, <2>4
<1> QED
  BY <1>4, <1>5, <1>6, <1>7, <1>8

LEMMA EnqueueInv == ASSUME IInv, NEW i \in Items, Enqueue(i) PROVE IInv'
<1> DEFINE r == [row[i] EXCEPT !.state = "pending", !.due = kind \notin Retries]
<1>1. /\ row[i].state = "absent" /\ Write(i, r) /\ submits' = submits /\ admin' = admin
  BY DEF Enqueue
<1>2. row[i] \in Rows(kind) /\ row[i].state \notin Open(kind) /\ "pending" \in States(kind)
  BY <1>1, KindFacts DEF IInv, QueueTables
<1>3. r \in Rows(kind) /\ r.state = "pending" /\ r.attempts = row[i].attempts
  BY <1>2 DEF Rows
<1>4. r.attempts < MaxAttempts
  BY <1>1, <1>3, QueuesAssumption DEF IInv, AttemptsLeft, HasAttempts
<1>5. HasAttempts(r) /\ r.state # Done(kind) /\ row[i].state # Done(kind)
  BY <1>1, <1>3, <1>4, KindFacts DEF HasAttempts
<1>6. row[i].attempts <= r.attempts /\ row[i].state # "processing"
  BY <1>1, <1>2, <1>3 DEF Rows
<1> QED
  BY <1>1, <1>3, <1>5, <1>6, WriteInv DEF IInv, QueueTables, Write, Submitted

LEMMA SubmitInv == ASSUME IInv, NEW i \in Items, Submit(i) PROVE IInv'
<1> DEFINE r == IF row[i].state = "absent"
                THEN [row[i] EXCEPT !.state = "pending", !.attempts = 1]
                ELSE [row[i] EXCEPT !.due = FALSE]
<1>1. /\ kind = "einvoice" /\ submits[i] < MaxSubmits
      /\ submits' = [submits EXCEPT ![i] = @ + 1]
      /\ UNCHANGED <<row, draft>> \/ Put(i, r)
      /\ UNCHANGED <<kind, lock, pc, todo, lost, losses, admin>>
  BY DEF Submit
<1>2. PICK taken \in BOOLEAN : Sending(i, taken)
  BY <1>1 DEF Submit, Takes
<1>3. /\ sent' \in [Items -> Nat] /\ submits' \in [Items -> 0..MaxSubmits]
      /\ \A j \in Items : Submitted(j)
  <2>1. /\ sent \in [Items -> Nat] /\ submits \in [Items -> 0..MaxSubmits]
    BY DEF IInv, QueueTables
  <2>2. submits[i] \in Nat /\ submits[i] + 1 \in 0..MaxSubmits
    BY <1>1, <2>1, QueuesAssumption
  <2> QED
    BY <1>1, <1>2, <2>1, <2>2 DEF Submitted, Sending
<1>4. CASE UNCHANGED <<row, draft>>
  BY <1>1, <1>3, <1>4, SubmittedInv
<1>5. CASE Put(i, r)
  <2>1. /\ row[i] \in Rows(kind) /\ HasAttempts(row[i])
        /\ "pending" \in States(kind) /\ 1 \in 0..MaxAttempts /\ 1 < MaxAttempts
    BY KindFacts, QueuesAssumption DEF IInv, QueueTables, AttemptsLeft
  <2>2. row[i].state = "absent" =>
          r \in Rows(kind) /\ r.state = "pending" /\ r.attempts = 1 /\ row[i].attempts = 0
    BY <2>1 DEF Rows, HasAttempts
  <2>3. row[i].state # "absent" =>
          r \in Rows(kind) /\ r.state = row[i].state /\ r.attempts = row[i].attempts
    BY <2>1 DEF Rows
  <2>4. /\ r \in Rows(kind) /\ HasAttempts(r)
        /\ r.state = Done(kind) <=> row[i].state = Done(kind)
    BY <2>1, <2>2, <2>3, KindFacts DEF HasAttempts
  <2>5. row[i].attempts <= r.attempts
    BY <2>1, <2>2, <2>3, QueuesAssumption DEF Rows
  <2>6. kind \notin Retries /\ admin' \in [Admins -> {"new", "done"} \cup Items]
    BY <1>1 DEF Retries, IInv, QueueTables
  <2> HIDE DEF r
  <2> QED
    BY <1>1, <1>3, <1>5, <2>4, <2>5, <2>6, WriteInv
<1> QED
  BY <1>1, <1>4, <1>5

LEMMA DueInv == ASSUME IInv, NEW i \in Items, Due(i) PROVE IInv'
<1> DEFINE r == [row[i] EXCEPT !.due = TRUE]
<1>1. /\ row[i].state \in Waiting(kind) /\ Write(i, r) /\ submits' = submits /\ admin' = admin
  BY DEF Due
<1>2. row[i] \in Rows(kind) /\ HasAttempts(row[i])
  BY DEF IInv, QueueTables, AttemptsLeft
<1>3. r \in Rows(kind) /\ r.state = row[i].state /\ r.attempts = row[i].attempts
  BY <1>2 DEF Rows
<1>4. HasAttempts(r)
  BY <1>2, <1>3 DEF HasAttempts
<1>5. kind \in Retries => row[i].state # "processing"
  BY <1>1, KindFacts
<1>6. row[i].attempts <= r.attempts
  BY <1>2, <1>3, QueuesAssumption DEF Rows
<1> QED
  BY <1>1, <1>3, <1>4, <1>5, <1>6, WriteInv DEF IInv, QueueTables, Write, Submitted

LEMMA RequeueInv == ASSUME IInv, NEW a \in Admins, Requeue(a) PROVE IInv'
<1> DEFINE i == admin[a]
           r == IF Requeueable(row[i])
                THEN [state |-> "pending", attempts |-> 0, due |-> TRUE, keyed |-> TRUE]
                ELSE row[i]
<1>1. /\ i \in Items /\ Write(i, r) /\ submits' = submits
      /\ admin' = [admin EXCEPT ![a] = "done"]
  BY DEF Requeue
<1>2. row[i] \in Rows(kind) /\ HasAttempts(row[i]) /\ row[i].state \in States(kind)
  BY <1>1 DEF IInv, QueueTables, AttemptsLeft, Rows
<1>3. Requeueable(row[i]) => r.state = "pending" /\ r.attempts = 0 /\ r \in Rows(kind)
  <2>1. "pending" \in States(kind) /\ 0 \in 0..MaxAttempts
    BY KindFacts, QueuesAssumption
  <2> QED
    BY <2>1 DEF Rows
<1>4. ~Requeueable(row[i]) => r = row[i]
  OBVIOUS
<1>5. /\ r \in Rows(kind) /\ HasAttempts(r)
      /\ r.state = Done(kind) <=> row[i].state = Done(kind)
  <2>1. 0 < MaxAttempts
    BY QueuesAssumption
  <2> QED
    BY <1>2, <1>3, <1>4, <2>1, KindFacts DEF HasAttempts, Requeueable
<1>6. kind \notin Retries /\ kind = "zatca"
  BY DEF Requeue, Retries
<1>7. i \in Items /\ admin' \in [Admins -> {"new", "done"} \cup Items]
  BY <1>1 DEF IInv, QueueTables
<1>8. sent' \in [Items -> Nat] /\ submits' \in [Items -> 0..MaxSubmits]
      /\ (\A j \in Items : Submitted(j))
      /\ Put(i, r) /\ UNCHANGED <<kind, lock, pc, todo, lost, losses>>
  BY <1>1 DEF IInv, QueueTables, Write, Submitted
<1> HIDE DEF r, i
<1> QED
  BY <1>5, <1>6, <1>7, <1>8, WriteInv

LEMMA ProbeInv == ASSUME IInv, NEW a \in Admins, NEW i \in Items, Probe(a, i) PROVE IInv'
<1>1. /\ admin' = [admin EXCEPT ![a] = IF row[i].keyed THEN "done" ELSE i]
      /\ kind' = kind /\ row' = row /\ draft' = draft /\ lock' = lock /\ pc' = pc
      /\ todo' = todo /\ sent' = sent /\ lost' = lost /\ losses' = losses
      /\ submits' = submits
  BY DEF Probe
<1>2. QueueTables'
  BY <1>1 DEF IInv, QueueTables
<1>3. AttemptsLeft' /\ LocksHold' /\ TodoClaimed' /\ SendsCounted'
  BY <1>1 DEF IInv, AttemptsLeft, HasAttempts, LocksHold, TodoClaimed, SendsCounted,
              Fallback, Fresh
<1> QED
  BY <1>2, <1>3 DEF IInv

\* The worker's rows are locked, and those of a retry queue marked.
LEMMA ClaimInv == ASSUME IInv, NEW w \in Workers, Claim(w) PROVE IInv'
<1> USE DEF IInv
<1>1. PICK B \in SUBSET {i \in Items : Claimable(i)} :
        /\ todo' = [todo EXCEPT ![w] = B]
        /\ lock' = [i \in Items |-> IF i \in B THEN w ELSE lock[i]]
        /\ draft' = [i \in Items |-> IF i \in B /\ kind \in Retries
                                     THEN [row[i] EXCEPT !.state = "processing"]
                                     ELSE draft[i]]
  BY DEF Claim
<1>2. /\ pc[w] = "idle" /\ pc' = [pc EXCEPT ![w] = "claimed"]
      /\ kind' = kind /\ row' = row /\ sent' = sent /\ lost' = lost /\ losses' = losses
      /\ submits' = submits /\ admin' = admin
  BY DEF Claim
<1>3. \A i \in B : /\ i \in Items /\ row[i].state \in Waiting(kind) /\ lock[i] = NoOne
                    /\ draft[i] = row[i] /\ row[i] \in Rows(kind)
                    /\ row[i].attempts < MaxAttempts
  BY DEF Claimable, LocksHold, QueueTables
<1>4. \A i \in B : kind \in Retries =>
        /\ draft'[i] \in Rows(kind) /\ draft'[i].state = "processing"
        /\ draft'[i].attempts = row[i].attempts
  <2> SUFFICES ASSUME NEW i \in B, kind \in Retries
               PROVE  /\ draft'[i] \in Rows(kind) /\ draft'[i].state = "processing"
                      /\ draft'[i].attempts = row[i].attempts
    OBVIOUS
  <2>1. draft'[i] = [row[i] EXCEPT !.state = "processing"] /\ row[i] \in Rows(kind)
    BY <1>1, <1>3
  <2>2. "processing" \in States(kind)
    BY KindFacts
  <2> QED
    BY <2>1, <2>2 DEF Rows
<1>5. \A i \in Items : i \notin B \/ kind \notin Retries => draft'[i] = draft[i]
  BY <1>1
<1>6. \A v \in Workers : \A i \in todo[v] : i \notin B /\ v # w
  <2> SUFFICES ASSUME NEW v \in Workers, NEW i \in todo[v] PROVE i \notin B /\ v # w
    OBVIOUS
  <2>1. v # w /\ pc[v] # "idle"
    BY <1>2 DEF LocksHold
  <2>2. CASE pc[v] = "claimed"
    BY <2>1, <2>2, <1>3, QueuesAssumption DEF TodoClaimed
  <2>3. CASE pc[v] = "calling"
    BY <2>1, <2>3, <1>3, KindFacts DEF TodoClaimed
  <2> QED
    BY <2>1, <2>2, <2>3 DEF QueueTables
<1>7. QueueTables'
  <2>1. draft' \in [Items -> Rows(kind)]
    BY <1>1, <1>4, <1>5 DEF QueueTables
  <2>2. lock' \in [Items -> Workers \cup {NoOne}] /\ todo' \in [Workers -> SUBSET Items]
    BY <1>1 DEF QueueTables
  <2> QED
    BY <1>2, <2>1, <2>2 DEF QueueTables
<1>8. AttemptsLeft'
  BY <1>2, <1>3, <1>4, <1>5 DEF AttemptsLeft, HasAttempts
<1>9. LocksHold'
  <2>1. \A i \in Items : lock'[i] = NoOne => draft'[i] = row'[i]
    BY <1>1, <1>2, <1>5, QueuesAssumption DEF LocksHold
  <2>2. \A i \in Items : lock'[i] # NoOne => row'[i].state \in Open(kind)
    BY <1>1, <1>2, <1>3, KindFacts DEF LocksHold
  <2>3. \A v \in Workers : pc'[v] = "idle" => todo'[v] = {} /\ \A i \in Items : lock'[i] # v
    BY <1>1, <1>2 DEF LocksHold, QueueTables
  <2>4. \A v \in Workers : kind = "retry_job" /\ pc'[v] = "calling" =>
          \A i \in Items : lock'[i] # v
    BY <1>1, <1>2 DEF LocksHold, QueueTables
  <2> QED
    BY <1>2, <2>1, <2>2, <2>3, <2>4 DEF LocksHold
<1>10. TodoClaimed'
  <2>1. \A v \in Workers : pc'[v] = "calling" => kind \in Retries
    BY <1>2 DEF TodoClaimed, QueueTables
  <2>2. \A v \in Workers : \A i \in todo'[v] :
          /\ draft'[i].state \in Open(kind)
          /\ kind \in Retries => draft'[i].state = "processing"
          /\ pc'[v] = "claimed" => lock'[i] = v
          /\ pc'[v] = "calling" => lock'[i] = NoOne /\ row'[i].state = "processing"
    <3> SUFFICES ASSUME NEW v \in Workers, NEW i \in todo'[v]
                 PROVE  /\ draft'[i].state \in Open(kind)
                        /\ kind \in Retries => draft'[i].state = "processing"
                        /\ pc'[v] = "claimed" => lock'[i] = v
                        /\ pc'[v] = "calling" => lock'[i] = NoOne /\ row'[i].state = "processing"
      OBVIOUS
    <3>1. CASE v = w
      <4>1. i \in B /\ pc'[v] = "claimed" /\ lock'[i] = w
        BY <3>1, <1>1, <1>2, <1>3 DEF QueueTables
      <4>2. /\ draft'[i].state \in Open(kind)
            /\ kind \in Retries => draft'[i].state = "processing"
        BY <4>1, <1>3, <1>4, <1>5, KindFacts
      <4> QED
        BY <3>1, <4>1, <4>2
    <3>2. CASE v # w
      <4>1. i \in todo[v] /\ i \notin B /\ i \in Items /\ pc'[v] = pc[v]
        BY <3>2, <1>1, <1>2, <1>6 DEF QueueTables
      <4>2. lock'[i] = lock[i] /\ draft'[i] = draft[i]
        BY <4>1, <1>1, <1>5
      <4> QED
        BY <4>1, <4>2, <1>2 DEF TodoClaimed
    <3> QED
      BY <3>1, <3>2
  <2>3. \A v1, v2 \in Workers : \A i \in Items :
          i \in todo'[v1] /\ i \in todo'[v2] => v1 = v2
    BY <1>1, <1>6 DEF TodoClaimed, QueueTables
  <2> QED
    BY <1>2, <2>1, <2>2, <2>3 DEF TodoClaimed
<1>11. SendsCounted'
  <2> SUFFICES ASSUME NEW i \in Items
               PROVE  /\ Within(kind, sent[i], draft'[i], lost[i], submits[i])
                      /\ Fallback(i)'
                      /\ (\E v \in Workers : i \in todo'[v]) => Fresh(i)'
    BY <1>2 DEF SendsCounted
  <2>1. /\ Within(kind, sent[i], draft[i], lost[i], submits[i]) /\ Fallback(i)
        /\ (\E v \in Workers : i \in todo[v]) => Fresh(i)
    BY DEF SendsCounted
  <2>2. /\ sent[i] \in Nat /\ lost[i] \in Nat /\ submits[i] \in Nat
        /\ row[i].attempts \in Nat
    BY QueuesAssumption DEF QueueTables, Rows
  <2>3. CASE i \notin B
    <3>1. draft'[i] = draft[i] /\ row'[i] = row[i] /\ lock'[i] = lock[i]
      BY <1>1, <1>2, <1>5, <2>3
    <3>2. \A v \in Workers : i \in todo'[v] => i \in todo[v]
      BY <1>1, <2>3 DEF QueueTables
    <3> QED
      BY <1>2, <2>1, <3>1, <3>2 DEF Fallback, Fresh
  <2>4. CASE i \in B
    <3>1. draft[i] = row[i] /\ (row[i].state # "processing" \/ kind \notin Retries)
      BY <1>3, <2>4, KindFacts
    <3>2. kind \in Retries => sent[i] <= row[i].attempts
      BY <1>3, <2>1, <2>2, <2>4, <3>1, WithinIs
    <3>3. /\ draft'[i].attempts = row[i].attempts
          /\ kind \in Retries => draft'[i].state = "processing"
          /\ kind \notin Retries => draft'[i] = draft[i]
      BY <1>3, <1>4, <1>5, <2>4
    <3>4. Within(kind, sent[i], draft'[i], lost[i], submits[i])
      <4>1. kind \in Retries => sent[i] <= row[i].attempts + 1
        BY <2>2, <3>2
      <4> QED
        BY <2>1, <3>3, <4>1, WithinIs
    <3>5. Fallback(i)'
      <4>1. kind = "einvoice" => sent[i] <= row[i].attempts + 1 + lost[i] + submits[i]
        <5>1. kind = "einvoice" => sent[i] <= row[i].attempts + lost[i] + submits[i]
          BY <1>3, <2>1, <2>4, WithinIs
        <5> QED
          BY <2>2, <5>1
      <4> QED
        BY <1>2, <2>1, <4>1 DEF Fallback
    <3>6. Fresh(i)'
      BY <1>2, <3>2, <3>3 DEF Fresh
    <3> QED
      BY <3>4, <3>5, <3>6
  <2> QED
    BY <2>3, <2>4
<1> QED
  BY <1>7, <1>8, <1>9, <1>10, <1>11

\* A transaction commits, at its end or after the claim of a retry queue.
LEMMA CommitInv ==
  ASSUME IInv, NEW w \in Workers, CommitRows(w), NEW p \in {"idle", "calling"},
         pc' = [pc EXCEPT ![w] = p],
         p = "idle" => todo[w] = {},
         p = "calling" => kind \in Retries /\ pc[w] = "claimed",
         UNCHANGED <<kind, todo, sent, lost, losses, submits, admin>>
  PROVE  IInv'
<1> USE QueuesAssumption DEF IInv
<1>1. /\ row' = [i \in Items |-> IF lock[i] = w THEN draft[i] ELSE row[i]]
      /\ draft' = draft
      /\ lock' = [i \in Items |-> IF lock[i] = w THEN NoOne ELSE lock[i]]
  BY DEF CommitRows
<1>2. QueueTables'
  <2>1. row' \in [Items -> Rows(kind)] /\ lock' \in [Items -> Workers \cup {NoOne}]
    BY <1>1 DEF QueueTables
  <2>2. \A i \in Items : row'[i].state \in Waiting(kind) => row'[i].attempts < MaxAttempts
    BY <1>1, KindFacts DEF AttemptsLeft, HasAttempts, QueueTables
  <2> QED
    BY <1>1, <2>1, <2>2 DEF QueueTables
<1>3. AttemptsLeft'
  BY <1>1 DEF AttemptsLeft, HasAttempts
<1>4. LocksHold'
  <2>1. \A i \in Items : lock'[i] = NoOne => draft'[i] = row'[i]
    BY <1>1 DEF LocksHold
  <2>2. \A i \in Items : lock'[i] # NoOne => row'[i].state \in Open(kind)
    BY <1>1 DEF LocksHold
  <2>3. \A v \in Workers : pc'[v] = "idle" => todo'[v] = {} /\ \A i \in Items : lock'[i] # v
    BY <1>1 DEF LocksHold, QueueTables
  <2>4. \A v \in Workers : kind = "retry_job" /\ pc'[v] = "calling" =>
          \A i \in Items : lock'[i] # v
    BY <1>1 DEF LocksHold, QueueTables
  <2> QED
    BY <2>1, <2>2, <2>3, <2>4 DEF LocksHold
<1>5. TodoClaimed'
  <2>1. \A v \in Workers : pc'[v] = "calling" => kind \in Retries
    BY DEF TodoClaimed, QueueTables
  <2>2. ASSUME NEW v \in Workers, NEW i \in todo[v]
        PROVE  /\ draft[i].state \in Open(kind)
               /\ kind \in Retries => draft[i].state = "processing"
               /\ pc'[v] = "claimed" => lock'[i] = v
               /\ pc'[v] = "calling" => lock'[i] = NoOne /\ row'[i].state = "processing"
    <3>1. i \in Items
      BY DEF QueueTables
    <3>2. CASE v = w
      <4>1. p = "calling" /\ kind \in Retries /\ lock[i] = w /\ pc'[w] = "calling"
        BY <3>2 DEF TodoClaimed, QueueTables
      <4> QED
        BY <3>1, <3>2, <4>1, <1>1 DEF TodoClaimed
    <3>3. CASE v # w
      <4>1. pc'[v] = pc[v]
        BY <3>3 DEF QueueTables
      <4> QED
        BY <3>1, <3>3, <4>1, <1>1 DEF TodoClaimed
    <3> QED
      BY <3>2, <3>3
  <2> QED
    BY <1>1, <2>1, <2>2 DEF TodoClaimed
<1>6. SendsCounted'
  <2> SUFFICES ASSUME NEW i \in Items
               PROVE  /\ Within(kind, sent[i], draft[i], lost[i], submits[i])
                      /\ Fallback(i)'
                      /\ (\E v \in Workers : i \in todo[v]) => Fresh(i)'
    BY <1>1 DEF SendsCounted
  <2>1. /\ Within(kind, sent[i], draft[i], lost[i], submits[i]) /\ Fallback(i)
        /\ (\E v \in Workers : i \in todo[v]) => Fresh(i)
    BY DEF SendsCounted
  <2>2. \/ row'[i] = draft[i] /\ lock'[i] = NoOne
        \/ row'[i] = row[i] /\ lock'[i] = lock[i]
    BY <1>1
  <2>3. Fallback(i)'
    BY <2>1, <2>2 DEF Fallback
  <2>4. Fresh(i) => Fresh(i)'
    BY <1>1, <2>2 DEF Fresh
  <2> QED
    BY <2>1, <2>3, <2>4
<1> QED
  BY <1>2, <1>3, <1>4, <1>5, <1>6

LEMMA CommitsInv ==
  ASSUME IInv, NEW w \in Workers, CommitClaim(w) \/ Commit(w) PROVE IInv'
<1>1. CASE CommitClaim(w)
  BY <1>1, CommitInv DEF CommitClaim
<1>2. CASE Commit(w)
  BY <1>2, CommitInv DEF Commit
<1> QED
  BY <1>1, <1>2

\* A row about to be tried is open and has attempts left, and none of it is
\* under way.
LEMMA ReadyRow ==
  ASSUME IInv, NEW w \in Workers, NEW i \in todo[w], Ready(w)
  PROVE  /\ i \in Items /\ draft[i] \in Rows(kind) /\ pc[w] # "idle"
         /\ draft[i].state \in Open(kind) /\ draft[i].attempts < MaxAttempts
         /\ row[i].state \in Open(kind) /\ Fresh(i)
         /\ kind \notin Retries => lock[i] = w
         /\ kind \in Retries => /\ lock[i] = NoOne /\ row[i].state = "processing"
                               /\ draft[i].state = "processing"
         /\ \A v \in Workers : v # w => i \notin todo[v]
<1> USE DEF IInv
<1>1. i \in Items /\ draft[i] \in Rows(kind) /\ pc[w] # "idle"
  BY DEF QueueTables, LocksHold
<1>2. /\ draft[i].state \in Open(kind) /\ draft[i].attempts < MaxAttempts
      /\ kind \in Retries => draft[i].state = "processing"
      /\ \A v \in Workers : v # w => i \notin todo[v]
      /\ Fresh(i)
  BY <1>1 DEF TodoClaimed, AttemptsLeft, HasAttempts, SendsCounted
<1>3. CASE kind \notin Retries
  <2>1. lock[i] = w /\ w # NoOne
    BY <1>3, QueuesAssumption DEF Ready, TodoClaimed
  <2>2. row[i].state \in Open(kind)
    BY <1>1, <2>1 DEF LocksHold
  <2> QED
    BY <1>1, <1>2, <1>3, <2>1, <2>2
<1>4. CASE kind \in Retries
  <2>1. lock[i] = NoOne /\ row[i].state = "processing"
    BY <1>4 DEF Ready, TodoClaimed
  <2> QED
    BY <1>1, <1>2, <1>4, <2>1, KindFacts
<1> QED
  BY <1>3, <1>4

\* What such a row's message has been sent, by kind of table.
LEMMA ReadySent ==
  ASSUME IInv, NEW w \in Workers, NEW i \in todo[w], Ready(w)
  PROVE  /\ sent[i] \in Nat /\ lost[i] \in Nat /\ submits[i] \in Nat
         /\ row[i].attempts \in Nat /\ draft[i].attempts = row[i].attempts
         /\ kind \in {"event", "zatca", "einvoice"} \cup Retries
         /\ kind = "event" => sent[i] <= lost[i]
         /\ kind = "zatca" => sent[i] <= 0
         /\ kind = "einvoice" => sent[i] <= row[i].attempts + lost[i] + submits[i]
         /\ kind \in Retries => sent[i] <= row[i].attempts
<1>1. /\ i \in Items /\ draft[i].state \in Open(kind) /\ Fresh(i)
  BY ReadyRow
<1>2. /\ sent[i] \in Nat /\ lost[i] \in Nat /\ submits[i] \in Nat
      /\ row[i].attempts \in Nat /\ draft[i].attempts = row[i].attempts
      /\ kind \in {"event", "zatca", "einvoice"} \cup Retries
  BY <1>1, KindIs, QueuesAssumption DEF IInv, QueueTables, Rows, Fresh
<1>3. Within(kind, sent[i], draft[i], lost[i], submits[i])
  BY <1>1 DEF IInv, SendsCounted
<1>4. draft[i].state # Done(kind)
  BY <1>1, KindFacts
<1>5. kind \in Retries => sent[i] <= row[i].attempts
  BY <1>1 DEF Fresh
<1> QED
  BY <1>2, <1>3, <1>4, <1>5, WithinIs

\* A row to which nothing happens stays accounted for.
LEMMA CountKept ==
  ASSUME SendsCounted, NEW j \in Items,
         kind' = kind, sent'[j] = sent[j], lost'[j] = lost[j], submits'[j] = submits[j],
         row'[j] = row[j], draft'[j] = draft[j],
         lock'[j] = lock[j] \/ lock'[j] = NoOne,
         (\E v \in Workers : j \in todo'[v]) => \E v \in Workers : j \in todo[v]
  PROVE  /\ Within(kind, sent'[j], draft'[j], lost'[j], submits'[j])
         /\ Fallback(j)'
         /\ (\E v \in Workers : j \in todo'[v]) => Fresh(j)'
BY DEF SendsCounted, Fallback, Fresh

LEMMA AttemptInv ==
  ASSUME IInv, NEW w \in Workers, NEW i \in Items, Attempt(w, i) PROVE IInv'
<1> USE QueuesAssumption DEF IInv
<1>1. /\ kind # "retry_job" /\ i \in todo[w] /\ Ready(w)
      /\ lock' = [lock EXCEPT ![i] = w] /\ todo' = [todo EXCEPT ![w] = @ \ {i}]
      /\ kind' = kind /\ row' = row /\ pc' = pc /\ lost' = lost /\ losses' = losses
      /\ submits' = submits /\ admin' = admin
  BY DEF Attempt
<1>2. PICK o \in Outcomes(kind, draft[i]) :
        draft' = [draft EXCEPT ![i] = o.row] /\ Sending(i, o.taken)
  BY DEF Attempt
<1>3. /\ draft[i] \in Rows(kind) /\ pc[w] # "idle"
      /\ draft[i].state \in Open(kind) /\ draft[i].attempts < MaxAttempts
      /\ row[i].state \in Open(kind)
      /\ kind \notin Retries => lock[i] = w
      /\ kind \in Retries => lock[i] = NoOne /\ row[i].state = "processing"
      /\ \A v \in Workers : v # w => i \notin todo[v]
  BY <1>1, ReadyRow
<1>4. /\ o.row \in Rows(kind) /\ o.taken \in BOOLEAN
      /\ kind = "zatca" => ~o.taken
      /\ kind = "event" => o.row.state = Done(kind)
      /\ kind # "event" => o.row.attempts = draft[i].attempts + 1
      /\ o.row.state \in Waiting(kind) \cup {Done(kind), Dead(kind)}
      /\ o.row.state \in Open(kind) => o.row.attempts < MaxAttempts
  BY <1>3, OutcomeFacts
<1>5. sent \in [Items -> Nat] /\ sent' \in [Items -> Nat]
      /\ sent'[i] <= sent[i] + 1 /\ (kind = "zatca" => sent'[i] = sent[i])
      /\ \A j \in Items : j # i => sent'[j] = sent[j]
  BY <1>2, <1>4 DEF Sending, QueueTables
<1>6. /\ draft'[i] = o.row /\ lock'[i] = w
      /\ \A j \in Items : j # i => draft'[j] = draft[j] /\ lock'[j] = lock[j]
      /\ \A v \in Workers : todo'[v] = todo[v] \ {i}
  BY <1>1, <1>2, <1>3 DEF QueueTables
<1>7. QueueTables'
  <2>1. draft' \in [Items -> Rows(kind)]
    BY <1>2, <1>4 DEF QueueTables
  <2>2. lock' \in [Items -> Workers \cup {NoOne}] /\ todo' \in [Workers -> SUBSET Items]
    BY <1>1 DEF QueueTables
  <2> QED
    BY <1>1, <1>5, <2>1, <2>2 DEF QueueTables
<1>8. AttemptsLeft'
  <2>1. o.row.state # "absent"
    BY <1>4, KindFacts
  <2> QED
    BY <1>1, <1>4, <1>6, <2>1 DEF AttemptsLeft, HasAttempts
<1>9. LocksHold'
  BY <1>1, <1>3, <1>6 DEF LocksHold
<1>10. TodoClaimed'
  <2>1. \A v \in Workers : \A j \in todo'[v] : j # i /\ j \in todo[v] /\ j \in Items
    BY <1>6 DEF QueueTables
  <2> QED
    BY <1>1, <1>6, <2>1 DEF TodoClaimed
<1>11. SendsCounted'
  <2>1. ASSUME NEW j \in Items, j # i
        PROVE  /\ Within(kind, sent'[j], draft'[j], lost'[j], submits'[j])
               /\ Fallback(j)'
               /\ (\E v \in Workers : j \in todo'[v]) => Fresh(j)'
    BY <1>1, <1>5, <1>6, <2>1, CountKept
  <2>2. /\ sent[i] \in Nat /\ lost[i] \in Nat /\ submits[i] \in Nat /\ sent'[i] \in Nat
        /\ row[i].attempts \in Nat /\ draft[i].attempts = row[i].attempts
        /\ kind \in {"event", "zatca", "einvoice"} \cup Retries
        /\ kind = "event" => sent[i] <= lost[i]
        /\ kind = "zatca" => sent[i] <= 0
        /\ kind = "einvoice" => sent[i] <= row[i].attempts + lost[i] + submits[i]
        /\ kind \in Retries => sent[i] <= row[i].attempts
    BY <1>1, <1>5, ReadySent
  <2>3. Within(kind, sent'[i], o.row, lost[i], submits[i])
    <3>1. kind = "event" => sent'[i] <= lost[i] + 1
      BY <1>5, <2>2
    <3>2. kind # "event" => o.row.attempts = row[i].attempts + 1
      BY <1>4, <2>2
    <3>3. kind = "einvoice" => sent'[i] <= o.row.attempts + lost[i] + submits[i]
      BY <1>5, <2>2, <3>2
    <3>4. kind \in Retries => sent'[i] <= o.row.attempts /\ o.row.state # "processing"
      <4>1. kind \in Retries => kind # "event"
        BY DEF Retries
      <4>2. kind \in Retries => o.row.state # "processing"
        BY <1>4 DEF Waiting, Done, Dead, Retries
      <4> QED
        BY <1>5, <2>2, <3>2, <4>1, <4>2
    <3>5. kind = "zatca" => sent'[i] <= 0
      BY <1>5, <2>2
    <3>6. CASE kind \in Retries
      <4>1. o.row.attempts \in Nat
        BY <2>2, <3>2, <3>6 DEF Retries
      <4> QED
        BY <3>4, <3>6, <4>1, WithinIs
    <3> QED
      BY <1>4, <2>2, <3>1, <3>3, <3>5, <3>6, WithinIs
  <2>4. Fallback(i)'
    <3>1. kind = "einvoice" => sent'[i] <= row[i].attempts + 1 + lost[i] + submits[i]
      BY <1>5, <2>2
    <3>2. kind \in Retries => Within(kind, sent'[i], row[i], lost[i], submits[i])
      <4>1. kind \in Retries => sent'[i] <= row[i].attempts + 1
        BY <1>5, <2>2
      <4> QED
        BY <1>3, <4>1, WithinIs
    <3> QED
      BY <1>1, <3>1, <3>2 DEF Fallback
  <2>5. \A v \in Workers : i \notin todo'[v]
    BY <1>6
  <2> QED
    BY <1>1, <1>6, <2>1, <2>3, <2>4, <2>5 DEF SendsCounted
<1> QED
  BY <1>7, <1>8, <1>9, <1>10, <1>11

LEMMA LoseOutcomeInv ==
  ASSUME IInv, NEW w \in Workers, NEW i \in Items, LoseOutcome(w, i) PROVE IInv'
<1> USE QueuesAssumption DEF IInv
<1>1. /\ kind = "einvoice" /\ i \in todo[w] /\ Ready(w)
      /\ losses < MaxLosses /\ losses' = losses + 1
      /\ lost' = [lost EXCEPT ![i] = @ + 1] /\ todo' = [todo EXCEPT ![w] = @ \ {i}]
      /\ kind' = kind /\ row' = row /\ draft' = draft /\ lock' = lock /\ pc' = pc
      /\ submits' = submits /\ admin' = admin
  BY DEF LoseOutcome
<1>2. PICK taken \in BOOLEAN : Sending(i, taken)
  BY DEF LoseOutcome, Takes
<1>3. kind \notin Retries /\ pc[w] # "idle"
  BY <1>1, ReadyRow DEF Retries
<1>4. /\ sent[i] \in Nat /\ lost[i] \in Nat /\ submits[i] \in Nat
      /\ row[i].attempts \in Nat /\ draft[i].attempts = row[i].attempts
      /\ sent[i] <= row[i].attempts + lost[i] + submits[i]
  BY <1>1, ReadySent
<1>5. /\ sent' \in [Items -> Nat] /\ sent'[i] <= sent[i] + 1 /\ lost'[i] = lost[i] + 1
      /\ \A j \in Items : j # i => sent'[j] = sent[j] /\ lost'[j] = lost[j]
      /\ \A v \in Workers : todo'[v] \subseteq todo[v] /\ i \notin todo'[v]
  <2>1. \A v \in Workers : v # w => i \notin todo[v]
    BY <1>1, ReadyRow
  <2> QED
    BY <1>1, <1>2, <2>1 DEF QueueTables, Sending
<1>6. QueueTables'
  <2>1. lost' \in [Items -> Nat] /\ todo' \in [Workers -> SUBSET Items]
        /\ losses' \in 0..MaxLosses
    BY <1>1 DEF QueueTables
  <2> QED
    BY <1>1, <1>5, <2>1 DEF QueueTables
<1>7. AttemptsLeft' /\ LocksHold'
  BY <1>1, <1>3 DEF AttemptsLeft, HasAttempts, LocksHold, QueueTables
<1>8. TodoClaimed'
  BY <1>1, <1>5 DEF TodoClaimed, QueueTables
<1>9. SendsCounted'
  <2>1. ASSUME NEW j \in Items, j # i
        PROVE  /\ Within(kind, sent'[j], draft'[j], lost'[j], submits'[j])
               /\ Fallback(j)'
               /\ (\E v \in Workers : j \in todo'[v]) => Fresh(j)'
    BY <1>1, <1>5, <2>1, CountKept
  <2>2. sent'[i] <= row[i].attempts + lost'[i] + submits[i] /\ sent'[i] \in Nat
    BY <1>4, <1>5
  <2>3. Within(kind, sent'[i], draft[i], lost'[i], submits[i])
    BY <1>1, <1>4, <2>2, WithinIs
  <2>4. Fallback(i)'
    <3>1. sent'[i] <= row[i].attempts + 1 + lost'[i] + submits[i]
      BY <1>4, <1>5, <2>2
    <3> QED
      BY <1>1, <1>3, <3>1 DEF Fallback
  <2> QED
    BY <1>1, <1>5, <2>1, <2>3, <2>4 DEF SendsCounted
<1> QED
  BY <1>6, <1>7, <1>8, <1>9

LEMMA AttemptInBlockInv ==
  ASSUME IInv, NEW w \in Workers, NEW i \in Items, AttemptInBlock(w, i) PROVE IInv'
<1> USE QueuesAssumption DEF IInv
<1>1. /\ kind = "retry_job" /\ i \in todo[w] /\ Ready(w)
      /\ todo' = [todo EXCEPT ![w] = {}] /\ pc' = [pc EXCEPT ![w] = "idle"]
      /\ kind' = kind /\ row' = row /\ draft' = draft /\ lock' = lock
      /\ lost' = lost /\ losses' = losses /\ submits' = submits /\ admin' = admin
  BY DEF AttemptInBlock
<1>2. PICK taken \in BOOLEAN : Sending(i, taken)
  BY DEF AttemptInBlock, Takes
<1>3. /\ kind \in Retries /\ lock[i] = NoOne /\ row[i].state = "processing"
      /\ draft[i].state = "processing"
      /\ pc[w] = "calling" /\ \A v \in Workers : v # w => i \notin todo[v]
  BY <1>1, ReadyRow DEF Retries, Ready
<1>4. /\ sent[i] \in Nat /\ row[i].attempts \in Nat
      /\ draft[i].attempts = row[i].attempts /\ sent[i] <= row[i].attempts
  BY <1>1, <1>3, ReadySent
<1>5. /\ sent' \in [Items -> Nat] /\ sent'[i] <= sent[i] + 1
      /\ \A j \in Items : j # i => sent'[j] = sent[j]
      /\ todo'[w] = {} /\ pc'[w] = "idle"
      /\ \A v \in Workers : v # w => todo'[v] = todo[v] /\ pc'[v] = pc[v]
  BY <1>1, <1>2 DEF QueueTables, Sending
<1>6. QueueTables'
  BY <1>1, <1>5 DEF QueueTables
<1>7. AttemptsLeft'
  BY <1>1 DEF AttemptsLeft, HasAttempts
<1>8. LocksHold'
  BY <1>1, <1>3, <1>5 DEF LocksHold
<1>9. TodoClaimed'
  BY <1>1, <1>5 DEF TodoClaimed
<1>10. SendsCounted'
  <2>1. \A j \in Items : (\E v \in Workers : j \in todo'[v]) => \E v \in Workers : j \in todo[v]
    BY <1>5
  <2>2. ASSUME NEW j \in Items, j # i
        PROVE  /\ Within(kind, sent'[j], draft'[j], lost'[j], submits'[j])
               /\ Fallback(j)'
               /\ (\E v \in Workers : j \in todo'[v]) => Fresh(j)'
    BY <1>1, <1>5, <2>1, <2>2, CountKept
  <2>3. sent'[i] <= row[i].attempts + 1
    BY <1>4, <1>5
  <2>4. /\ Within(kind, sent'[i], draft[i], lost[i], submits[i])
        /\ Within(kind, sent'[i], row[i], lost[i], submits[i])
    BY <1>3, <1>4, <2>3, WithinIs
  <2>5. Fallback(i)'
    BY <1>1, <2>4 DEF Fallback
  <2>6. \A v \in Workers : i \notin todo'[v]
    BY <1>3, <1>5
  <2> QED
    BY <1>1, <2>2, <2>4, <2>5, <2>6 DEF SendsCounted
<1> QED
  BY <1>6, <1>7, <1>8, <1>9, <1>10

LEMMA CrashInv == ASSUME IInv, NEW w \in Workers, Crash(w) PROVE IInv'
<1> USE QueuesAssumption DEF IInv
<1>1. /\ losses < MaxLosses /\ losses' = losses + 1
      /\ lost' = [i \in Items |-> IF lock[i] = w \/ i \in todo[w] THEN lost[i] + 1 ELSE lost[i]]
      /\ row' = row
      /\ draft' = [i \in Items |-> IF lock[i] = w THEN row[i] ELSE draft[i]]
      /\ lock' = [i \in Items |-> IF lock[i] = w THEN NoOne ELSE lock[i]]
      /\ pc' = [pc EXCEPT ![w] = "idle"] /\ todo' = [todo EXCEPT ![w] = {}]
      /\ kind' = kind /\ sent' = sent /\ submits' = submits /\ admin' = admin
  BY DEF Crash, RollBackRows
<1>2. /\ todo'[w] = {} /\ pc'[w] = "idle"
      /\ \A v \in Workers : v # w => todo'[v] = todo[v] /\ pc'[v] = pc[v]
  BY <1>1 DEF QueueTables
<1>3. QueueTables'
  BY <1>1 DEF QueueTables
<1>4. AttemptsLeft'
  BY <1>1 DEF AttemptsLeft, HasAttempts
<1>5. LocksHold'
  BY <1>1, <1>2 DEF LocksHold
<1>6. TodoClaimed'
  <2>1. ASSUME NEW v \in Workers, v # w, NEW i \in todo[v]
        PROVE  /\ i \in Items /\ lock[i] # w
               /\ draft'[i] = draft[i] /\ lock'[i] = lock[i]
    <3>1. i \in Items
      BY DEF QueueTables
    <3>2. pc[v] \in {"claimed", "calling"}
      BY <2>1 DEF LocksHold, QueueTables
    <3>3. lock[i] # w
      BY <2>1, <3>2 DEF TodoClaimed
    <3> QED
      BY <1>1, <3>1, <3>3
  <2>2. \A v \in Workers : pc'[v] = "calling" => kind \in Retries
    BY <1>2 DEF TodoClaimed
  <2>3. \A v \in Workers : \A i \in todo'[v] :
          /\ draft'[i].state \in Open(kind)
          /\ kind \in Retries => draft'[i].state = "processing"
          /\ pc'[v] = "claimed" => lock'[i] = v
          /\ pc'[v] = "calling" => lock'[i] = NoOne /\ row'[i].state = "processing"
    <3> SUFFICES ASSUME NEW v \in Workers, NEW i \in todo'[v]
                 PROVE  /\ draft'[i].state \in Open(kind)
                        /\ kind \in Retries => draft'[i].state = "processing"
                        /\ pc'[v] = "claimed" => lock'[i] = v
                        /\ pc'[v] = "calling" => lock'[i] = NoOne /\ row'[i].state = "processing"
      OBVIOUS
    <3>1. v # w /\ i \in todo[v] /\ pc'[v] = pc[v]
      BY <1>2
    <3>2. draft'[i] = draft[i] /\ lock'[i] = lock[i] /\ row'[i] = row[i]
      BY <1>1, <2>1, <3>1
    <3>3. /\ draft[i].state \in Open(kind)
          /\ kind \in Retries => draft[i].state = "processing"
          /\ pc[v] = "claimed" => lock[i] = v
          /\ pc[v] = "calling" => lock[i] = NoOne /\ row[i].state = "processing"
      BY <3>1 DEF TodoClaimed
    <3> QED
      BY <3>1, <3>2, <3>3
  <2>4. \A v1, v2 \in Workers : \A i \in Items :
          i \in todo'[v1] /\ i \in todo'[v2] => v1 = v2
    BY <1>2 DEF TodoClaimed
  <2> QED
    <3>1. kind' = kind
      BY <1>1
    <3> QED
      BY <2>2, <2>3, <2>4, <3>1 DEF TodoClaimed
<1>7. SendsCounted'
  <2> SUFFICES ASSUME NEW i \in Items
               PROVE  /\ Within(kind, sent[i], draft'[i], lost'[i], submits[i])
                      /\ Fallback(i)'
                      /\ (\E v \in Workers : i \in todo'[v]) => Fresh(i)'
    BY <1>1 DEF SendsCounted
  <2>1. /\ Within(kind, sent[i], draft[i], lost[i], submits[i]) /\ Fallback(i)
        /\ (\E v \in Workers : i \in todo[v]) => Fresh(i)
    BY DEF SendsCounted
  <2>2. /\ sent[i] \in Nat /\ lost[i] \in Nat /\ submits[i] \in Nat
        /\ row[i].attempts \in Nat /\ draft[i].attempts \in Nat
        /\ kind \in {"event", "zatca", "einvoice"} \cup Retries
    BY KindIs DEF QueueTables, Rows
  <2>3. (\E v \in Workers : i \in todo'[v]) => Fresh(i)
    BY <1>2, <2>1
  <2>4. CASE lock[i] = w
    <3>1. /\ draft'[i] = row[i] /\ row'[i] = row[i] /\ lock'[i] = NoOne
          /\ lost'[i] = lost[i] + 1 /\ lock[i] # NoOne
      BY <1>1, <2>4
    <3>2. Within(kind, sent[i], row[i], lost[i] + 1, submits[i])
      <4>1. kind = "event" => sent[i] <= lost[i] + 1
        BY <2>1, <2>2, WithinIs
      <4>2. kind = "event" => row[i].state # Done(kind)
        BY <2>4, <3>1, KindFacts DEF LocksHold
      <4>3. kind = "einvoice" => sent[i] <= row[i].attempts + (lost[i] + 1) + submits[i]
        BY <2>1, <2>2, <3>1 DEF Fallback
      <4>4. CASE kind \in Retries
        BY <2>1, <4>4, WithinIs DEF Fallback
      <4> QED
        BY <2>1, <2>2, <4>1, <4>2, <4>3, <4>4, WithinIs
    <3>3. Fallback(i)'
      <4>1. kind \in Retries => Within(kind, sent[i], row[i], lost[i] + 1, submits[i])
        BY <3>2
      <4> QED
        BY <1>1, <3>1, <4>1 DEF Fallback
    <3>4. Fresh(i) => Fresh(i)'
      BY <1>1, <3>1 DEF Fresh
    <3> QED
      BY <2>3, <3>1, <3>2, <3>3, <3>4
  <2>5. CASE lock[i] # w
    <3>1. /\ draft'[i] = draft[i] /\ row'[i] = row[i] /\ lock'[i] = lock[i]
          /\ lost'[i] \in {lost[i], lost[i] + 1}
      BY <1>1, <2>5
    <3>2. Within(kind, sent[i], draft[i], lost'[i], submits[i])
      BY <2>1, <2>2, <3>1, WithinIs
    <3>3. kind \in Retries => Within(kind, sent[i], row[i], lost'[i], submits[i])
      BY <2>1, WithinIs DEF Fallback
    <3>4. Fallback(i)'
      BY <1>1, <2>1, <2>2, <3>1, <3>3 DEF Fallback
    <3>5. Fresh(i) => Fresh(i)'
      BY <1>1, <3>1 DEF Fresh
    <3> QED
      BY <2>3, <3>1, <3>2, <3>4, <3>5
  <2> QED
    BY <2>4, <2>5
<1> QED
  BY <1>3, <1>4, <1>5, <1>6, <1>7

LEMMA StepInv == IInv /\ [QueuesNext]_queueVars => IInv'
<1> SUFFICES ASSUME IInv, [QueuesNext]_queueVars PROVE IInv'
  OBVIOUS
<1>1. ASSUME NEW i \in Items, Enqueue(i) \/ Submit(i) \/ Due(i) PROVE IInv'
  BY <1>1, EnqueueInv, SubmitInv, DueInv
<1>2. ASSUME NEW w \in Workers, Drain(w) \/ Crash(w) PROVE IInv'
  BY <1>2, ClaimInv, CommitsInv, AttemptInv, LoseOutcomeInv, AttemptInBlockInv, CrashInv
     DEF Drain
<1>3. ASSUME NEW a \in Admins, (\E i \in Items : Probe(a, i)) \/ Requeue(a) PROVE IInv'
  BY <1>3, ProbeInv, RequeueInv
<1>4. ASSUME UNCHANGED queueVars PROVE IInv'
  BY <1>4 DEF queueVars, IInv, QueueTables, AttemptsLeft, HasAttempts, LocksHold,
              TodoClaimed,
              SendsCounted, Fallback, Fresh
<1> QED
  BY <1>1, <1>2, <1>3, <1>4 DEF QueuesNext

(***************************************************************************)
(* Queues: theorems                                                        *)
(***************************************************************************)
LEMMA Inductive == QueuesSpec => []IInv
<1>1. QueuesInit => IInv
  BY InitInv
<1>2. IInv /\ [QueuesNext]_queueVars => IInv'
  BY StepInv
<1> QED
  BY <1>1, <1>2, PTL DEF QueuesSpec

\* The rows of every queue stay in the states of their table, with attempts
\* left while they wait.
THEOREM QueueTablesCorrect == QueuesSpec => []QueueTables
<1>1. IInv => QueueTables
  BY DEF IInv
<1> QED
  BY <1>1, Inductive, PTL

\* For any number of workers, rows and crashes: a message goes out no more
\* often than its row has attempts, but for losses and submissions.
THEOREM SendsWithinAttempts == QueuesSpec => []SendsBounded
<1>1. IInv => SendsBounded
  <2> SUFFICES ASSUME IInv, NEW i \in Items
               PROVE  sent[i] <= CASE kind = "event" -> 1 + lost[i]
                                   [] kind = "zatca" -> 0
                                   [] kind = "einvoice" -> MaxAttempts + lost[i] + submits[i]
                                   [] OTHER -> MaxAttempts
    BY DEF SendsBounded
  <2>1. /\ sent[i] \in Nat /\ lost[i] \in Nat /\ submits[i] \in Nat
        /\ draft[i].attempts \in 0..MaxAttempts
        /\ kind \in {"event", "zatca", "einvoice"} \cup Retries
    BY KindIs DEF IInv, QueueTables, Rows
  <2>2. Within(kind, sent[i], draft[i], lost[i], submits[i])
    BY DEF IInv, SendsCounted
  <2>3. CASE kind \in Retries
    <3>1. draft[i].state = "processing" => draft[i].attempts < MaxAttempts
      BY <2>3, KindFacts DEF IInv, AttemptsLeft, HasAttempts
    <3>2. sent[i] <= MaxAttempts
      BY <2>1, <2>2, <2>3, <3>1, WithinIs, QueuesAssumption
    <3> QED
      BY <2>3, <3>2 DEF Retries
  <2>4. CASE kind \notin Retries
    <3>1. kind = "event" => sent[i] <= 1 + lost[i]
      BY <2>1, <2>2, WithinIs
    <3>2. kind = "einvoice" => sent[i] <= MaxAttempts + lost[i] + submits[i]
      BY <2>1, <2>2, WithinIs, QueuesAssumption
    <3> QED
      BY <2>1, <2>2, <2>4, <3>1, <3>2, WithinIs
  <2> QED
    BY <2>3, <2>4
<1> QED
  BY <1>1, Inductive, PTL

\* No step sends the message of a finished row, but for a submission by a
\* user.
LEMMA FinishedUnsent ==
  ASSUME IInv, QueuesNext, NEW i \in Items, row[i].state \in Final(kind), sent'[i] # sent[i]
  PROVE  submits'[i] # submits[i]
<1>1. /\ row[i].state \notin Open(kind)
      /\ sent \in [Items -> Nat] /\ submits \in [Items -> 0..MaxSubmits]
  BY KindFacts DEF IInv, QueueTables
<1>2. ASSUME NEW w \in Workers, NEW j \in Items, NEW b, Sending(j, b),
             j \in todo[w], Ready(w)
      PROVE  FALSE
  <2>1. j = i
    BY <1>1, <1>2 DEF Sending
  <2> QED
    BY <1>1, <1>2, <2>1, ReadyRow
<1>3. ASSUME NEW w \in Workers, NEW j \in Items,
             Attempt(w, j) \/ LoseOutcome(w, j) \/ AttemptInBlock(w, j)
      PROVE  FALSE
  BY <1>2, <1>3 DEF Attempt, LoseOutcome, AttemptInBlock
<1>4. ASSUME NEW w \in Workers,
             Claim(w) \/ CommitClaim(w) \/ Commit(w) \/ Crash(w)
      PROVE  FALSE
  BY <1>4 DEF Claim, CommitClaim, Commit, Crash
<1>5. ASSUME NEW a \in Admins, (\E j \in Items : Probe(a, j)) \/ Requeue(a)
      PROVE  FALSE
  BY <1>5 DEF Probe, Requeue, Write
<1>6. ASSUME NEW j \in Items, Enqueue(j) \/ Due(j) PROVE FALSE
  BY <1>6 DEF Enqueue, Due, Write
<1>7. ASSUME NEW j \in Items, Submit(j) PROVE submits'[i] # submits[i]
  <2>1. PICK b : Sending(j, b)
    BY <1>7 DEF Submit
  <2>2. submits' = [submits EXCEPT ![j] = @ + 1]
    BY <1>7 DEF Submit
  <2>3. j = i
    BY <1>1, <2>1 DEF Sending
  <2>4. submits[i] \in Nat
    BY <1>1, QueuesAssumption
  <2> QED
    BY <1>1, <2>2, <2>3, <2>4
<1> QED
  BY <1>3, <1>4, <1>5, <1>6, <1>7 DEF QueuesNext, Drain

\* No step takes a finished row out of its state, but for a dead letter that
\* is reprocessed.
LEMMA FinishedStays ==
  ASSUME IInv, QueuesNext, NEW i \in Items, row[i].state \in Final(kind)
  PROVE  \/ row'[i].state = row[i].state
         \/ row[i].state = "dead_letter" /\ row'[i].state = "pending"
<1>1. /\ row[i].state \notin Open(kind) /\ row[i].state # "absent"
      /\ row[i].state \notin Waiting(kind) /\ row \in [Items -> Rows(kind)]
  BY KindFacts DEF IInv, QueueTables
<1>2. ASSUME NEW w \in Workers, CommitRows(w) PROVE row'[i] = row[i]
  <2>1. lock[i] = NoOne
    BY <1>1 DEF IInv, LocksHold
  <2> QED
    BY <1>1, <1>2, <2>1, QueuesAssumption DEF CommitRows
<1>3. ASSUME NEW j \in Items, Enqueue(j) \/ Submit(j) \/ Due(j)
      PROVE  row'[i].state = row[i].state
  <2>1. row[j] \in Rows(kind) /\ row[i] \in Rows(kind)
    BY <1>1
  <2>2. CASE j # i
    BY <1>1, <1>3, <2>2 DEF Enqueue, Submit, Due, Write, Put
  <2>3. CASE j = i
    BY <1>1, <1>3, <2>1, <2>3 DEF Enqueue, Submit, Due, Write, Put, Rows
  <2> QED
    BY <2>2, <2>3
<1>4. ASSUME NEW w \in Workers, Drain(w) \/ Crash(w) PROVE row'[i].state = row[i].state
  BY <1>2, <1>4 DEF Drain, Claim, CommitClaim, Commit, Attempt, LoseOutcome,
                    AttemptInBlock, Crash, RollBackRows
<1>5. ASSUME NEW a \in Admins, NEW j \in Items, Probe(a, j)
      PROVE  row'[i].state = row[i].state
  BY <1>5 DEF Probe
<1>6. ASSUME NEW a \in Admins, Requeue(a)
      PROVE  \/ row'[i].state = row[i].state
             \/ row[i].state = "dead_letter" /\ row'[i].state = "pending"
  <2>1. kind = "zatca" /\ admin[a] \in Items
    BY <1>6 DEF Requeue
  <2>2. row[i].state # "failed"
    BY <1>1, <2>1 DEF Waiting
  <2> QED
    BY <1>1, <1>6, <2>1, <2>2 DEF Requeue, Write, Put, Requeueable
<1> QED
  BY <1>3, <1>4, <1>5, <1>6 DEF QueuesNext

\* No step of any interleaving takes a finished row out of its state, but for
\* a dead letter that is reprocessed, or sends its message, but for a
\* submission by a user.
THEOREM FinalForGood == QueuesSpec => FinalStays
<1> DEFINE Kept == \A i \in Items :
                     row[i].state \in Final(kind) =>
                       /\ \/ row'[i].state = row[i].state
                          \/ row[i].state = "dead_letter" /\ row'[i].state = "pending"
                       /\ sent'[i] # sent[i] => submits'[i] # submits[i]
<1>1. IInv /\ [QueuesNext]_queueVars => [Kept]_queueVars
  BY FinishedStays, FinishedUnsent DEF queueVars
<1> QED
  BY <1>1, Inductive, PTL DEF QueuesSpec, FinalStays
=============================================================================
