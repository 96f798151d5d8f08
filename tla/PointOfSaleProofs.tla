-------------------------- MODULE PointOfSaleProofs --------------------------
(***************************************************************************)
(* PointOfSale, the tills over the stock, for any tills, warehouses,       *)
(* forms, costs and bounds: that the shop's goods are what its documents   *)
(* say (TillGoods), that a session totals what it sold (TillSessions),     *)
(* that no more is returned than was sold (TillReturns), and that cost     *)
(* layers, shelf and inventory account are the same goods (TillSubledger). *)
(*                                                                         *)
(* The lemmas about the stock and its steps are those of StockProofs.      *)
(* TillInv is the part of StockInv that sales and returns keep (StockCore) *)
(* and what the tables of the tills say; Subledger adds what layers and    *)
(* account are to the opening.                                             *)
(***************************************************************************)
EXTENDS PointOfSale, StockProofs

(***************************************************************************)
(* The tills: what their rows hold                                         *)
(***************************************************************************)
Items == [line : Nat \ {0}, qty : Nat \ {0}]

\* Rows of cost_layer_consumptions, when there are n layers.
Takings(n) == [layer : 1..n, qty : Nat]

SessionRows == [open : BOOLEAN, sales : Nat, returns : Nat, expected : Int, late : BOOLEAN]
SaleRows(n) ==
  [status : {"paid", "hold", "deleted"}, session : Nat \ {0}, lines : Seq(Nat \ {0}),
   account : {"cash", "bank", "none"}, unit : Nat, taken : Seq(Takings(n)), entered : BOOLEAN]
ReturnRows ==
  [sale : Nat, items : Seq(Items), cash : BOOLEAN, session : Nat, partly : BOOLEAN,
   late : BOOLEAN, entered : BOOLEAN]
Counted == [at : {"counted"}, session : Nat \ {0}, gap : Gaps, expected : Int]
Summed ==
  [at : {"summed"}, session : Nat \ {0}, gap : Gaps, expected : Int, sales : Nat, returns : Nat]
Returning ==
  [at : {"returning"}, sale : Nat \ {0}, items : Seq(Items), cash : BOOLEAN, session : Nat,
   seen : Nat]
ClerkRows == {NotBusy} \cup Counted \cup Summed \cup Returning

\* What the constants are, with the items' records named.
LEMMA TillAssumption ==
  /\ Shop \in Warehouses /\ Price \in Nat /\ FirstReturn \in Nat
  /\ \A f \in SaleForms : f.lines \in Seq(Nat \ {0}) /\ f.account \in {"cash", "bank"}
  /\ \A f \in ReturnForms : f.items \in Seq(Items) /\ f.cash \in BOOLEAN
  BY PointOfSaleAssumption DEF Items

\* A sequence over a set is one over a larger set.
LEMMA Wider ==
  ASSUME NEW S, NEW T, S \subseteq T, NEW s \in Seq(S)
  PROVE  s \in Seq(T)
<1>1. Len(s) \in Nat /\ DOMAIN s = 1..Len(s) /\ \A i \in 1..Len(s) : s[i] \in S
  BY Elements
<1>2. s \in [1..Len(s) -> S]
  BY LenProperties
<1>3. s \in [1..Len(s) -> T]
  BY <1>2
<1> QED BY <1>1, <1>3, FunctionIsSeq

\* Rows stay rows while layers are added.
LEMMA RowsWider ==
  ASSUME NEW n \in Nat, NEW m \in Nat, n <= m
  PROVE  /\ Seq(Takings(n)) \subseteq Seq(Takings(m))
         /\ SaleRows(n) \subseteq SaleRows(m)
         /\ Seq(SaleRows(n)) \subseteq Seq(SaleRows(m))
<1>1. Takings(n) \subseteq Takings(m)
  BY DEF Takings
<1>2. Seq(Takings(n)) \subseteq Seq(Takings(m))
  <2> SUFFICES ASSUME NEW s \in Seq(Takings(n)) PROVE s \in Seq(Takings(m))
    OBVIOUS
  <2> QED BY <1>1, Wider
<1>3. SaleRows(n) \subseteq SaleRows(m)
  BY <1>2 DEF SaleRows
<1>4. Seq(SaleRows(n)) \subseteq Seq(SaleRows(m))
  <2> SUFFICES ASSUME NEW s \in Seq(SaleRows(n)) PROVE s \in Seq(SaleRows(m))
    OBVIOUS
  <2> QED BY <1>3, Wider
<1> QED BY <1>2, <1>3, <1>4

\* The sums of the properties, over all rows.
PaidOf(row)     == IF row.status = "paid" THEN SumLines(row.lines) ELSE 0
PaidAt(row, i)  == IF row.session = i THEN PaidOf(row) ELSE 0
NamedOf(row, s, l) == IF row.sale = s THEN Named(row, l) ELSE 0

SoldAll(sa)      == SumFunctionOnSet([s \in 1..Len(sa) |-> PaidOf(sa[s])], 1..Len(sa))
SoldAt(sa, i)    == SumFunctionOnSet([s \in 1..Len(sa) |-> PaidAt(sa[s], i)], 1..Len(sa))
BroughtAll(ret)  == SumFunctionOnSet([r \in 1..Len(ret) |-> Brought(ret[r])], 1..Len(ret))
NamedBy(ret, s, l, n) == SumFunctionOnSet([r \in 1..Len(ret) |-> NamedOf(ret[r], s, l)], 1..n)

\* What items are of.
LEMMA ItemsAre ==
  ASSUME NEW f, f.items \in Seq(Items), NEW l
  PROVE  /\ Brought(f) \in Nat /\ Named(f, l) \in Nat /\ Price * Brought(f) \in Nat
         /\ Refund(f) \in Nat
<1> DEFINE n == Len(f.items)
           u == [k \in DOMAIN f.items |-> f.items[k].qty]
           D == {k \in DOMAIN f.items : f.items[k].line = l}
           v == [k \in D |-> f.items[k].qty]
<1>1. /\ n \in Nat /\ DOMAIN f.items = 1..n /\ IsFiniteSet(DOMAIN f.items)
      /\ \A k \in 1..n : f.items[k] \in Items
  BY Elements
<1>2. IsFiniteSet(D)
  BY <1>1, FS_Subset
<1>3. /\ \A k \in DOMAIN f.items : u[k] \in Nat
      /\ \A k \in D : v[k] \in Nat
  BY <1>1 DEF Items
<1>4. Brought(f) = SumFunctionOnSet(u, DOMAIN f.items) /\ Named(f, l) = SumFunctionOnSet(v, D)
  BY DEF Brought, Named, SumOver
<1> HIDE DEF u, v, D
<1>5. Brought(f) \in Nat /\ Named(f, l) \in Nat
  BY <1>1, <1>2, <1>3, <1>4, SumNat
<1>6. Price * Brought(f) \in Nat
  BY <1>5, TillAssumption, Products
<1> QED BY <1>5, <1>6 DEF Refund

(***************************************************************************)
(* The tills: layers by what they are of                                   *)
(***************************************************************************)
\* A list read backwards.
LEMMA Reversed ==
  ASSUME NEW S, NEW s \in Seq(S)
  PROVE  Reverse(s) \in Seq(S)
<1>1. Len(s) \in Nat /\ \A i \in 1..Len(s) : s[i] \in S
  BY Elements
<1>2. ASSUME NEW i \in 1..Len(s) PROVE (Len(s) - i) + 1 \in 1..Len(s)
  BY <1>1
<1>3. Reverse(s) = [i \in 1..Len(s) |-> s[(Len(s) - i) + 1]]
  BY DEF Reverse
<1>4. Reverse(s) \in [1..Len(s) -> S]
  BY <1>1, <1>2, <1>3
<1> QED BY <1>1, <1>4, FunctionIsSeq

\* What a row of cost_layer_consumptions took from layer i.
Taking == [layer : Nat, qty : Nat]
Of(i)  == [r \in Taking |-> IF r.layer = i THEN r.qty ELSE 0]

\* Rows take something or nothing from a layer.
LEMMA OfIs ==
  ASSUME NEW i
  PROVE  /\ Of(i) \in [Taking -> Int] /\ \A r \in Taking : Of(i)[r] \in Nat
         /\ \A r \in Taking : r.qty > 0 \/ Of(i)[r] = 0
         /\ \A r \in Taking : Of(i)[r] = IF r.layer = i THEN r.qty ELSE 0
  BY DEF Of, Taking

\* What rows weigh, over the numbers up to their length.
LEMMA WeightIs ==
  ASSUME NEW S, NEW s \in Seq(S), NEW g, \A r \in S : g[r] \in Int, NEW n, n = Len(s), NEW u,
         \A i \in 1..n : u[i] = g[s[i]]
  PROVE  /\ n \in Nat /\ DOMAIN s = 1..n /\ \A i \in 1..n : s[i] \in S /\ u[i] \in Int
         /\ Weight(s, g) = SumFunctionOnSet(u, 1..n) /\ Weight(s, g) \in Int
         /\ (\A i \in 1..n : u[i] \in Nat) => Weight(s, g) \in Nat
<1> DEFINE v == [i \in DOMAIN s |-> g[s[i]]]
<1>1. /\ n \in Nat /\ DOMAIN s = 1..n /\ \A i \in 1..n : s[i] \in S
  BY Elements
<1>2. PICK D : D = 1..n
  OBVIOUS
<1>3. IsFiniteSet(D) /\ \A i \in D : v[i] = u[i] /\ u[i] \in Int
  BY <1>1, <1>2, Finite
<1>4. Weight(s, g) = SumFunctionOnSet(v, D)
  BY <1>1, <1>2 DEF Weight
<1> HIDE DEF v
<1>5. SumFunctionOnSet(v, D) = SumFunctionOnSet(u, D) /\ SumFunctionOnSet(u, D) \in Int
  BY <1>3, SumSame, SumType
<1>6. (\A i \in D : u[i] \in Nat) => SumFunctionOnSet(u, D) \in Nat
  BY <1>3, SumNat
<1> QED BY <1>1, <1>2, <1>3, <1>4, <1>5, <1>6

\* A list after a list weighs what both do.
LEMMA WeightConcat ==
  ASSUME NEW S, NEW r \in Seq(S), NEW s \in Seq(S), NEW g, \A e \in S : g[e] \in Int
  PROVE  r \o s \in Seq(S) /\ Weight(r \o s, g) = Weight(r, g) + Weight(s, g)
<1> DEFINE n == Len(r)
           m == Len(s)
           c == r \o s
           u == [i \in 1..(n + m) |-> g[c[i]]]
           v == [i \in 1..n |-> g[r[i]]]
           z == [i \in 1..m |-> g[s[i]]]
<1>1. n \in Nat /\ m \in Nat /\ c \in Seq(S) /\ Len(c) = n + m
  BY Elements, ConcatProperties
<1>2. \A i \in 1..(n + m) : c[i] = IF i <= n THEN r[i] ELSE s[i - n]
  BY ConcatProperties
<1> HIDE DEF c, n, m
<1>3. /\ Weight(r, g) = SumFunctionOnSet(v, 1..n)
      /\ \A i \in 1..n : v[i] \in Int
  <2>1. \A i \in 1..n : v[i] = g[r[i]]
    OBVIOUS
  <2> HIDE DEF v
  <2> QED BY <2>1, WeightIs DEF n
<1>4. /\ Weight(s, g) = SumFunctionOnSet(z, 1..m)
      /\ \A i \in 1..m : z[i] \in Int
  <2>1. \A i \in 1..m : z[i] = g[s[i]]
    OBVIOUS
  <2> HIDE DEF z
  <2> QED BY <2>1, WeightIs DEF m
<1>5. /\ Weight(c, g) = SumFunctionOnSet(u, 1..(n + m))
      /\ \A i \in 1..(n + m) : u[i] \in Int
  <2>1. \A i \in 1..(n + m) : u[i] = g[c[i]]
    OBVIOUS
  <2>2. PICK d, x : d = c /\ x = u
    OBVIOUS
  <2>3. d \in Seq(S) /\ \A i \in 1..Len(d) : x[i] = g[d[i]]
    BY <1>1, <2>1, <2>2
  <2>4. Weight(d, g) = SumFunctionOnSet(x, 1..Len(d)) /\ \A i \in 1..Len(d) : x[i] \in Int
    BY <2>3, WeightIs
  <2> HIDE DEF u
  <2> QED BY <1>1, <2>2, <2>4
<1>6. \A i \in 1..m : z[i] = u[n + i]
  <2> SUFFICES ASSUME NEW i \in 1..m PROVE z[i] = u[n + i]
    OBVIOUS
  <2>1. n + i \in 1..(n + m) /\ ~(n + i <= n) /\ (n + i) - n = i
    BY <1>1
  <2>2. c[n + i] = s[i]
    BY <1>2, <2>1
  <2> QED BY <2>1, <2>2
<1>7. \A i \in 1..n : u[i] = v[i]
  <2> SUFFICES ASSUME NEW i \in 1..n PROVE u[i] = v[i]
    OBVIOUS
  <2>1. i \in 1..(n + m) /\ i <= n
    BY <1>1
  <2>2. c[i] = r[i]
    BY <1>2, <2>1
  <2> QED BY <2>1, <2>2
<1> HIDE DEF u, v, z
<1>8. SumFunctionOnSet(u, 1..(n + m)) = SumFunctionOnSet(u, 1..n) + SumFunctionOnSet(z, 1..m)
  BY <1>1, <1>5, <1>6, SumAfter
<1>9. SumFunctionOnSet(u, 1..n) = SumFunctionOnSet(v, 1..n)
  <2>1. PICK D : D = 1..n
    OBVIOUS
  <2>2. IsFiniteSet(D) /\ \A i \in D : u[i] = v[i]
    BY <1>1, <1>7, <2>1, Finite
  <2>3. SumFunctionOnSet(u, D) = SumFunctionOnSet(v, D)
    BY <2>2, SumSame
  <2> QED BY <2>1, <2>3
<1> QED BY <1>1, <1>3, <1>4, <1>5, <1>8, <1>9 DEF c

\* A list weighs the same read backwards.
LEMMA WeightReversed ==
  ASSUME NEW S, NEW s \in Seq(S), NEW g, \A e \in S : g[e] \in Int
  PROVE  Weight(Reverse(s), g) = Weight(s, g)
<1> DEFINE n == Len(s)
           t == Reverse(s)
           u == [i \in 1..n |-> g[s[i]]]
           v == [i \in 1..n |-> g[t[i]]]
           P == {k \in 0..n : SumFunctionOnSet(v, 1..k) = SumFunctionOnSet(u, (n + 1 - k)..n)}
<1>1. n \in Nat /\ \A i \in 1..n : s[i] \in S
  BY Elements
<1>2. t \in Seq(S)
  BY Reversed
<1>3. t = [i \in 1..n |-> s[(n - i) + 1]]
  BY DEF Reverse
<1>4. Len(t) = n
  <2>1. ASSUME NEW i \in 1..n PROVE s[(n - i) + 1] \in S
    <3>1. (n - i) + 1 \in 1..n
      BY <1>1
    <3> HIDE DEF n
    <3> QED BY <1>1, <3>1
  <2>2. t \in [1..n -> S]
    BY <1>3, <2>1
  <2> HIDE DEF t, n
  <2> QED BY <1>1, <2>2, FunctionIsSeq
<1>5. \A i \in 1..n : v[i] = u[n + 1 - i] /\ v[i] \in Int /\ u[i] \in Int
  <2> SUFFICES ASSUME NEW i \in 1..n
               PROVE  v[i] = u[n + 1 - i] /\ v[i] \in Int /\ u[i] \in Int
    OBVIOUS
  <2>1. (n - i) + 1 = n + 1 - i /\ n + 1 - i \in 1..n
    BY <1>1
  <2>2. t[i] = s[n + 1 - i]
    BY <1>3, <2>1
  <2> HIDE DEF t, n
  <2> QED BY <1>1, <2>1, <2>2
<1>6. Weight(s, g) = SumFunctionOnSet(u, 1..n)
  <2>1. \A i \in 1..n : u[i] = g[s[i]]
    OBVIOUS
  <2> HIDE DEF u
  <2> QED BY <2>1, WeightIs
<1>7. Weight(t, g) = SumFunctionOnSet(v, 1..n)
  <2>1. \A i \in 1..n : v[i] = g[t[i]]
    OBVIOUS
  <2> HIDE DEF v, t, n
  <2> QED BY <1>2, <1>4, <2>1, WeightIs
<1> HIDE DEF u, v, t, n
<1>8. 0 \in P
  <2>1. 1..0 = {} /\ (n + 1 - 0)..n = {} /\ 0 \in 0..n
    BY <1>1
  <2>2. SumFunctionOnSet(v, {}) = 0 /\ SumFunctionOnSet(u, {}) = 0
    BY SumNone
  <2> QED BY <2>1, <2>2
<1>9. ASSUME NEW k \in 1..n, k - 1 \in P PROVE k \in P
  <2>1. SumFunctionOnSet(v, 1..(k - 1)) = SumFunctionOnSet(u, (n + 1 - (k - 1))..n)
    BY <1>9
  <2>2. SumFunctionOnSet(v, 1..k) = SumFunctionOnSet(v, 1..(k - 1)) + v[k]
    <3>1. k \in Nat \ {0} /\ \A i \in 1..k : v[i] \in Int
      BY <1>1, <1>5
    <3> QED BY <3>1, SumUpTo
  <2>3. PICK A, e : A = (n + 1 - (k - 1))..n /\ e = n + 1 - k
    OBVIOUS
  <2>4. /\ e \in 1..n /\ e \notin A /\ (n + 1 - k)..n = A \cup {e}
        /\ A \in SUBSET (1..n)
    BY <1>1, <2>3
  <2>5. IsFiniteSet(A)
    <3>1. IsFiniteSet(1..n)
      BY <1>1, Finite
    <3> QED BY <2>4, <3>1, FS_Subset
  <2>6. \A y \in A \cup {e} : u[y] \in Int
    BY <1>5, <2>4
  <2>7. SumFunctionOnSet(u, A \cup {e}) = SumFunctionOnSet(u, A) + u[e]
    BY <2>4, <2>5, <2>6, SumAdd
  <2>8. v[k] = u[e]
    BY <1>5, <2>3
  <2>9. k \in 0..n
    BY <1>1
  <2> QED BY <2>1, <2>2, <2>3, <2>4, <2>7, <2>8, <2>9
<1>10. n \in P
  <2> HIDE DEF P
  <2>1. \A i \in 0..n : i \in P
    BY <1>1, <1>8, <1>9, UpTo
  <2>2. n \in 0..n
    BY <1>1
  <2> QED BY <2>1, <2>2
<1>11. (n + 1 - n)..n = 1..n
  BY <1>1
<1> QED BY <1>6, <1>7, <1>10, <1>11 DEF t

\* A sum with one term.
LEMMA SumSpot ==
  ASSUME NEW S, IsFiniteSet(S), NEW x \in S, NEW w, w[x] \in Int, \A y \in S \ {x} : w[y] = 0
  PROVE  SumFunctionOnSet(w, S) = w[x]
<1>1. \A y \in S : w[y] \in Int
  OBVIOUS
<1>2. SumFunctionOnSet(w, S) = w[x] + SumFunctionOnSet(w, S \ {x})
  BY <1>1, SumDrop
<1>3. PICK R : R = S \ {x}
  OBVIOUS
<1>4. IsFiniteSet(R) /\ {} \in SUBSET R /\ \A y \in R : w[y] \in Int /\ w[y] = 0
  BY <1>1, <1>3, FS_Subset
<1>5. SumFunctionOnSet(w, R) = SumFunctionOnSet(w, {})
  BY <1>4, SumSupport
<1>6. SumFunctionOnSet(w, {}) = 0
  BY SumNone
<1> QED BY <1>2, <1>3, <1>5, <1>6

\* The terms are all nothing.
LEMMA SumNothing ==
  ASSUME NEW S, IsFiniteSet(S), NEW w, \A y \in S : w[y] = 0
  PROVE  SumFunctionOnSet(w, S) = 0
<1>1. {} \in SUBSET S /\ \A y \in S : w[y] \in Int
  OBVIOUS
<1>2. SumFunctionOnSet(w, S) = SumFunctionOnSet(w, {})
  BY <1>1, SumSupport
<1> QED BY <1>2, SumNone

\* The rows a sale writes took from a layer what was taken from it.
LEMMA TakenRowsWeigh ==
  ASSUME NEW n \in Nat, NEW take, DOMAIN take = 1..n, \A i \in 1..n : take[i] \in Nat
  PROVE  /\ TakenRows(take) \in Seq(Taking)
         /\ \A i \in 1..n : Weight(TakenRows(take), Of(i)) = take[i]
         /\ \A i : i \notin 1..n => Weight(TakenRows(take), Of(i)) = 0
<1> DEFINE rows == [i \in DOMAIN take |-> [layer |-> i, qty |-> take[i]]]
           none == [r \in Taking |-> 0]
<1>1. rows \in [1..n -> Taking]
  BY DEF Taking
<1>2. TakenRows(take) = IF Method = "fifo" THEN Filled(rows) ELSE Reverse(Filled(rows))
  BY DEF TakenRows
<1>3. \A i \in 1..n : rows[i].layer = i /\ rows[i].qty = take[i] /\ rows[i] \in Taking
  BY DEF Taking
<1> HIDE DEF rows
<1>4. rows \in Seq(Taking) /\ Len(rows) = n
  BY <1>1, FunctionIsSeq
<1>5. ASSUME NEW i
      PROVE  /\ Filled(rows) \in Seq(Taking)
             /\ Weight(Filled(rows), Of(i)) = Weight(rows, Of(i))
  <2>1. Of(i) \in [Taking -> Int] /\ \A r \in Taking : r.qty > 0 \/ Of(i)[r] = 0
    BY OfIs
  <2> QED BY <1>4, <2>1, FilledKeeps
<1>6. Filled(rows) \in Seq(Taking)
  BY <1>5
<1>7. Reverse(Filled(rows)) \in Seq(Taking)
  BY <1>6, Reversed
<1>8. ASSUME NEW i
      PROVE  Weight(TakenRows(take), Of(i)) = Weight(rows, Of(i))
  <2>1. \A e \in Taking : Of(i)[e] \in Int
    BY OfIs
  <2>2. Weight(Reverse(Filled(rows)), Of(i)) = Weight(Filled(rows), Of(i))
    <3>1. PICK s, g : s = Filled(rows) /\ g = Of(i)
      OBVIOUS
    <3>2. s \in Seq(Taking) /\ \A e \in Taking : g[e] \in Int
      BY <1>6, <2>1, <3>1
    <3>3. Weight(Reverse(s), g) = Weight(s, g)
      BY <3>2, WeightReversed
    <3> QED BY <3>1, <3>3
  <2> QED BY <1>2, <1>5, <2>2
<1>9. ASSUME NEW i
      PROVE  Weight(rows, Of(i)) = SumFunctionOnSet([j \in 1..n |-> IF j = i THEN take[j] ELSE 0], 1..n)
  <2> DEFINE u == [j \in 1..n |-> IF j = i THEN take[j] ELSE 0]
  <2>1. PICK g, s, x : g = Of(i) /\ s = rows /\ x = u
    OBVIOUS
  <2>2. s \in Seq(Taking) /\ Len(s) = n /\ \A e \in Taking : g[e] \in Int
    BY <1>4, <2>1, OfIs
  <2>3. \A j \in 1..Len(s) : x[j] = g[s[j]]
    <3> SUFFICES ASSUME NEW j \in 1..n PROVE x[j] = g[s[j]]
      BY <2>2
    <3>1. x[j] = IF j = i THEN take[j] ELSE 0
      BY <2>1
    <3>2. s[j] \in Taking /\ s[j].layer = j /\ s[j].qty = take[j]
      BY <1>3, <2>1
    <3>3. g[s[j]] = IF s[j].layer = i THEN s[j].qty ELSE 0
      BY <2>1, <3>2, OfIs
    <3> QED BY <3>1, <3>2, <3>3
  <2>4. Weight(s, g) = SumFunctionOnSet(x, 1..Len(s))
    BY <2>2, <2>3, WeightIs
  <2> HIDE DEF u
  <2> QED BY <2>1, <2>2, <2>4 DEF u
<1>10. ASSUME NEW i \in 1..n PROVE Weight(rows, Of(i)) = take[i]
  <2> DEFINE u == [j \in 1..n |-> IF j = i THEN take[j] ELSE 0]
  <2>1. PICK D : D = 1..n
    OBVIOUS
  <2>2. IsFiniteSet(D) /\ i \in D /\ u[i] = take[i] /\ u[i] \in Int /\ \A y \in D \ {i} : u[y] = 0
    BY <2>1, Finite
  <2> HIDE DEF u
  <2>3. SumFunctionOnSet(u, D) = u[i]
    BY <2>2, SumSpot
  <2> QED BY <1>9, <2>1, <2>2, <2>3 DEF u
<1>11. ASSUME NEW i, i \notin 1..n PROVE Weight(rows, Of(i)) = 0
  <2> DEFINE u == [j \in 1..n |-> IF j = i THEN take[j] ELSE 0]
  <2>1. PICK D : D = 1..n
    OBVIOUS
  <2>2. IsFiniteSet(D) /\ \A y \in D : u[y] = 0
    BY <1>11, <2>1, Finite
  <2> HIDE DEF u
  <2>3. SumFunctionOnSet(u, D) = 0
    BY <2>2, SumNothing
  <2> QED BY <1>9, <2>1, <2>3 DEF u
<1> QED BY <1>2, <1>6, <1>7, <1>8, <1>10, <1>11

\* The rows of an issue are worth what they took from each layer at its cost.
TakenAtCost(st, take) == [i \in 1..Len(st.layers) |-> take[i] * st.layers[i].cost]

LEMMA ConsumptionsWorth ==
  ASSUME NEW st \in Stocks, NEW take, \A i \in 1..Len(st.layers) : take[i] \in Nat
  PROVE  Value(Consumptions(st, take))
           = SumFunctionOnSet(TakenAtCost(st, take), 1..Len(st.layers))
<1> DEFINE n == Len(st.layers)
           rows == [i \in DOMAIN st.layers |-> [qty |-> take[i], cost |-> st.layers[i].cost]]
           all == [r \in Parts |-> r.qty * r.cost]
           u == [i \in 1..n |-> take[i] * st.layers[i].cost]
<1>1. st.layers \in Seq(Layers)
  BY DEF Stocks
<1>2. /\ n \in Nat /\ DOMAIN st.layers = 1..n /\ \A i \in 1..n : st.layers[i] \in Layers
  BY <1>1, Elements
<1>3. \A i \in 1..n : rows[i] \in Parts /\ rows[i].qty = take[i] /\ rows[i].cost = st.layers[i].cost
  BY <1>2 DEF Layers, Parts
<1>4. rows \in [1..n -> Parts]
  BY <1>2, <1>3
<1>5. Consumptions(st, take) = Filled(rows)
  BY DEF Consumptions
<1> HIDE DEF rows
<1>6. rows \in Seq(Parts) /\ Len(rows) = n
  <2> HIDE DEF n
  <2> QED BY <1>2, <1>4, FunctionIsSeq
<1>7. all \in [Parts -> Int] /\ \A r \in Parts : r.qty > 0 \/ all[r] = 0
  <2> SUFFICES ASSUME NEW r \in Parts PROVE r.qty * r.cost \in Int /\ (r.qty > 0 \/ r.qty * r.cost = 0)
    OBVIOUS
  <2>1. PICK a, b : a = r.qty /\ b = r.cost
    OBVIOUS
  <2>2. a \in Nat /\ b \in Nat
    BY <2>1 DEF Parts
  <2>3. a * b \in Nat /\ (a > 0 \/ a * b = 0)
    BY <2>2, Products
  <2> QED BY <2>1, <2>3
<1>8. \A s \in Seq(Parts) : Value(s) = Weight(s, all)
  <2> SUFFICES ASSUME NEW s \in Seq(Parts) PROVE Value(s) = Weight(s, all)
    OBVIOUS
  <2>1. DOMAIN s = 1..Len(s) /\ IsFiniteSet(DOMAIN s) /\ \A i \in 1..Len(s) : s[i] \in Parts
    BY Elements
  <2> DEFINE x == [i \in DOMAIN s |-> s[i].qty * s[i].cost]
             y == [i \in DOMAIN s |-> all[s[i]]]
  <2>2. \A i \in DOMAIN s : x[i] = y[i]
    BY <2>1
  <2>3. Value(s) = SumFunctionOnSet(x, DOMAIN s) /\ Weight(s, all) = SumFunctionOnSet(y, DOMAIN s)
    BY DEF Value, SumOver, Weight
  <2> HIDE DEF x, y
  <2> QED BY <2>1, <2>2, <2>3, SumSame
<1>9. \A i \in 1..n : u[i] = all[rows[i]]
  BY <1>3
<1>10. \A e \in Parts : all[e] \in Int
  BY <1>7
<1> HIDE DEF all, n, u
<1>11. Filled(rows) \in Seq(Parts) /\ Weight(Filled(rows), all) = Weight(rows, all)
  BY <1>6, <1>7, FilledKeeps
<1>12. Weight(rows, all) = SumFunctionOnSet(u, 1..n)
  <2>1. PICK x, s, g : x = u /\ s = rows /\ g = all
    OBVIOUS
  <2>2. /\ s \in Seq(Parts) /\ \A i \in 1..Len(s) : x[i] = g[s[i]]
        /\ \A e \in Parts : g[e] \in Int
    BY <1>6, <1>9, <1>10, <2>1
  <2>3. Weight(s, g) = SumFunctionOnSet(x, 1..Len(s))
    BY <2>2, WeightIs
  <2> QED BY <1>6, <2>1, <2>3
<1>13. Value(Consumptions(st, take)) = SumFunctionOnSet(u, 1..n)
  BY <1>5, <1>8, <1>11, <1>12
<1> QED BY <1>13 DEF u, n, TakenAtCost

\* Rounding a quotient is off by half the divisor at most ...
LEMMA HalfUpClose ==
  ASSUME NEW num \in Nat, NEW den \in Nat \ {0}
  PROVE  /\ HalfUp(num, den) \in Nat
         /\ 2 * (den * HalfUp(num, den) - num) \in (-den)..den
<1>1. PICK a, b, k : a = 2 * num + den /\ b = 2 * den /\ k = a \div b
  OBVIOUS
<1>2. a \in Nat /\ b \in Nat \ {0} /\ k \in Nat
  <2>1. a \in Nat /\ b \in Nat \ {0}
    BY <1>1
  <2>2. \A x \in Nat, y \in Nat \ {0} : x \div y \in Nat
    OBVIOUS
  <2> QED BY <1>1, <2>1, <2>2
<1>3. b * k <= a /\ a < b * k + b
  <2>1. \A x \in Nat, y \in Nat \ {0} : y * (x \div y) <= x /\ x < y * (x \div y) + y
    OBVIOUS
  <2> QED BY <1>1, <1>2, <2>1
<1>4. PICK p : p = den * k
  OBVIOUS
<1>5. p \in Int /\ b * k = 2 * p
  <2>1. \A x, y \in Nat : x * y \in Nat /\ (2 * x) * y = 2 * (x * y)
    OBVIOUS
  <2> QED BY <1>1, <1>2, <1>4, <2>1
<1>6. 2 * (p - num) \in (-den)..den
  BY <1>1, <1>2, <1>3, <1>5
<1> QED BY <1>1, <1>2, <1>4, <1>6 DEF HalfUp

\* ... and rounding a value to cents by fifty units.
LEMMA CentsClose ==
  ASSUME NEW v \in Nat
  PROVE  Cents(v) \in Nat /\ 2 * (Cents(v) - v) \in (-100)..100
<1>1. PICK h : h = HalfUp(v, 100)
  OBVIOUS
<1>2. h \in Nat /\ 2 * (100 * h - v) \in (-100)..100
  <2>1. 100 \in Nat \ {0}
    OBVIOUS
  <2> QED BY <1>1, <2>1, HalfUpClose
<1> QED BY <1>1, <1>2 DEF Cents

\* What a piece of a layer counts: in the shop, as a piece or at its cost.
Pay(m, l)      == IF l.wh # Shop THEN 0 ELSE IF m = "pieces" THEN 1 ELSE l.cost
HoldsOf(st, m) == [i \in DOMAIN st.layers |-> st.layers[i].left * Pay(m, st.layers[i])]
Holds(st, m)   == SumFunctionOnSet(HoldsOf(st, m), DOMAIN st.layers)

\* A layer counts for what it has left.
LEMMA PayNat ==
  ASSUME NEW l \in Layers, NEW m
  PROVE  Pay(m, l) \in Nat /\ l.left \in Nat /\ l.left * Pay(m, l) \in Nat
<1>1. Pay(m, l) \in Nat /\ l.left \in Nat
  BY DEF Pay, Layers
<1> QED BY <1>1, Products

\* The layers of a stock hold its layer stock, and are worth their worth.
LEMMA HoldsAre ==
  ASSUME NEW st \in Stocks
  PROVE  /\ Len(st.layers) \in Nat /\ DOMAIN st.layers = 1..Len(st.layers)
         /\ \A i \in 1..Len(st.layers) : st.layers[i] \in Layers
         /\ \A m : Holds(st, m) = SumFunctionOnSet(HoldsOf(st, m), 1..Len(st.layers))
         /\ \A m : \A i \in 1..Len(st.layers) :
              /\ HoldsOf(st, m)[i] = st.layers[i].left * Pay(m, st.layers[i])
              /\ HoldsOf(st, m)[i] \in Nat
         /\ \A m : Holds(st, m) \in Nat
         /\ Holds(st, "pieces") = LayerStock(st, Shop)
         /\ Holds(st, "value") = Worth(st)
<1>1. PICK D : D = 1..Len(st.layers)
  OBVIOUS
<1>2. st.layers \in Seq(Layers)
  BY DEF Stocks
<1>3. /\ Len(st.layers) \in Nat /\ DOMAIN st.layers = D /\ IsFiniteSet(D)
      /\ \A i \in D : st.layers[i] \in Layers
  BY <1>1, <1>2, Elements
<1>4. ASSUME NEW m, NEW i \in D
      PROVE  /\ HoldsOf(st, m)[i] = st.layers[i].left * Pay(m, st.layers[i])
             /\ HoldsOf(st, m)[i] \in Nat
  <2>1. HoldsOf(st, m)[i] = st.layers[i].left * Pay(m, st.layers[i])
    BY <1>3 DEF HoldsOf
  <2> QED BY <1>3, <2>1, PayNat
<1>5. ASSUME NEW m
      PROVE  Holds(st, m) = SumFunctionOnSet(HoldsOf(st, m), D) /\ Holds(st, m) \in Nat
  <2>1. Holds(st, m) = SumFunctionOnSet(HoldsOf(st, m), D)
    BY <1>3 DEF Holds
  <2>2. SumFunctionOnSet(HoldsOf(st, m), D) \in Nat
    BY <1>3, <1>4, SumNat
  <2> QED BY <2>1, <2>2
<1>6. Holds(st, "pieces") = LayerStock(st, Shop)
  <2>1. LayerStock(st, Shop) = SumFunctionOnSet(Has(st, Shop), D)
    BY <1>1, TillAssumption, LayerFacts
  <2>2. ASSUME NEW i \in D PROVE HoldsOf(st, "pieces")[i] = Has(st, Shop)[i]
    <3>1. Has(st, Shop)[i] = IF st.layers[i].wh = Shop THEN st.layers[i].left ELSE 0
      BY <1>3 DEF Has
    <3>2. PICK a : a = st.layers[i].left
      OBVIOUS
    <3>3. a \in Nat /\ a * 1 = a /\ a * 0 = 0
      BY <1>3, <3>2 DEF Layers
    <3>4. Pay("pieces", st.layers[i]) = IF st.layers[i].wh # Shop THEN 0 ELSE 1
      BY DEF Pay
    <3> QED BY <1>4, <3>1, <3>2, <3>3, <3>4
  <2>3. SumFunctionOnSet(HoldsOf(st, "pieces"), D) = SumFunctionOnSet(Has(st, Shop), D)
    BY <1>3, <2>2, SumSame
  <2> QED BY <1>5, <2>1, <2>3
<1>7. Holds(st, "value") = Worth(st)
  <2> DEFINE w == [i \in DOMAIN st.layers |-> IF st.layers[i].wh = Shop
                                              THEN st.layers[i].left * st.layers[i].cost ELSE 0]
  <2>1. Worth(st) = SumFunctionOnSet(w, D)
    BY <1>3 DEF Worth, SumOver
  <2>2. ASSUME NEW i \in D PROVE HoldsOf(st, "value")[i] = w[i]
    <3>1. w[i] = IF st.layers[i].wh = Shop THEN st.layers[i].left * st.layers[i].cost ELSE 0
      BY <1>3
    <3>2. PICK a, b : a = st.layers[i].left /\ b = st.layers[i].cost
      OBVIOUS
    <3>3. a \in Nat /\ a * 0 = 0
      BY <1>3, <3>2 DEF Layers
    <3>4. Pay("value", st.layers[i]) = IF st.layers[i].wh # Shop THEN 0 ELSE b
      BY <3>2 DEF Pay
    <3> HIDE DEF w
    <3> QED BY <1>4, <3>1, <3>2, <3>3, <3>4
  <2> HIDE DEF w
  <2>3. SumFunctionOnSet(HoldsOf(st, "value"), D) = SumFunctionOnSet(w, D)
    BY <1>3, <2>2, SumSame
  <2> QED BY <1>5, <2>1, <2>3
<1> QED BY <1>1, <1>3, <1>4, <1>5, <1>6, <1>7

\* Layers that each change what they have left: t is st, d more in each.
Refilled(st, t, d) ==
  /\ Len(t.layers) = Len(st.layers)
  /\ \A i \in 1..Len(st.layers) :
       /\ d[i] \in Int /\ t.layers[i].left = st.layers[i].left + d[i]
       /\ t.layers[i].wh = st.layers[i].wh /\ t.layers[i].cost = st.layers[i].cost

\* What they then count for: layer by layer, and together.
MovesOf(st, d, m) == [i \in DOMAIN st.layers |-> d[i] * Pay(m, st.layers[i])]
Moves(st, d, m)   == SumFunctionOnSet(MovesOf(st, d, m), DOMAIN st.layers)

\* What layers hold changes with each of them.
LEMMA HoldsMoved ==
  ASSUME NEW st \in Stocks, NEW t \in Stocks, NEW d, Refilled(st, t, d), NEW m
  PROVE  Holds(t, m) = Holds(st, m) + Moves(st, d, m) /\ Moves(st, d, m) \in Int
<1>0. PICK x : x = MovesOf(st, d, m)
  OBVIOUS
<1>1. PICK D : D = 1..Len(st.layers)
  OBVIOUS
<1>2. IsFiniteSet(D) /\ Len(st.layers) \in Nat
  BY <1>1, HoldsAre, Finite
<1>3. /\ Holds(st, m) = SumFunctionOnSet(HoldsOf(st, m), D)
      /\ Holds(t, m) = SumFunctionOnSet(HoldsOf(t, m), D)
  BY <1>1, HoldsAre DEF Refilled
<1>4. ASSUME NEW i \in D
      PROVE  /\ HoldsOf(st, m)[i] \in Int /\ x[i] \in Int
             /\ HoldsOf(t, m)[i] = HoldsOf(st, m)[i] + x[i]
  <2>1. /\ HoldsOf(st, m)[i] = st.layers[i].left * Pay(m, st.layers[i])
        /\ HoldsOf(t, m)[i] = t.layers[i].left * Pay(m, t.layers[i])
        /\ HoldsOf(st, m)[i] \in Nat /\ st.layers[i] \in Layers
    BY <1>1, HoldsAre DEF Refilled
  <2>2. PICK a, e, p : a = st.layers[i].left /\ e = d[i] /\ p = Pay(m, st.layers[i])
    OBVIOUS
  <2>3. a \in Nat /\ p \in Nat
    BY <2>1, <2>2, PayNat
  <2>4. e \in Int /\ t.layers[i].left = a + e
    BY <1>1, <2>2 DEF Refilled
  <2>5. Pay(m, t.layers[i]) = p
    BY <1>1, <2>2 DEF Refilled, Pay
  <2>6. \A u, v, w \in Int : (u + v) * w = u * w + v * w /\ v * w \in Int
    OBVIOUS
  <2>7. x[i] = e * p
    BY <1>0, <1>1, <2>2, HoldsAre DEF MovesOf
  <2> QED BY <2>1, <2>2, <2>3, <2>4, <2>5, <2>6, <2>7
<1>5. SumFunctionOnSet(HoldsOf(t, m), D)
        = SumFunctionOnSet(HoldsOf(st, m), D) + SumFunctionOnSet(x, D)
  BY <1>2, <1>4, SumPlus
<1>6. SumFunctionOnSet(x, D) \in Int
  BY <1>2, <1>4, SumType
<1>7. Moves(st, d, m) = SumFunctionOnSet(x, D)
  BY <1>0, <1>1, HoldsAre DEF Moves
<1> QED BY <1>3, <1>5, <1>6, <1>7

\* A layer that is made counts for what it has.
LEMMA HoldsOneMore ==
  ASSUME NEW st \in Stocks, NEW t \in Stocks, Len(t.layers) = Len(st.layers) + 1,
         \A i \in 1..Len(st.layers) : t.layers[i] = st.layers[i],
         NEW l, l = t.layers[Len(st.layers) + 1], NEW m
  PROVE  l \in Layers /\ Holds(t, m) = Holds(st, m) + l.left * Pay(m, l)
<1>1. PICK n : n = Len(st.layers)
  OBVIOUS
<1>2. n \in Nat /\ Len(t.layers) = n + 1 /\ n + 1 \in 1..(n + 1)
  BY <1>1, HoldsAre
<1>3. l \in Layers
  BY <1>1, <1>2, HoldsAre
<1>4. PICK u, w : u = HoldsOf(st, m) /\ w = HoldsOf(t, m)
  OBVIOUS
<1>5. ASSUME NEW j \in 1..n PROVE u[j] \in Int /\ w[j] = u[j]
  <2>1. j \in 1..(n + 1)
    BY <1>2
  <2>2. /\ u[j] = st.layers[j].left * Pay(m, st.layers[j]) /\ u[j] \in Nat
        /\ w[j] = t.layers[j].left * Pay(m, t.layers[j])
    BY <1>1, <1>2, <1>4, <2>1, HoldsAre
  <2> QED BY <1>1, <2>2
<1>6. w[n + 1] = l.left * Pay(m, l) /\ w[n + 1] \in Int
  BY <1>1, <1>2, <1>4, HoldsAre
<1>7. SumFunctionOnSet(w, 1..(n + 1)) = SumFunctionOnSet(u, 1..n) + w[n + 1]
  BY <1>2, <1>5, <1>6, SumAppended
<1>8. Holds(st, m) = SumFunctionOnSet(u, 1..n) /\ Holds(t, m) = SumFunctionOnSet(w, 1..(n + 1))
  BY <1>1, <1>2, <1>4, HoldsAre
<1> QED BY <1>3, <1>6, <1>7, <1>8

\* What g gives to i, where l[j] is the one g[j] goes to; g, each at its rate.
Parted(g, l, n, i) == [j \in 1..n |-> IF l[j] = i THEN g[j] ELSE 0]
AtRates(g, r, n)   == [j \in 1..n |-> g[j] * r[j]]
Grouped(to, g, l, n, m) ==
  /\ \A j \in 1..n : l[j] \in 1..m /\ g[j] \in Int
  /\ \A i \in 1..m : to[i] = SumFunctionOnSet(Parted(g, l, n, i), 1..n)
RatedBy(r, c, l, n, m) ==
  /\ \A i \in 1..m : c[i] \in Int
  /\ \A j \in 1..n : r[j] = c[l[j]]

\* A sum by groups: what each of them is given, at its rate, is what is given,
\* at the rate of where it goes.
LEMMA SumByGroups ==
  ASSUME NEW n \in Nat, NEW m \in Nat, NEW l, NEW g, NEW c, NEW r, NEW to,
         Grouped(to, g, l, n, m), RatedBy(r, c, l, n, m)
  PROVE  SumFunctionOnSet(AtRates(to, c, m), 1..m) = SumFunctionOnSet(AtRates(g, r, n), 1..n)
<1> DEFINE D == 1..m
           u(i) == [j \in 1..n |-> IF l[j] = i THEN g[j] ELSE 0]
           T(k, i) == SumFunctionOnSet(u(i), 1..k)
           v(k) == [i \in D |-> T(k, i) * c[i]]
           w == [j \in 1..n |-> g[j] * c[l[j]]]
           P == {k \in 0..n : SumFunctionOnSet(v(k), D) = SumFunctionOnSet(w, 1..k)}
<1>0. /\ \A j \in 1..n : l[j] \in 1..m
      /\ \A j \in 1..n : g[j] \in Int
      /\ \A i \in 1..m : c[i] \in Int
      /\ \A j \in 1..n : r[j] = c[l[j]]
      /\ \A i \in 1..m : to[i] = SumFunctionOnSet(Parted(g, l, n, i), 1..n)
  BY DEF Grouped, RatedBy
<1> USE <1>0
<1>1. IsFiniteSet(D)
  BY Finite
<1>2. ASSUME NEW i, NEW k \in 0..n
      PROVE  T(k, i) \in Int
  <2>1. PICK K, x : K = 1..k /\ x = u(i)
    OBVIOUS
  <2>2. k \in Nat /\ IsFiniteSet(K)
    BY <2>1, Finite
  <2>3. \A j \in K : x[j] \in Int
    BY <2>1
  <2>4. SumFunctionOnSet(x, K) \in Int
    BY <2>2, <2>3, SumType
  <2> QED BY <2>1, <2>4
<1>3. ASSUME NEW i, NEW k \in 1..n
      PROVE  T(k, i) = T(k - 1, i) + (IF l[k] = i THEN g[k] ELSE 0)
  <2>1. PICK x : x = u(i)
    OBVIOUS
  <2>2. k \in Nat \ {0} /\ \A j \in 1..k : x[j] \in Int
    BY <2>1
  <2>3. SumFunctionOnSet(x, 1..k) = SumFunctionOnSet(x, 1..(k - 1)) + x[k]
    BY <2>2, SumUpTo
  <2>4. x[k] = IF l[k] = i THEN g[k] ELSE 0
    BY <2>1
  <2> QED BY <2>1, <2>3, <2>4
<1>4. \A j \in 1..n : w[j] = g[j] * c[l[j]] /\ w[j] \in Int
  OBVIOUS
<1>5. \A k \in 0..n : \A i \in D : v(k)[i] = T(k, i) * c[i]
  OBVIOUS
<1>6. 0 \in P
  <2>1. 1..0 = {} /\ 0 \in 0..n
    OBVIOUS
  <2>2. \A i \in D : v(0)[i] = 0
    <3> SUFFICES ASSUME NEW i \in D PROVE v(0)[i] = 0
      OBVIOUS
    <3>1. T(0, i) = 0
      BY <2>1, SumNone
    <3>2. c[i] \in Int /\ v(0)[i] = T(0, i) * c[i]
      BY <1>5, <2>1
    <3> HIDE DEF v, T
    <3> QED BY <3>1, <3>2
  <2>3. SumFunctionOnSet(v(0), D) = 0
    <3> HIDE DEF v
    <3> QED BY <1>1, <2>2, SumNothing
  <2>4. SumFunctionOnSet(w, {}) = 0
    BY SumNone
  <2> QED BY <2>1, <2>3, <2>4
<1> HIDE DEF v, w, T, D
<1>7. ASSUME NEW k \in 1..n, k - 1 \in P PROVE k \in P
  <2>1. k \in 0..n /\ k - 1 \in 0..n
    OBVIOUS
  <2>2. PICK x, a, y : x = v(k - 1) /\ a = l[k] /\ y = v(k)
    OBVIOUS
  <2>3. a \in D /\ g[k] \in Int
    BY <2>2 DEF D
  <2>4. \A i \in D : /\ x[i] = T(k - 1, i) * c[i] /\ y[i] = T(k, i) * c[i]
                     /\ T(k - 1, i) \in Int /\ T(k, i) \in Int /\ c[i] \in Int
    BY <1>2, <1>5, <2>1, <2>2 DEF D
  <2>5. \A i \in D : x[i] \in Int /\ y[i] \in Int
    BY <2>4
  <2>6. ASSUME NEW i \in D \ {a} PROVE x[i] = y[i]
    <3>1. T(k, i) = T(k - 1, i) + 0
      BY <1>3, <2>2
    <3>2. T(k, i) = T(k - 1, i)
      BY <2>4, <3>1
    <3> QED BY <2>4, <3>2
  <2>7. SumFunctionOnSet(y, D) = SumFunctionOnSet(x, D) + y[a] - x[a]
    BY <1>1, <2>3, <2>5, <2>6, SumMove
  <2>8. y[a] - x[a] = g[k] * c[a]
    <3>1. PICK t, h, d : t = T(k - 1, a) /\ h = g[k] /\ d = c[a]
      OBVIOUS
    <3>2. T(k, a) = t + h
      BY <1>3, <2>2, <3>1
    <3>3. t \in Int /\ h \in Int /\ d \in Int /\ x[a] = t * d /\ y[a] = (t + h) * d
      BY <2>3, <2>4, <3>1, <3>2
    <3>4. \A e, f, z \in Int : (e + f) * z - e * z = f * z
      OBVIOUS
    <3> QED BY <3>1, <3>3, <3>4
  <2>9. SumFunctionOnSet(w, 1..k) = SumFunctionOnSet(w, 1..(k - 1)) + w[k]
    <3>1. k \in Nat \ {0} /\ \A j \in 1..k : w[j] \in Int
      BY <1>4
    <3> QED BY <3>1, SumUpTo
  <2>10. w[k] = g[k] * c[a]
    BY <1>4, <2>2
  <2>11. SumFunctionOnSet(x, D) = SumFunctionOnSet(w, 1..(k - 1))
    BY <1>7, <2>2
  <2>12. SumFunctionOnSet(x, D) \in Int /\ x[a] \in Int /\ y[a] \in Int
    BY <1>1, <2>3, <2>5, SumType
  <2>13. SumFunctionOnSet(y, D) = SumFunctionOnSet(w, 1..k)
    BY <2>7, <2>8, <2>9, <2>10, <2>11, <2>12
  <2> QED BY <2>1, <2>2, <2>13
<1>8. n \in P
  <2> HIDE DEF P
  <2>1. \A i \in 0..n : i \in P
    BY <1>6, <1>7, UpTo
  <2>2. n \in 0..n
    OBVIOUS
  <2> QED BY <2>1, <2>2
<1>9. SumFunctionOnSet(v(n), D) = SumFunctionOnSet(w, 1..n)
  BY <1>8
<1>10. ASSUME NEW i \in D PROVE [j \in D |-> to[j] * c[j]][i] = v(n)[i]
  <2>1. to[i] = T(n, i) /\ n \in 0..n
    BY DEF T, D, Parted
  <2>2. v(n)[i] = T(n, i) * c[i]
    BY <1>5, <2>1
  <2> QED BY <2>1, <2>2
<1>11. SumFunctionOnSet([j \in D |-> to[j] * c[j]], D) = SumFunctionOnSet(v(n), D)
  <2>1. PICK x : x = [j \in D |-> to[j] * c[j]]
    OBVIOUS
  <2>2. \A i \in D : x[i] = v(n)[i]
    BY <1>10, <2>1
  <2>3. SumFunctionOnSet(x, D) = SumFunctionOnSet(v(n), D)
    BY <1>1, <2>2, SumSame
  <2> QED BY <2>1, <2>3
<1>12. AtRates(g, r, n) = w
  BY DEF AtRates, w
<1> QED BY <1>9, <1>11, <1>12 DEF D, AtRates

\* What an issue takes from the layers of w, they hold less.
LEMMA LayersTaken ==
  ASSUME NEW st \in Stocks, NEW w \in Warehouses, NEW q \in Nat, q <= LayerStock(st, w),
         NEW take, take = Take(st, w, q), NEW t \in Stocks, t.layers = Consume(st, take).layers
  PROVE  /\ Len(t.layers) = Len(st.layers)
         /\ \A i \in 1..Len(st.layers) :
              /\ take[i] \in Nat /\ t.layers[i].left = st.layers[i].left - take[i]
              /\ t.layers[i].wh = st.layers[i].wh
              /\ st.layers[i].wh # w => take[i] = 0
         /\ Holds(t, "pieces") = Holds(st, "pieces") - (IF w = Shop THEN q ELSE 0)
         /\ Holds(t, "value") = Holds(st, "value")
              - (IF w = Shop THEN Value(Consumptions(st, take)) ELSE 0)
<1>1. PICK n : n = Len(st.layers)
  OBVIOUS
<1> DEFINE D == 1..n
           d == [i \in 1..n |-> -take[i]]
           x(m) == MovesOf(st, d, m)
           v == TakenAtCost(st, take)
<1>2. /\ n \in Nat /\ IsFiniteSet(D) /\ DOMAIN st.layers = D /\ DOMAIN take = D
      /\ \A i \in D : st.layers[i] \in Layers /\ Has(st, w)[i] \in Nat
      /\ \A i \in D : take[i] \in 0..Has(st, w)[i]
      /\ LayerStock(st, w) \in Nat
      /\ SumFunctionOnSet(take, D) = AtMost(q, LayerStock(st, w))
  BY <1>1, LayerFacts, TakeIs, Finite
<1>3. SumFunctionOnSet(take, D) = q
  BY <1>2 DEF AtMost
<1>4. ASSUME NEW i \in D
      PROVE  /\ take[i] \in Nat /\ t.layers[i] = [st.layers[i] EXCEPT !.left = @ - take[i]]
             /\ st.layers[i].wh # w => take[i] = 0
  <2>1. st.layers[i].wh # w => Has(st, w)[i] = 0
    BY <1>2 DEF Has
  <2>2. take[i] \in Nat /\ (Has(st, w)[i] = 0 => take[i] = 0)
    BY <1>2
  <2>3. t.layers = [j \in DOMAIN st.layers |-> [st.layers[j] EXCEPT !.left = @ - take[j]]]
    BY DEF Consume
  <2> QED BY <1>2, <2>1, <2>2, <2>3
<1>5. Len(t.layers) = n
  <2>1. t.layers = [j \in DOMAIN st.layers |-> [st.layers[j] EXCEPT !.left = @ - take[j]]]
    BY DEF Consume
  <2>2. DOMAIN t.layers = D
    BY <1>2, <2>1
  <2>3. Len(t.layers) \in Nat /\ DOMAIN t.layers = 1..Len(t.layers)
    BY HoldsAre
  <2> QED BY <1>2, <2>2, <2>3
<1>6. ASSUME NEW i \in D
      PROVE  /\ t.layers[i].left = st.layers[i].left - take[i]
             /\ t.layers[i].wh = st.layers[i].wh /\ t.layers[i].cost = st.layers[i].cost
  BY <1>2, <1>4 DEF Layers
<1>7. Refilled(st, t, d)
  <2> SUFFICES ASSUME NEW i \in D
               PROVE  /\ d[i] \in Int /\ t.layers[i].left = st.layers[i].left + d[i]
                      /\ t.layers[i].wh = st.layers[i].wh /\ t.layers[i].cost = st.layers[i].cost
    BY <1>1, <1>5 DEF Refilled
  <2>1. PICK a, b : a = st.layers[i].left /\ b = take[i]
    OBVIOUS
  <2>2. a \in Nat /\ b \in Nat /\ d[i] = -b /\ t.layers[i].left = a - b
    BY <1>2, <1>4, <1>6, <2>1 DEF Layers
  <2> HIDE DEF d
  <2> QED BY <1>6, <2>1, <2>2
<1>8. ASSUME NEW m
      PROVE  /\ Holds(t, m) = Holds(st, m) + SumFunctionOnSet(x(m), D)
             /\ SumFunctionOnSet(x(m), D) \in Int /\ Holds(st, m) \in Nat
  <2>1. PICK e : e = d
    OBVIOUS
  <2>2. Refilled(st, t, e)
    BY <1>7, <2>1
  <2> HIDE DEF d
  <2>3. Holds(t, m) = Holds(st, m) + Moves(st, e, m) /\ Moves(st, e, m) \in Int
    BY <2>2, HoldsMoved
  <2>4. Holds(st, m) \in Nat
    BY HoldsAre
  <2>5. Moves(st, e, m) = SumFunctionOnSet(x(m), D)
    BY <1>2, <2>1 DEF Moves
  <2> QED BY <2>3, <2>4, <2>5
<1>9. CASE w = Shop
  <2>1. ASSUME NEW i \in D
        PROVE  /\ x("pieces")[i] = -take[i] /\ take[i] \in Int
               /\ x("value")[i] = -v[i] /\ v[i] \in Int
    <3>1. PICK a, c : a = take[i] /\ c = st.layers[i].cost
      OBVIOUS
    <3>2. a \in Nat /\ c \in Nat /\ a * c \in Nat
      BY <1>2, <1>4, <3>1, Products DEF Layers
    <3>3. d[i] = -a /\ v[i] = a * c
      BY <1>1, <3>1 DEF TakenAtCost
    <3>4. PICK b : b = -a
      OBVIOUS
    <3>5. b \in Int /\ (a = 0 => b = 0)
      BY <3>2, <3>4
    <3>6. b * 1 = b /\ 0 * 0 = 0 /\ 0 * c = 0
      BY <3>2, <3>5
    <3>7. b * c = -(a * c)
      BY <3>2, <3>4, NegatedProduct
    <3>8. st.layers[i].wh # Shop => a = 0
      BY <1>4, <1>9, <3>1
    <3>9. /\ Pay("pieces", st.layers[i]) = IF st.layers[i].wh # Shop THEN 0 ELSE 1
          /\ Pay("value", st.layers[i]) = IF st.layers[i].wh # Shop THEN 0 ELSE c
      BY <3>1 DEF Pay
    <3>10. /\ x("pieces")[i] = b * Pay("pieces", st.layers[i])
           /\ x("value")[i] = b * Pay("value", st.layers[i])
      BY <1>2, <3>3, <3>4 DEF MovesOf
    <3> HIDE DEF x, v
    <3>11. x("pieces")[i] = b
      BY <3>5, <3>6, <3>8, <3>9, <3>10
    <3>12. x("value")[i] = -v[i]
      <4>1. CASE a = 0
        <5>1. v[i] = 0 /\ b = 0
          BY <3>3, <3>5, <3>6, <4>1
        <5>2. x("value")[i] = 0
          <6>1. Pay("value", st.layers[i]) = 0 \/ Pay("value", st.layers[i]) = c
            BY <3>9
          <6> QED BY <3>6, <3>10, <5>1, <6>1
        <5> QED BY <5>1, <5>2
      <4>2. CASE a # 0
        BY <3>3, <3>7, <3>8, <3>9, <3>10, <4>2
      <4> QED BY <4>1, <4>2
    <3> QED BY <3>1, <3>2, <3>3, <3>4, <3>11, <3>12
  <2> HIDE DEF x, v
  <2>2. SumFunctionOnSet(x("pieces"), D) = -SumFunctionOnSet(take, D)
    <3>1. PICK y : y = x("pieces")
      OBVIOUS
    <3>2. \A i \in D : y[i] = -take[i] /\ take[i] \in Int
      BY <2>1, <3>1
    <3>3. IsFiniteSet(D)
      BY <1>2
    <3>4. SumFunctionOnSet(y, D) = -SumFunctionOnSet(take, D)
      BY <3>2, <3>3, SumOpposite
    <3> QED BY <3>1, <3>4
  <2>3. SumFunctionOnSet(x("value"), D) = -SumFunctionOnSet(v, D)
    <3>1. PICK y : y = x("value")
      OBVIOUS
    <3>2. \A i \in D : y[i] = -v[i] /\ v[i] \in Int
      BY <2>1, <3>1
    <3>3. IsFiniteSet(D)
      BY <1>2
    <3>4. SumFunctionOnSet(y, D) = -SumFunctionOnSet(v, D)
      BY <3>2, <3>3, SumOpposite
    <3> QED BY <3>1, <3>4
  <2>4. SumFunctionOnSet(v, D) = Value(Consumptions(st, take)) /\ SumFunctionOnSet(v, D) \in Int
    <3>1. SumFunctionOnSet(v, D) \in Int
      BY <1>2, <2>1, SumType
    <3>2. Value(Consumptions(st, take)) = SumFunctionOnSet(v, D)
      BY <1>1, <1>4, ConsumptionsWorth DEF v
    <3> QED BY <3>1, <3>2
  <2>5. PICK s : s = SumFunctionOnSet(v, D)
    OBVIOUS
  <2>6. Holds(t, "pieces") = Holds(st, "pieces") - q
    BY <1>3, <1>8, <2>2
  <2>7. Holds(t, "value") = Holds(st, "value") - s
    BY <1>8, <2>3, <2>4, <2>5
  <2> QED BY <1>1, <1>4, <1>5, <1>6, <1>9, <2>4, <2>5, <2>6, <2>7
<1>10. CASE w # Shop
  <2>1. ASSUME NEW m, NEW i \in D PROVE x(m)[i] = 0
    <3>1. PICK a, p : a = take[i] /\ p = Pay(m, st.layers[i])
      OBVIOUS
    <3>2. a \in Nat /\ p \in Nat /\ x(m)[i] = (-a) * p
      BY <1>2, <1>4, <3>1, PayNat DEF MovesOf
    <3>3. a = 0 \/ p = 0
      BY <1>4, <1>10, <3>1 DEF Pay
    <3>4. (-0) * p = 0 /\ (-a) * 0 = 0
      BY <3>2
    <3> QED BY <3>2, <3>3, <3>4
  <2> HIDE DEF x
  <2>2. ASSUME NEW m PROVE Holds(t, m) = Holds(st, m) - 0
    <3>1. PICK y : y = x(m)
      OBVIOUS
    <3>2. SumFunctionOnSet(y, D) = 0
      BY <1>2, <2>1, <3>1, SumNothing
    <3> QED BY <1>8, <3>1, <3>2
  <2> QED BY <1>1, <1>4, <1>5, <1>6, <1>10, <2>2
<1> QED BY <1>9, <1>10

\* The rows are of layers of the shop.
OwnRows(st, rows) ==
  \A i \in 1..Len(st.layers) : st.layers[i].wh # Shop => Weight(rows, Of(i)) = 0

\* Goods that go between the layers of a stock and the rows of a sale.  What a
\* layer loses the rows take, and what they give back it has again; where the
\* layer is of another warehouse neither changes; and new layers are the shop's.
Flow(st, rows, t, us) ==
  /\ Len(st.layers) <= Len(t.layers)
  /\ \A i \in 1..Len(st.layers) :
       /\ t.layers[i].wh = st.layers[i].wh
       /\ t.layers[i].left + Weight(us, Of(i)) = st.layers[i].left + Weight(rows, Of(i))
       /\ st.layers[i].wh # Shop => Weight(us, Of(i)) = Weight(rows, Of(i))
  /\ \A i \in 1..Len(t.layers) : i > Len(st.layers) => t.layers[i].wh = Shop

\* Goods that flow twice have flowed.
LEMMA FlowMore ==
  ASSUME NEW st \in Stocks, NEW t \in Stocks, NEW u \in Stocks, NEW rows, NEW us, NEW vs,
         Flow(st, rows, t, us), Flow(t, us, u, vs)
  PROVE  Flow(st, rows, u, vs)
<1>1. PICK n, m, k : n = Len(st.layers) /\ m = Len(t.layers) /\ k = Len(u.layers)
  OBVIOUS
<1>2. n \in Nat /\ m \in Nat /\ k \in Nat
  BY <1>1, HoldsAre
<1>3. n <= m /\ m <= k /\ n <= k
  BY <1>1, <1>2 DEF Flow
<1>4. ASSUME NEW i \in 1..n
      PROVE  /\ u.layers[i].wh = st.layers[i].wh
             /\ u.layers[i].left + Weight(vs, Of(i)) = st.layers[i].left + Weight(rows, Of(i))
             /\ st.layers[i].wh # Shop => Weight(vs, Of(i)) = Weight(rows, Of(i))
  <2>1. i \in 1..m
    BY <1>2, <1>3
  <2> QED BY <1>1, <2>1 DEF Flow
<1>5. ASSUME NEW i \in 1..k, i > n PROVE u.layers[i].wh = Shop
  <2>1. CASE i > m
    BY <1>1, <2>1 DEF Flow
  <2>2. CASE ~(i > m)
    <3>1. i \in 1..m
      BY <1>2, <1>3, <2>2
    <3>2. t.layers[i].wh = Shop
      BY <1>1, <1>5, <3>1 DEF Flow
    <3> QED BY <1>1, <3>1, <3>2 DEF Flow
  <2> QED BY <2>1, <2>2
<1> QED BY <1>1, <1>3, <1>4, <1>5 DEF Flow

\* Layers that stay have had nothing flow.
LEMMA FlowNone ==
  ASSUME NEW st \in Stocks, NEW t \in Stocks, t.layers = st.layers, NEW rows
  PROVE  Flow(st, rows, t, rows) /\ \A m : Holds(t, m) = Holds(st, m)
<1>1. Len(st.layers) \in Nat
  BY HoldsAre
<1>2. Flow(st, rows, t, rows)
  BY <1>1 DEF Flow
<1>3. \A m : Holds(t, m) = Holds(st, m)
  BY DEF Holds, HoldsOf
<1> QED BY <1>2, <1>3

\* Rows of the shop's layers stay so.
LEMMA FlowOwn ==
  ASSUME NEW st \in Stocks, NEW t \in Stocks, NEW rows, NEW us,
         OwnRows(st, rows), Flow(st, rows, t, us)
  PROVE  OwnRows(t, us)
<1> SUFFICES ASSUME NEW i \in 1..Len(t.layers), t.layers[i].wh # Shop
             PROVE  Weight(us, Of(i)) = 0
  BY DEF OwnRows
<1>1. Len(st.layers) \in Nat /\ Len(t.layers) \in Nat
  BY HoldsAre
<1>2. ~(i > Len(st.layers))
  BY DEF Flow
<1>3. i \in 1..Len(st.layers)
  BY <1>1, <1>2
<1>4. /\ t.layers[i].wh = st.layers[i].wh
      /\ st.layers[i].wh # Shop => Weight(us, Of(i)) = Weight(rows, Of(i))
  BY <1>3 DEF Flow
<1> QED BY <1>3, <1>4 DEF OwnRows

(***************************************************************************)
(* The tills: what a sale takes                                            *)
(***************************************************************************)
\* The rows a sale writes are of layers there are.
LEMMA TakenRowsAre ==
  ASSUME NEW n \in Nat, NEW take, DOMAIN take = 1..n, \A i \in 1..n : take[i] \in Nat
  PROVE  TakenRows(take) \in Seq(Takings(n))
<1> DEFINE rows == [i \in DOMAIN take |-> [layer |-> i, qty |-> take[i]]]
           none == [r \in Takings(n) |-> 0]
<1>1. rows \in [1..n -> Takings(n)]
  BY DEF Takings
<1>2. TakenRows(take) = IF Method = "fifo" THEN Filled(rows) ELSE Reverse(Filled(rows))
  BY DEF TakenRows
<1> HIDE DEF rows
<1>3. rows \in Seq(Takings(n))
  BY <1>1, FunctionIsSeq
<1>4. none \in [Takings(n) -> Int] /\ \A r \in Takings(n) : r.qty > 0 \/ none[r] = 0
  OBVIOUS
<1> HIDE DEF none
<1>5. Filled(rows) \in Seq(Takings(n))
  BY <1>3, <1>4, FilledKeeps
<1>6. Reverse(Filled(rows)) \in Seq(Takings(n))
  BY <1>5, Reversed
<1> QED BY <1>2, <1>5, <1>6

\* What a sale has done so far.
SaleAcc ==
  {acc \in [ok : BOOLEAN, stock : Stocks, cost : Int, unit : Nat,
            taken : Seq([layer : Nat, qty : Nat]), mixed : BOOLEAN] :
     acc.taken \in Seq(Takings(Len(acc.stock.layers)))}

\* A line that can be sold takes its pieces from the shop's shelf, and its rows
\* are of layers there are.
LEMMA SellLineIs ==
  ASSUME NEW acc \in SaleAcc, NEW q \in Nat \ {0}
  PROVE  /\ SellLine(acc, q) \in SaleAcc
         /\ SellLine(acc, q).ok =>
              /\ acc.ok
              /\ Shift(acc.stock, SellLine(acc, q).stock, q, {Shop}, {}, {}, {})
              /\ Covered(acc.stock) => Covered(SellLine(acc, q).stock)
<1>1. PICK st : st = acc.stock
  OBVIOUS
<1> DEFINE issue == Issue(st, Shop, q, st.price)
           take == Take(st, Shop, q)
           t == [issue.stock EXCEPT !.inv[Shop].qty = @ - q]
           rows == IF Layered(st) THEN acc.taken \o TakenRows(take) ELSE acc.taken
           cost == acc.cost + Cents(issue.value)
           unit == HalfUp(issue.value, q)
           mix == acc.mixed \/ ~Layered(st)
           new == SellLine(acc, q)
<1>2. /\ st \in Stocks /\ acc.ok \in BOOLEAN /\ acc.cost \in Int /\ acc.unit \in Nat
      /\ acc.mixed \in BOOLEAN /\ acc.taken \in Seq(Takings(Len(st.layers)))
      /\ acc.taken \in Seq([layer : Nat, qty : Nat])
  BY <1>1 DEF SaleAcc
<1>3. /\ Shop \in Warehouses /\ q \in Nat /\ st.price \in Nat
  BY <1>2, TillAssumption DEF Stocks
<1>4. new = IF ~acc.ok \/ ~issue.ok \/ ~Sellable(st, q)
            THEN [acc EXCEPT !.ok = FALSE]
            ELSE [ok |-> TRUE, stock |-> t, cost |-> cost, unit |-> unit, taken |-> rows, mixed |-> mix]
  BY <1>1 DEF SellLine
<1>5. issue.stock \in Stocks /\ issue.stock.inv = st.inv /\ issue.value \in Nat
  <2> HIDE DEF issue
  <2>1. PICK p : p = st.price
    OBVIOUS
  <2>2. issue = Issue(st, Shop, q, p) /\ p \in Nat
    BY <1>3, <2>1 DEF issue
  <2>3. /\ Issue(st, Shop, q, p).stock \in Stocks /\ Issue(st, Shop, q, p).stock.inv = st.inv
        /\ Issue(st, Shop, q, p).value \in Nat
    BY <1>2, <1>3, <2>2, IssueIs
  <2> QED BY <2>2, <2>3
<1>6. CASE ~acc.ok \/ ~issue.ok \/ ~Sellable(st, q)
  <2>1. new = [acc EXCEPT !.ok = FALSE]
    BY <1>4, <1>6
  <2> HIDE DEF new
  <2>2. new \in SaleAcc /\ new.ok = FALSE
    BY <2>1 DEF SaleAcc
  <2> QED BY <2>2 DEF new
<1>7. CASE acc.ok /\ issue.ok /\ Sellable(st, q)
  <2>1. new = [ok |-> TRUE, stock |-> t, cost |-> cost, unit |-> unit, taken |-> rows, mixed |-> mix]
    BY <1>4, <1>7
  <2>2. Shelved(st, t, q, {Shop}, {})
    <3>1. PICK p, u, x : p = st.price /\ u = t /\ x = issue.stock
      OBVIOUS
    <3>2. u = [x EXCEPT !.inv[Shop].qty = @ - q] /\ x.inv = st.inv /\ p \in Nat
      BY <1>3, <1>5, <3>1
    <3>3. u = SetQty(x, Shop, st.inv[Shop].qty - q)
      BY <3>2 DEF SetQty
    <3>4. x = Issue(st, Shop, q, p).stock /\ Issue(st, Shop, q, p).ok
      BY <1>7, <3>1
    <3>5. Free(st.inv[Shop]) - q >= 0
      <4>1. Free(st.inv[Shop]) >= q
        BY <1>7 DEF Sellable
      <4>2. Free(st.inv[Shop]) \in Int
        BY <1>2, <1>3, RowFacts DEF Free
      <4> QED BY <1>3, <4>1, <4>2
    <3>6. u = SetQty(Issue(st, Shop, q, p).stock, Shop, st.inv[Shop].qty - q)
      BY <3>3, <3>4
    <3> HIDE DEF t, issue
    <3>7. Shelved(st, u, q, {Shop}, {})
      BY <1>2, <1>3, <3>2, <3>4, <3>5, <3>6, IssuedIs
    <3> QED BY <3>1, <3>7
  <2>3. cost \in Int /\ unit \in Nat /\ mix \in BOOLEAN
    <3>1. PICK v : v = issue.value
      OBVIOUS
    <3>2. v \in Nat /\ Cents(v) \in Int /\ HalfUp(v, q) \in Nat
      BY <1>5, <3>1, CentsInt, HalfUpNat
    <3>3. cost = acc.cost + Cents(v) /\ unit = HalfUp(v, q)
      BY <3>1
    <3> HIDE DEF cost, unit
    <3> QED BY <1>2, <3>2, <3>3
  <2> HIDE DEF t, cost, unit, mix, issue
  <2>4. t \in Stocks /\ Shift(st, t, q, {Shop}, {}, {}, {}) /\ (Covered(st) => Covered(t))
    BY <2>2 DEF Shelved
  <2>5. rows \in Seq(Takings(Len(st.layers)))
    <3>1. TakenRows(take) \in Seq(Takings(Len(st.layers)))
      <4>1. Len(st.layers) \in Nat
        BY <1>2, <1>3, LayerFacts
      <4>2. DOMAIN take = 1..Len(st.layers)
        BY <1>2, <1>3, TakeIs
      <4>3. ASSUME NEW i \in 1..Len(st.layers) PROVE take[i] \in Nat
        <5>1. take[i] \in 0..Has(st, Shop)[i] /\ Has(st, Shop)[i] \in Nat
          BY <1>2, <1>3, TakeIs, LayerFacts
        <5> QED BY <5>1
      <4> HIDE DEF take
      <4> QED BY <4>1, <4>2, <4>3, TakenRowsAre
    <3> HIDE DEF take
    <3>2. acc.taken \o TakenRows(take) \in Seq(Takings(Len(st.layers)))
      BY <1>2, <3>1, ConcatProperties
    <3> QED BY <1>2, <3>2
  <2> HIDE DEF rows
  <2>6. rows \in Seq(Takings(Len(t.layers)))
    <3>1. Len(st.layers) \in Nat /\ Len(t.layers) \in Nat
      BY <1>2, <1>3, <2>4, LayerFacts
    <3>2. Len(st.layers) <= Len(t.layers)
      BY <2>4 DEF Shift, Kept
    <3> QED BY <2>5, <3>1, <3>2, RowsWider
  <2>7. rows \in Seq([layer : Nat, qty : Nat])
    <3>1. PICK n : n = Len(t.layers)
      OBVIOUS
    <3>2. n \in Nat /\ Takings(n) \subseteq [layer : Nat, qty : Nat]
      <4>1. n \in Nat
        BY <1>3, <2>4, <3>1, LayerFacts
      <4> QED BY <4>1 DEF Takings
    <3> QED BY <2>6, <3>1, <3>2, Wider
  <2>8. new \in SaleAcc /\ new.stock = t
    <3> HIDE DEF new
    <3> QED BY <2>1, <2>3, <2>4, <2>6, <2>7 DEF SaleAcc
  <2> QED BY <1>1, <1>7, <2>4, <2>8
<1> QED BY <1>6, <1>7

\* What lines of a sale, m of them with n pieces, do to the shop's layers: goods
\* flow to its rows, and while all goods move by layers these lose the pieces
\* and what they cost, but for rounding.
SoldFlows(st, mix, m, n, acc) ==
  acc.ok =>
    /\ Flow(st, <<>>, acc.stock, acc.taken)
    /\ mix => acc.mixed
    /\ Holds(acc.stock, "pieces") \in {0, Holds(st, "pieces") - n}
    /\ \/ acc.mixed
       \/ /\ Holds(acc.stock, "pieces") = Holds(st, "pieces") - n
          /\ 2 * ((Holds(acc.stock, "value") + acc.cost) - Holds(st, "value"))
               \in (-(100 * m))..(100 * m)

\* One line of a sale does so.
LEMMA SellLineFlows ==
  ASSUME NEW acc \in SaleAcc, NEW q \in Nat \ {0}, NEW new, new = SellLine(acc, q), new.ok
  PROVE  /\ Flow(acc.stock, acc.taken, new.stock, new.taken)
         /\ acc.mixed => new.mixed
         /\ Holds(new.stock, "pieces") \in {0, Holds(acc.stock, "pieces") - q}
         /\ \/ new.mixed
            \/ /\ Holds(new.stock, "pieces") = Holds(acc.stock, "pieces") - q
               /\ 2 * ((Holds(new.stock, "value") + new.cost)
                         - (Holds(acc.stock, "value") + acc.cost)) \in (-100)..100
<1>1. PICK st, n : st = acc.stock /\ n = Len(st.layers)
  OBVIOUS
<1> DEFINE take == Take(st, Shop, q)
           issue == Issue(st, Shop, q, st.price)
           t == [issue.stock EXCEPT !.inv[Shop].qty = @ - q]
           rows == IF Layered(st) THEN acc.taken \o TakenRows(take) ELSE acc.taken
           cost == acc.cost + Cents(issue.value)
           unit == HalfUp(issue.value, q)
           mix == acc.mixed \/ ~Layered(st)
<1>2. /\ st \in Stocks /\ acc.ok \in BOOLEAN /\ acc.cost \in Int
      /\ acc.taken \in Seq(Takings(n)) /\ q \in Nat /\ Shop \in Warehouses
  BY <1>1, TillAssumption DEF SaleAcc
<1>3. /\ n \in Nat /\ \A i \in 1..n : st.layers[i] \in Layers
  BY <1>1, <1>2, HoldsAre
<1>4. acc.ok /\ issue.ok /\ Sellable(st, q)
  <2>1. new = IF ~acc.ok \/ ~issue.ok \/ ~Sellable(st, q)
              THEN [acc EXCEPT !.ok = FALSE]
              ELSE [ok |-> TRUE, stock |-> t, cost |-> cost, unit |-> unit, taken |-> rows, mixed |-> mix]
    BY <1>1 DEF SellLine
  <2>2. [acc EXCEPT !.ok = FALSE].ok = FALSE
    BY DEF SaleAcc
  <2> HIDE DEF t, cost, unit, rows, mix, issue
  <2> QED BY <2>1, <2>2
<1>5. new = [ok |-> TRUE, stock |-> t, cost |-> cost, unit |-> unit, taken |-> rows, mixed |-> mix]
  BY <1>1, <1>4 DEF SellLine
<1>6. new.stock = t /\ new.cost = cost /\ new.taken = rows /\ new.mixed = mix
  <2> HIDE DEF t, cost, unit, rows, mix
  <2> QED BY <1>5
<1>7. new.stock \in Stocks
  <2>1. SellLine(acc, q) \in SaleAcc
    BY SellLineIs
  <2> QED BY <2>1 DEF SaleAcc
<1>8. new.stock.layers = issue.stock.layers /\ issue.value \in Nat
  <2>1. PICK p, x : p = st.price /\ x = issue
    OBVIOUS
  <2>2. x = Issue(st, Shop, q, p) /\ p \in Nat
    BY <1>2, <2>1 DEF Stocks
  <2>3. x.stock \in Stocks /\ x.value \in Nat
    BY <1>2, <2>2, IssueIs
  <2>4. PICK y : y = x.stock
    OBVIOUS
  <2>5. [y EXCEPT !.inv[Shop].qty = @ - q].layers = y.layers
    BY <2>3, <2>4 DEF Stocks
  <2> QED BY <1>6, <2>1, <2>3, <2>4, <2>5
<1>9. Holds(st, "pieces") \in Nat /\ Holds(st, "value") \in Nat
      /\ Holds(new.stock, "pieces") \in Nat /\ Holds(new.stock, "value") \in Nat
  BY <1>2, <1>7, HoldsAre
<1>10. CASE ~Layered(st)
  <2>1. issue.stock = st
    BY <1>10 DEF Issue
  <2>2. rows = acc.taken /\ mix
    BY <1>10
  <2> HIDE DEF t, cost, unit, rows, mix, issue
  <2>3. new.stock.layers = st.layers
    BY <1>8, <2>1
  <2>4. Flow(st, acc.taken, new.stock, acc.taken) /\ \A m : Holds(new.stock, m) = Holds(st, m)
    BY <1>2, <1>7, <2>3, FlowNone
  <2>5. Holds(st, "pieces") = 0
    <3>1. Holds(st, "pieces") = LayerStock(st, Shop)
      BY <1>2, HoldsAre
    <3> QED BY <1>2, <1>10, <3>1, NothingLayered
  <2>6. Holds(new.stock, "pieces") = 0
    BY <2>4, <2>5
  <2> QED BY <1>1, <1>6, <2>2, <2>4, <2>6
<1>11. CASE Layered(st)
  <2>1. /\ issue.stock = Consume(st, take) /\ issue.value = Value(Consumptions(st, take))
        /\ issue.ok = CanConsume(st, Shop, q)
    BY <1>11 DEF Issue
  <2>2. rows = acc.taken \o TakenRows(take)
    BY <1>11
  <2>3. PICK tk, v, u : tk = take /\ v = Value(Consumptions(st, take)) /\ u = new.stock
    OBVIOUS
  <2> HIDE DEF t, unit, rows, mix, issue
  <2>4. q <= LayerStock(st, Shop)
    BY <1>4, <2>1 DEF CanConsume
  <2>5. tk = Take(st, Shop, q) /\ u.layers = Consume(st, tk).layers /\ u \in Stocks
    BY <1>7, <1>8, <2>1, <2>3
  <2> HIDE DEF take
  <2>6. /\ Len(u.layers) = n
        /\ \A i \in 1..n : /\ tk[i] \in Nat /\ u.layers[i].left = st.layers[i].left - tk[i]
                           /\ u.layers[i].wh = st.layers[i].wh
                           /\ st.layers[i].wh # Shop => tk[i] = 0
        /\ Holds(u, "pieces") = Holds(st, "pieces") - q
        /\ Holds(u, "value") = Holds(st, "value") - Value(Consumptions(st, tk))
    <3>1. PICK s, w : s = st /\ w = Shop
      OBVIOUS
    <3>2. s \in Stocks /\ w \in Warehouses /\ q \in Nat
      BY <1>2, <3>1
    <3>3. /\ q <= LayerStock(s, w) /\ tk = Take(s, w, q)
          /\ u \in Stocks /\ u.layers = Consume(s, tk).layers
      BY <2>4, <2>5, <3>1
    <3>4. /\ Len(u.layers) = Len(s.layers)
          /\ \A i \in 1..Len(s.layers) :
               /\ tk[i] \in Nat /\ u.layers[i].left = s.layers[i].left - tk[i]
               /\ u.layers[i].wh = s.layers[i].wh
               /\ s.layers[i].wh # w => tk[i] = 0
          /\ Holds(u, "pieces") = Holds(s, "pieces") - (IF w = Shop THEN q ELSE 0)
          /\ Holds(u, "value") = Holds(s, "value")
               - (IF w = Shop THEN Value(Consumptions(s, tk)) ELSE 0)
      BY <3>2, <3>3, LayersTaken
    <3>5. /\ Holds(u, "pieces") = Holds(s, "pieces") - q
          /\ Holds(u, "value") = Holds(s, "value") - Value(Consumptions(s, tk))
      BY <3>1, <3>4
    <3>6. Len(s.layers) = n
      BY <1>1, <3>1
    <3>7. \A i \in 1..n : /\ tk[i] \in Nat /\ u.layers[i].left = s.layers[i].left - tk[i]
                          /\ u.layers[i].wh = s.layers[i].wh
                          /\ s.layers[i].wh # w => tk[i] = 0
      BY <3>4, <3>6
    <3> QED BY <3>1, <3>4, <3>5, <3>6, <3>7
  <2>7. Holds(u, "pieces") = Holds(st, "pieces") - q /\ Holds(u, "value") = Holds(st, "value") - v
    BY <2>3, <2>6
  <2>8. new.cost = acc.cost + Cents(v)
    BY <1>6, <2>1, <2>3
  <2> HIDE DEF cost
  <2>9. 2 * ((Holds(u, "value") + new.cost) - (Holds(st, "value") + acc.cost)) \in (-100)..100
    <3>1. v \in Nat
      BY <1>8, <2>1, <2>3
    <3>2. Cents(v) \in Nat /\ 2 * (Cents(v) - v) \in (-100)..100
      BY <3>1, CentsClose
    <3>3. PICK a, b, c, d, e : a = Holds(u, "value") /\ b = Holds(st, "value") /\ c = acc.cost
                               /\ d = Cents(v) /\ e = new.cost
      OBVIOUS
    <3>4. /\ a = b - v /\ e = c + d /\ b \in Nat /\ c \in Int /\ d \in Nat
          /\ 2 * (d - v) \in (-100)..100
      BY <1>2, <1>9, <2>7, <2>8, <3>2, <3>3
    <3>5. (a + e) - (b + c) = d - v
      BY <3>1, <3>4
    <3> QED BY <3>3, <3>4, <3>5
  <2>10. Flow(st, acc.taken, u, new.taken)
    <3>1. new.taken = acc.taken \o TakenRows(tk)
      BY <1>6, <2>2, <2>3
    <3>2. DOMAIN tk = 1..n /\ \A i \in 1..n : tk[i] \in Nat
      BY <1>1, <1>2, <2>5, <2>6, TakeIs, SMTT(30)
    <3>3. /\ TakenRows(tk) \in Seq(Taking)
          /\ \A i \in 1..n : Weight(TakenRows(tk), Of(i)) = tk[i]
      BY <1>3, <3>2, TakenRowsWeigh
    <3>4. acc.taken \in Seq(Taking)
      <4>1. Takings(n) \subseteq Taking
        BY <1>3 DEF Takings, Taking
      <4>2. PICK S, T : S = Takings(n) /\ T = Taking
        OBVIOUS
      <4> QED BY <1>2, <4>1, <4>2, Wider
    <3>5. ASSUME NEW i \in 1..n
          PROVE  /\ u.layers[i].wh = st.layers[i].wh
                 /\ u.layers[i].left + Weight(new.taken, Of(i))
                      = st.layers[i].left + Weight(acc.taken, Of(i))
                 /\ st.layers[i].wh # Shop => Weight(new.taken, Of(i)) = Weight(acc.taken, Of(i))
      <4>1. PICK S, f, r, s : S = Taking /\ f = Of(i) /\ r = acc.taken /\ s = TakenRows(tk)
        OBVIOUS
      <4>2. r \in Seq(S) /\ s \in Seq(S) /\ \A e \in S : f[e] \in Int
        BY <3>3, <3>4, <4>1, OfIs
      <4>3. Weight(r \o s, f) = Weight(r, f) + Weight(s, f)
        BY <4>2, WeightConcat
      <4>4. Weight(r, f) \in Int
        <5>1. PICK k : k = Len(r)
          OBVIOUS
        <5>2. PICK x : x = [j \in 1..k |-> f[r[j]]]
          OBVIOUS
        <5>3. r \in Seq(S) /\ \A e \in S : f[e] \in Int
          BY <4>2
        <5>4. \A j \in 1..k : x[j] = f[r[j]]
          BY <5>2
        <5> QED BY <5>1, <5>3, <5>4, WeightIs
      <4>5. PICK a, b, c : a = Weight(r, f) /\ b = tk[i] /\ c = st.layers[i].left
        OBVIOUS
      <4>6. a \in Int /\ b \in Nat /\ c \in Nat
        BY <1>3, <2>6, <4>4, <4>5 DEF Layers
      <4>7. Weight(new.taken, Of(i)) = a + b
        BY <3>1, <3>3, <4>1, <4>3, <4>5
      <4>8. u.layers[i].wh = st.layers[i].wh /\ u.layers[i].left = c - b
            /\ (st.layers[i].wh # Shop => b = 0)
        BY <2>6, <4>5
      <4>9. (c - b) + (a + b) = c + a /\ (b = 0 => a + b = a)
        BY <4>6
      <4> QED BY <4>1, <4>5, <4>7, <4>8, <4>9
    <3> QED BY <1>1, <1>3, <2>6, <3>5 DEF Flow
  <2>11. acc.mixed => new.mixed
    BY <1>6 DEF mix
  <2> QED BY <1>1, <2>3, <2>7, <2>9, <2>10, <2>11
<1> QED BY <1>10, <1>11

\* Lines and one more.
LEMMA SoldFlowsMore ==
  ASSUME NEW st \in Stocks, NEW mix \in BOOLEAN, NEW m \in Nat, NEW n \in Nat,
         NEW q \in Nat \ {0}, NEW acc \in SaleAcc, SoldFlows(st, mix, m, n, acc)
  PROVE  SoldFlows(st, mix, m + 1, n + q, SellLine(acc, q))
<1>1. PICK new : new = SellLine(acc, q)
  OBVIOUS
<1>2. new \in SaleAcc /\ (new.ok => acc.ok)
  BY <1>1, SellLineIs
<1> SUFFICES ASSUME new.ok PROVE SoldFlows(st, mix, m + 1, n + q, new)
  BY <1>1 DEF SoldFlows
<1>3. /\ Flow(acc.stock, acc.taken, new.stock, new.taken)
      /\ acc.mixed => new.mixed
      /\ Holds(new.stock, "pieces") \in {0, Holds(acc.stock, "pieces") - q}
      /\ \/ new.mixed
         \/ /\ Holds(new.stock, "pieces") = Holds(acc.stock, "pieces") - q
            /\ 2 * ((Holds(new.stock, "value") + new.cost)
                      - (Holds(acc.stock, "value") + acc.cost)) \in (-100)..100
  BY <1>1, SellLineFlows
<1>4. /\ Flow(st, <<>>, acc.stock, acc.taken)
      /\ mix => acc.mixed
      /\ Holds(acc.stock, "pieces") \in {0, Holds(st, "pieces") - n}
      /\ \/ acc.mixed
         \/ /\ Holds(acc.stock, "pieces") = Holds(st, "pieces") - n
            /\ 2 * ((Holds(acc.stock, "value") + acc.cost) - Holds(st, "value"))
                 \in (-(100 * m))..(100 * m)
  BY <1>2 DEF SoldFlows
<1>5. acc.stock \in Stocks /\ new.stock \in Stocks /\ acc.cost \in Int /\ new.cost \in Int
  BY <1>2 DEF SaleAcc
<1>6. Flow(st, <<>>, new.stock, new.taken)
  BY <1>3, <1>4, <1>5, FlowMore
<1>7. PICK a, b, c, x, y, z, d, e :
        /\ a = Holds(st, "pieces") /\ b = Holds(acc.stock, "pieces") /\ c = Holds(new.stock, "pieces")
        /\ x = Holds(st, "value") /\ y = Holds(acc.stock, "value") /\ z = Holds(new.stock, "value")
        /\ d = acc.cost /\ e = new.cost
  OBVIOUS
<1>8. /\ a \in Nat /\ b \in Nat /\ c \in Nat /\ x \in Nat /\ y \in Nat /\ z \in Nat
      /\ d \in Int /\ e \in Int
  BY <1>5, <1>7, HoldsAre
<1>9. c \in {0, b - q} /\ b \in {0, a - n}
  BY <1>3, <1>4, <1>7
<1>10. c \in {0, a - (n + q)}
  BY <1>8, <1>9
<1>11. new.mixed \/ (c = a - (n + q) /\ 2 * ((z + e) - x) \in (-(100 * (m + 1)))..(100 * (m + 1)))
  <2> SUFFICES ASSUME ~new.mixed
               PROVE  c = a - (n + q) /\ 2 * ((z + e) - x) \in (-(100 * (m + 1)))..(100 * (m + 1))
    OBVIOUS
  <2>1. /\ c = b - q /\ b = a - n
        /\ 2 * ((z + e) - (y + d)) \in (-100)..100
        /\ 2 * ((y + d) - x) \in (-(100 * m))..(100 * m)
    BY <1>3, <1>4, <1>7
  <2> QED BY <1>8, <2>1
<1>12. (mix => new.mixed)
  BY <1>3, <1>4
<1> QED BY <1>6, <1>7, <1>10, <1>11, <1>12 DEF SoldFlows

\* A sale takes its lines one after the other.
SoldLines(st, m, lines) ==
  FoldLeft(SellLine, [ok |-> TRUE, stock |-> st, cost |-> 0, unit |-> 0, taken |-> <<>>,
                      mixed |-> m], lines)

SoldUpTo(st, n, acc) ==
  acc.ok => /\ Shift(st, acc.stock, n, {Shop}, {}, {}, {})
            /\ Covered(st) => Covered(acc.stock)

\* One more line of a sale takes its pieces.
LEMMA SoldMore ==
  ASSUME NEW st \in Stocks, NEW n \in Nat, NEW q \in Nat \ {0},
         NEW acc \in SaleAcc, SoldUpTo(st, n, acc)
  PROVE  SoldUpTo(st, n + q, SellLine(acc, q))
<1>1. PICK new : new = SellLine(acc, q)
  OBVIOUS
<1>2. /\ new \in SaleAcc
      /\ new.ok => /\ acc.ok
                   /\ Shift(acc.stock, new.stock, q, {Shop}, {}, {}, {})
                   /\ Covered(acc.stock) => Covered(new.stock)
  BY <1>1, SellLineIs
<1> SUFFICES ASSUME new.ok
             PROVE  /\ Shift(st, new.stock, n + q, {Shop}, {}, {}, {})
                    /\ Covered(st) => Covered(new.stock)
  BY <1>1 DEF SoldUpTo
<1>3. Shift(st, acc.stock, n, {Shop}, {}, {}, {}) /\ (Covered(st) => Covered(acc.stock))
  BY <1>2 DEF SoldUpTo
<1>4. acc.stock \in Stocks /\ new.stock \in Stocks /\ q \in Nat
  BY <1>2 DEF SaleAcc
<1>5. Shift(st, new.stock, n + q, {Shop}, {}, {}, {})
  BY <1>2, <1>3, <1>4, ShiftMore
<1> QED BY <1>2, <1>3, <1>5

\* A sale takes what its lines say.
LEMMA SoldIs ==
  ASSUME NEW st \in Stocks, NEW m \in BOOLEAN, NEW lines \in Seq(Nat \ {0})
  PROVE  /\ SoldLines(st, m, lines) \in SaleAcc
         /\ SoldUpTo(st, SumLines(lines), SoldLines(st, m, lines))
         /\ SoldFlows(st, m, Len(lines), SumLines(lines), SoldLines(st, m, lines))
<1> DEFINE n == Len(lines)
           A == SaleAcc
           b == [ok |-> TRUE, stock |-> st, cost |-> 0, unit |-> 0, taken |-> <<>>, mixed |-> m]
           Op(a, q) == SellLine(a, q)
           step == [p \in A \X (1..n) |-> Op(p[1], lines[p[2]])]
           Fills(f) == f = [s \in SUBSET (1..n) |->
                              IF s = {} THEN b ELSE Op(f[s \ {Latest(s)}], lines[Latest(s)])]
           f == CHOOSE f : Fills(f)
           T(k) == SumFunctionOnSet(lines, 1..k)
<1>1. /\ n \in Nat /\ DOMAIN lines = 1..n /\ \A i \in 1..n : lines[i] \in Nat \ {0}
      /\ SumLines(lines) = T(n) /\ T(0) = 0
      /\ \A k \in 1..n : T(k) = T(k - 1) + lines[k]
      /\ \A k \in 0..n : T(k) \in Nat
  BY LinesFacts
<1>2. b \in A /\ \A a \in A, i \in 1..n : Op(a, lines[i]) \in A
  <2>1. b \in A
    <3>1. /\ <<>> \in Seq(Takings(Len(st.layers))) /\ <<>> \in Seq([layer : Nat, qty : Nat])
          /\ 0 \in Nat /\ 0 \in Int
      OBVIOUS
    <3>2. b.stock = st /\ b.taken = <<>>
      OBVIOUS
    <3> QED BY <3>1, <3>2 DEF SaleAcc
  <2>2. ASSUME NEW a \in A, NEW i \in 1..n PROVE Op(a, lines[i]) \in A
    BY <1>1, SellLineIs
  <2> HIDE DEF A, Op, b
  <2> QED BY <2>1, <2>2
<1>3. SoldLines(st, m, lines) = f[1..n]
  BY <1>1, Zenon DEF SoldLines, FoldLeft, MapThenFoldSet, Latest, Max
<1>4. step \in [A \X (1..n) -> A]
  <2> HIDE DEF Op, A
  <2> QED BY <1>2
<1> HIDE DEF T
<1>5. PICK h \in [SUBSET (1..n) -> A] : IsFold(h, b, step, n)
  <2> HIDE DEF step, A, b
  <2> QED BY <1>1, <1>2, <1>4, FoldExists
<1> HIDE DEF b
<1>6. Fills(h)
  <2>1. ASSUME NEW s \in SUBSET (1..n), s # {}
        PROVE  h[s] = Op(h[s \ {Latest(s)}], lines[Latest(s)])
    <3>1. Latest(s) \in 1..n
      BY <1>1, <2>1, LatestIn
    <3>2. h[s \ {Latest(s)}] \in A
      BY <1>5
    <3>3. h[s] = step[<<h[s \ {Latest(s)}], Latest(s)>>]
      BY <1>5, <2>1 DEF IsFold
    <3> HIDE DEF A, Op
    <3> QED BY <3>1, <3>2, <3>3
  <2>2. h[{}] = b
    <3>1. {} \in SUBSET (1..n)
      OBVIOUS
    <3> QED BY <1>5, <3>1 DEF IsFold
  <2> HIDE DEF Op
  <2> QED BY <1>5, <2>1, <2>2
<1>7. Fills(f)
  <2> HIDE DEF Fills
  <2> QED BY <1>6
<1>8. f[1..0] = b /\ \A k \in 1..n : f[1..k] = Op(f[1..(k - 1)], lines[k])
  <2> HIDE DEF Op, f
  <2>1. f[1..0] = b
    <3>1. 1..0 = {}
      OBVIOUS
    <3> QED BY <1>7, <3>1
  <2>2. ASSUME NEW k \in 1..n PROVE f[1..k] = Op(f[1..(k - 1)], lines[k])
    <3>1. k \in Nat \ {0} /\ 1..k \in SUBSET (1..n)
      BY <1>1
    <3>2. 1..k # {} /\ Latest(1..k) = k /\ (1..k) \ {Latest(1..k)} = 1..(k - 1)
      BY <3>1, PrefixOf
    <3> QED BY <1>7, <3>1, <3>2
  <2> QED BY <2>1, <2>2
<1> HIDE DEF f, Fills, step
<1> DEFINE P == {k \in 0..n : /\ f[1..k] \in A /\ SoldUpTo(st, T(k), f[1..k])
                             /\ SoldFlows(st, m, k, T(k), f[1..k])}
<1>9. 0 \in P
  <2>1. SoldUpTo(st, 0, b)
    <3>1. Shift(st, st, 0, {Shop}, {}, {}, {})
      BY ShiftNone
    <3> QED BY <3>1 DEF SoldUpTo, b
  <2>2. 0 \in 0..n
    BY <1>1
  <2>3. SoldFlows(st, m, 0, 0, b)
    <3>1. Flow(st, <<>>, st, <<>>)
      BY FlowNone
    <3>2. b.stock = st /\ b.taken = <<>> /\ b.cost = 0 /\ b.mixed = m
      BY DEF b
    <3>3. Holds(st, "pieces") \in Nat /\ Holds(st, "value") \in Nat
      BY HoldsAre
    <3>4. /\ Holds(st, "pieces") \in {0, Holds(st, "pieces") - 0}
          /\ Holds(st, "pieces") = Holds(st, "pieces") - 0
          /\ 2 * ((Holds(st, "value") + 0) - Holds(st, "value")) \in (-(100 * 0))..(100 * 0)
      BY <3>3
    <3> QED BY <3>1, <3>2, <3>4 DEF SoldFlows
  <2> QED BY <1>1, <1>2, <1>8, <2>1, <2>2, <2>3
<1>10. ASSUME NEW k \in 1..n, k - 1 \in P PROVE k \in P
  <2>1. PICK a, q, t : a = f[1..(k - 1)] /\ q = lines[k] /\ t = T(k - 1)
    OBVIOUS
  <2>2. a \in A /\ SoldUpTo(st, t, a) /\ SoldFlows(st, m, k - 1, t, a)
    BY <1>10, <2>1
  <2>3. q \in Nat \ {0} /\ t \in Nat /\ T(k) = t + q
    <3>1. k - 1 \in 0..n
      BY <1>1
    <3> QED BY <1>1, <2>1, <3>1
  <2>4. f[1..k] = Op(a, q)
    BY <1>8, <2>1
  <2>5. SoldUpTo(st, t + q, SellLine(a, q))
    BY <2>2, <2>3, SoldMore
  <2>8. SoldFlows(st, m, k, t + q, SellLine(a, q))
    <3>1. PICK j : j = k - 1
      OBVIOUS
    <3>2. j \in Nat /\ j + 1 = k
      BY <1>1, <3>1
    <3>3. SoldFlows(st, m, j + 1, t + q, SellLine(a, q))
      BY <2>2, <2>3, <3>1, <3>2, SoldFlowsMore
    <3> QED BY <3>2, <3>3
  <2>6. f[1..k] \in A
    <3> HIDE DEF Op
    <3>1. Op(a, q) \in A
      BY <1>2, <2>1, <2>2
    <3> QED BY <2>4, <3>1
  <2>7. k \in 0..n
    BY <1>1
  <2> QED BY <2>3, <2>4, <2>5, <2>6, <2>7, <2>8
<1>11. n \in P
  <2> HIDE DEF P
  <2>1. \A i \in 0..n : i \in P
    BY <1>1, <1>9, <1>10, UpTo
  <2>2. n \in 0..n
    BY <1>1
  <2> QED BY <2>1, <2>2
<1> QED BY <1>1, <1>3, <1>11


(***************************************************************************)
(* The tills: what a return gives back                                     *)
(***************************************************************************)
\* A return gives back no more of a row than was taken.
LEMMA GivenBackIs ==
  ASSUME NEW n \in Nat, NEW rows \in Seq(Takings(n)), NEW q \in Nat
  PROVE  /\ DOMAIN GivenBack(rows, q) = 1..Len(rows)
         /\ \A j \in 1..Len(rows) : GivenBack(rows, q)[j] \in 0..rows[j].qty
<1> DEFINE after(j) == SumOver((j + 1)..Len(rows), LAMBDA k : rows[k].qty)
<1>1. /\ Len(rows) \in Nat /\ DOMAIN rows = 1..Len(rows)
      /\ \A j \in 1..Len(rows) : rows[j] \in Takings(n)
  BY Elements
<1>2. ASSUME NEW j \in 1..Len(rows) PROVE after(j) \in Nat
  <2> DEFINE D == (j + 1)..Len(rows)
             w == [k \in D |-> rows[k].qty]
  <2>1. IsFiniteSet(D)
    <3>1. D \in SUBSET (1..Len(rows))
      BY <1>1
    <3>2. IsFiniteSet(1..Len(rows))
      BY <1>1, Finite
    <3> QED BY <3>1, <3>2, FS_Subset
  <2>2. \A k \in D : w[k] \in Nat
    BY <1>1 DEF Takings
  <2>3. after(j) = SumFunctionOnSet(w, D)
    BY DEF SumOver
  <2> HIDE DEF w, D, after
  <2> QED BY <2>1, <2>2, <2>3, SumNat
<1>3. GivenBack(rows, q)
        = [j \in DOMAIN rows |-> AtLeast(0, AtMost(rows[j].qty, q - after(j)))]
  BY DEF GivenBack
<1> HIDE DEF after
<1>4. ASSUME NEW j \in 1..Len(rows)
      PROVE  AtLeast(0, AtMost(rows[j].qty, q - after(j))) \in 0..rows[j].qty
  <2>1. PICK a, b : a = rows[j].qty /\ b = after(j)
    OBVIOUS
  <2>2. a \in Nat /\ b \in Nat
    BY <1>1, <1>2, <2>1 DEF Takings
  <2>3. AtLeast(0, AtMost(a, q - b)) \in 0..a
    BY <2>2 DEF AtLeast, AtMost
  <2> QED BY <2>1, <2>3
<1> QED BY <1>1, <1>3, <1>4

\* What rows keep after a return are rows.
LEMMA StillTakenIs ==
  ASSUME NEW n \in Nat, NEW rows \in Seq(Takings(n)), NEW give,
         \A j \in 1..Len(rows) : give[j] \in 0..rows[j].qty
  PROVE  StillTaken(rows, give) \in Seq(Takings(n))
<1> DEFINE left == [j \in DOMAIN rows |-> [rows[j] EXCEPT !.qty = @ - give[j]]]
           none == [r \in Takings(n) |-> 0]
<1>1. /\ Len(rows) \in Nat /\ DOMAIN rows = 1..Len(rows)
      /\ \A j \in 1..Len(rows) : rows[j] \in Takings(n)
  BY Elements
<1>2. ASSUME NEW j \in 1..Len(rows) PROVE left[j] \in Takings(n)
  <2>1. rows[j].qty \in Nat /\ give[j] \in 0..rows[j].qty
    BY <1>1 DEF Takings
  <2>2. rows[j].qty - give[j] \in Nat
    BY <2>1
  <2> QED BY <1>1, <2>2 DEF Takings
<1>3. left \in [1..Len(rows) -> Takings(n)]
  BY <1>1, <1>2
<1> HIDE DEF left
<1>4. left \in Seq(Takings(n))
  BY <1>1, <1>3, FunctionIsSeq
<1>5. none \in [Takings(n) -> Int] /\ \A r \in Takings(n) : r.qty > 0 \/ none[r] = 0
  OBVIOUS
<1> HIDE DEF none
<1>6. Filled(left) \in Seq(Takings(n))
  BY <1>4, <1>5, FilledKeeps
<1> QED BY <1>6 DEF StillTaken, left

\* Layers that get something back are still layers, of the same goods.
GivenTo(st, to) ==
  [st EXCEPT !.layers = [i \in DOMAIN st.layers |->
                           [st.layers[i] EXCEPT !.left = @ + to[i]]]]

\* Layers that get back goods stay layers.
LEMMA FilledUp ==
  ASSUME NEW st \in Stocks, NEW to, \A i \in 1..Len(st.layers) : to[i] \in Nat, NEW x,
         x = GivenTo(st, to)
  PROVE  x \in Stocks /\ x.inv = st.inv /\ Len(x.layers) = Len(st.layers)
<1> DEFINE ls == [i \in DOMAIN st.layers |-> [st.layers[i] EXCEPT !.left = @ + to[i]]]
<1>1. /\ Len(st.layers) \in Nat /\ DOMAIN st.layers = 1..Len(st.layers)
      /\ \A i \in 1..Len(st.layers) : st.layers[i] \in Layers
  <2>1. st.layers \in Seq(Layers)
    BY DEF Stocks
  <2> QED BY <2>1, Elements
<1>2. ASSUME NEW i \in 1..Len(st.layers) PROVE ls[i] \in Layers
  <2>1. st.layers[i].left + to[i] \in Nat
    BY <1>1 DEF Layers
  <2> QED BY <1>1, <2>1 DEF Layers
<1>3. ls \in [1..Len(st.layers) -> Layers]
  BY <1>1, <1>2
<1>4. x = [st EXCEPT !.layers = ls]
  BY Zenon DEF GivenTo
<1> HIDE DEF ls
<1>5. ls \in Seq(Layers) /\ Len(ls) = Len(st.layers)
  BY <1>1, <1>3, FunctionIsSeq
<1> QED BY <1>4, <1>5 DEF Stocks

\* What rows give back is no more than is asked.
LEMMA GivesNoMore ==
  ASSUME NEW n \in Nat, NEW rows \in Seq(Takings(n)), NEW q \in Nat,
         NEW give, give = GivenBack(rows, q)
  PROVE  SumTaken(give) \in Nat /\ SumTaken(give) <= q
<1> DEFINE m == Len(rows)
           D == 1..m
           has == [j \in D |-> rows[j].qty]
<1>1. /\ m \in Nat /\ DOMAIN rows = D /\ IsFiniteSet(D)
      /\ \A j \in D : rows[j] \in Takings(n)
  BY Elements
<1>2. DOMAIN give = D
  BY GivenBackIs
<1>3. \A j \in D : has[j] \in Nat
  BY <1>1 DEF Takings
<1>4. SumTaken(give) = SumFunctionOnSet(give, D)
  BY <1>2 DEF SumTaken, SumFunction
<1>5. SumFunctionOnSet(give, D) = AtMost(q, SumFunctionOnSet(has, D))
  <2>2. ASSUME NEW j \in D PROVE give[j] = Rest(has[j], q - SumFunctionOnSet(has, (j + 1)..m))
    <3>1. PICK K, v : K = (j + 1)..m /\ v = [k \in (j + 1)..m |-> rows[k].qty]
      OBVIOUS
    <3>2. K \in SUBSET D /\ IsFiniteSet(K)
      <4>1. K \in SUBSET D
        BY <1>1, <3>1
      <4>2. PICK E : E = D
        OBVIOUS
      <4>3. IsFiniteSet(E) /\ K \in SUBSET E
        BY <1>1, <4>1, <4>2
      <4>4. IsFiniteSet(K)
        BY <4>3, FS_Subset
      <4> QED BY <4>1, <4>4
    <3>3. \A k \in K : v[k] = has[k]
      BY <3>1, <3>2
    <3>4. SumFunctionOnSet(v, K) = SumFunctionOnSet(has, K)
      <4>1. PICK h : h = has
        OBVIOUS
      <4>2. \A k \in K : v[k] = h[k]
        BY <3>3, <4>1
      <4>3. SumFunctionOnSet(v, K) = SumFunctionOnSet(h, K)
        BY <3>2, <4>2, SumSame
      <4> QED BY <4>1, <4>3
    <3>5. give[j] = AtLeast(0, AtMost(rows[j].qty, q - SumFunctionOnSet(v, K)))
      BY <1>1, <3>1 DEF GivenBack, SumOver
    <3> QED BY <3>1, <3>4, <3>5 DEF Rest
  <2> HIDE DEF has
  <2> QED BY <1>1, <1>3, <2>2, TakeNewest
<1>6. SumFunctionOnSet(has, D) \in Nat
  <2> HIDE DEF has, D
  <2> QED BY <1>1, <1>3, SumNat
<1>7. SumTaken(give) \in Nat /\ SumTaken(give) <= q
  <2>1. PICK s : s = SumFunctionOnSet(has, D)
    OBVIOUS
  <2> HIDE DEF has, D
  <2> QED BY <1>4, <1>5, <1>6, <2>1 DEF AtMost
<1> QED BY <1>7

\* What the rows of a layer are.
RowsOf(rows, i) == {j \in DOMAIN rows : rows[j].layer = i}
LayersOf(rows)  == [j \in DOMAIN rows |-> rows[j].layer]
Gathered(to, give, rows, n) ==
  \A i \in 1..n : to[i] = SumFunctionOnSet(give, RowsOf(rows, i))

\* What rows give back to a layer is no more than they took from it, and so much
\* less is then taken from it.
LEMMA GivesBack ==
  ASSUME NEW n \in Nat, NEW rows \in Seq(Takings(n)), NEW q \in Nat,
         NEW give, give = GivenBack(rows, q), NEW to, Gathered(to, give, rows, n)
  PROVE  \A i \in 1..n :
           /\ to[i] \in Nat /\ to[i] <= Weight(rows, Of(i)) /\ Weight(rows, Of(i)) \in Nat
           /\ Weight(StillTaken(rows, give), Of(i)) = Weight(rows, Of(i)) - to[i]
           /\ to[i] = SumFunctionOnSet(Parted(give, LayersOf(rows), Len(rows), i), 1..Len(rows))
<1> DEFINE m == Len(rows)
           D == 1..m
           left == [j \in DOMAIN rows |-> [rows[j] EXCEPT !.qty = @ - give[j]]]
           u(i) == [j \in D |-> IF rows[j].layer = i THEN rows[j].qty ELSE 0]
           e(i) == [j \in D |-> IF rows[j].layer = i THEN give[j] ELSE 0]
           l(i) == [j \in D |-> IF rows[j].layer = i THEN rows[j].qty - give[j] ELSE 0]
<1>1. /\ m \in Nat /\ DOMAIN rows = D /\ IsFiniteSet(D)
      /\ \A j \in D : rows[j] \in Takings(n)
  BY Elements
<1>2. DOMAIN give = D /\ \A j \in D : give[j] \in 0..rows[j].qty
  BY GivenBackIs
<1>3. \A j \in D : /\ rows[j].qty \in Nat /\ rows[j].layer \in 1..n /\ rows[j] \in Taking
                   /\ give[j] \in Nat /\ rows[j].qty - give[j] \in Nat
  <2> HIDE DEF D
  <2> SUFFICES ASSUME NEW j \in D
               PROVE  /\ rows[j].qty \in Nat /\ rows[j].layer \in 1..n /\ rows[j] \in Taking
                      /\ give[j] \in Nat /\ rows[j].qty - give[j] \in Nat
    OBVIOUS
  <2>1. rows[j].qty \in Nat /\ rows[j].layer \in 1..n /\ rows[j] \in Taking
    BY <1>1 DEF Takings, Taking
  <2>2. PICK a, b : a = rows[j].qty /\ b = give[j]
    OBVIOUS
  <2>3. a \in Nat /\ b \in 0..a
    BY <1>2, <2>1, <2>2
  <2>4. b \in Nat /\ a - b \in Nat
    BY <2>3
  <2> QED BY <2>1, <2>2, <2>4
<1>8. ASSUME NEW i \in 1..n
      PROVE  /\ to[i] \in Nat /\ to[i] <= Weight(rows, Of(i)) /\ Weight(rows, Of(i)) \in Nat
             /\ Weight(StillTaken(rows, give), Of(i)) = Weight(rows, Of(i)) - to[i]
             /\ to[i] = SumFunctionOnSet(Parted(give, LayersOf(rows), Len(rows), i), 1..Len(rows))
  <2>1. PICK x, y, z : x = u(i) /\ y = e(i) /\ z = l(i)
    OBVIOUS
  <2>2. \A j \in D : /\ x[j] \in Nat /\ y[j] \in Nat /\ z[j] \in Nat
                     /\ x[j] \in Int /\ y[j] \in Int /\ z[j] \in Int /\ x[j] = z[j] + y[j]
    <3> SUFFICES ASSUME NEW j \in D
                 PROVE  /\ x[j] \in Nat /\ y[j] \in Nat /\ z[j] \in Nat
                        /\ x[j] \in Int /\ y[j] \in Int /\ z[j] \in Int /\ x[j] = z[j] + y[j]
      OBVIOUS
    <3>1. PICK a, b : a = rows[j].qty /\ b = give[j]
      OBVIOUS
    <3>2. /\ x[j] = IF rows[j].layer = i THEN a ELSE 0
          /\ y[j] = IF rows[j].layer = i THEN b ELSE 0
          /\ z[j] = IF rows[j].layer = i THEN a - b ELSE 0
      BY <2>1, <3>1
    <3>3. a \in Nat /\ b \in Nat /\ a - b \in Nat
      BY <1>3, <3>1
    <3> QED BY <3>2, <3>3
  <2>3. Weight(rows, Of(i)) = SumFunctionOnSet(x, D)
    <3>1. rows \in Seq(Taking)
      <4>1. rows \in [D -> Taking]
        BY <1>1, <1>3
      <4> QED BY <1>1, <4>1, FunctionIsSeq
    <3>2. PICK g : g = Of(i)
      OBVIOUS
    <3>3. ASSUME NEW j \in D PROVE x[j] = g[rows[j]]
      BY <1>3, <2>1, <3>2, OfIs
    <3>4. \A r \in Taking : g[r] \in Int
      BY <3>2, OfIs
    <3>5. Weight(rows, g) = SumFunctionOnSet(x, 1..Len(rows))
      BY <3>1, <3>3, <3>4, WeightIs
    <3> QED BY <3>2, <3>5
  <2>4. Weight(StillTaken(rows, give), Of(i)) = SumFunctionOnSet(z, D)
    <3>1. ASSUME NEW j \in D
          PROVE  left[j] \in Taking /\ left[j].qty = rows[j].qty - give[j] /\ left[j].layer = rows[j].layer
      <4>1. left[j] = [rows[j] EXCEPT !.qty = @ - give[j]]
        BY <1>1
      <4> HIDE DEF left, D
      <4> QED BY <1>3, <4>1 DEF Taking
    <3>2. left \in [D -> Taking]
      BY <1>1, <3>1
    <3>3. StillTaken(rows, give) = Filled(left)
      BY DEF StillTaken
    <3>4. PICK f, g : f = left /\ g = Of(i)
      OBVIOUS
    <3>5. f \in Seq(Taking) /\ Len(f) = m
      BY <1>1, <3>2, <3>4, FunctionIsSeq
    <3>6. ASSUME NEW j \in D PROVE z[j] = g[f[j]]
      <4>1. f[j] \in Taking /\ f[j].qty = rows[j].qty - give[j] /\ f[j].layer = rows[j].layer
        BY <3>1, <3>4
      <4>2. g[f[j]] = IF f[j].layer = i THEN f[j].qty ELSE 0
        BY <3>4, <4>1, OfIs
      <4>3. z[j] = IF rows[j].layer = i THEN rows[j].qty - give[j] ELSE 0
        BY <2>1
      <4> QED BY <4>1, <4>2, <4>3
    <3>7. g \in [Taking -> Int] /\ \A r \in Taking : r.qty > 0 \/ g[r] = 0
      BY <3>4, OfIs
    <3>8. \A r \in Taking : g[r] \in Int
      BY <3>7
    <3>9. \A j \in 1..Len(f) : z[j] = g[f[j]]
      BY <3>5, <3>6
    <3> HIDE DEF left, m
    <3>10. Weight(f, g) = SumFunctionOnSet(z, 1..Len(f))
      BY <3>5, <3>8, <3>9, WeightIs
    <3>11. Weight(Filled(f), g) = Weight(f, g)
      BY <3>5, <3>7, FilledKeeps
    <3> QED BY <3>3, <3>4, <3>5, <3>10, <3>11
  <2>5. to[i] = SumFunctionOnSet(y, D)
    <3>1. PICK R : R = RowsOf(rows, i)
      OBVIOUS
    <3>2. R \in SUBSET D /\ to[i] = SumFunctionOnSet(give, R)
      BY <1>1, <3>1 DEF RowsOf, Gathered
    <3>3. /\ \A j \in D \ R : y[j] = 0
          /\ \A j \in R : give[j] = y[j]
      BY <1>1, <2>1, <3>1 DEF RowsOf
    <3> HIDE DEF D
    <3>4. IsFiniteSet(D) /\ R \in SUBSET D /\ \A j \in D : y[j] \in Int
      BY <1>1, <2>2, <3>2
    <3>5. SumFunctionOnSet(give, R) = SumFunctionOnSet(y, D)
      BY <3>3, <3>4, SumPart
    <3> QED BY <3>2, <3>5
  <2>10. y = Parted(give, LayersOf(rows), m, i)
    <3>1. \A j \in D : LayersOf(rows)[j] = rows[j].layer
      BY <1>1 DEF LayersOf
    <3> QED BY <2>1, <3>1 DEF Parted
  <2>11. to[i] = SumFunctionOnSet(Parted(give, LayersOf(rows), Len(rows), i), 1..Len(rows))
    BY <2>5, <2>10
  <2> HIDE DEF D, m
  <2>6. SumFunctionOnSet(x, D) = SumFunctionOnSet(z, D) + SumFunctionOnSet(y, D)
    BY <1>1, <2>2, SumPlus
  <2>7. /\ SumFunctionOnSet(x, D) \in Nat /\ SumFunctionOnSet(z, D) \in Nat
        /\ SumFunctionOnSet(y, D) \in Nat
    BY <1>1, <2>2, SumNat
  <2>8. PICK a, b, c : a = SumFunctionOnSet(x, D) /\ b = SumFunctionOnSet(y, D)
                       /\ c = SumFunctionOnSet(z, D)
    OBVIOUS
  <2>9. a \in Nat /\ b \in Nat /\ c \in Nat /\ a = c + b /\ b <= a /\ c = a - b
    BY <2>6, <2>7, <2>8
  <2> QED BY <2>3, <2>4, <2>5, <2>8, <2>9, <2>11
<1> QED BY <1>8

\* What is given back, each at the cost of its layer.
CostsOf(st, rows)         == [j \in DOMAIN rows |-> st.layers[rows[j].layer].cost]
BackAtCost(st, rows, give) == SumFunctionOnSet(AtRates(give, CostsOf(st, rows), Len(rows)), 1..Len(rows))

\* What rows give back, the shop's layers hold more.
LEMMA LayersFilled ==
  ASSUME NEW st \in Stocks, NEW q \in Nat, NEW rows \in Seq(Takings(Len(st.layers))),
         OwnRows(st, rows), NEW give, give = GivenBack(rows, q), NEW to,
         Gathered(to, give, rows, Len(st.layers)), NEW x, x = GivenTo(st, to)
  PROVE  /\ x \in Stocks /\ Refilled(st, x, to)
         /\ Holds(x, "pieces") = Holds(st, "pieces") + SumTaken(give)
         /\ Holds(x, "value") = Holds(st, "value") + BackAtCost(st, rows, give)
<1> DEFINE n == Len(st.layers)
           m == Len(rows)
           D == 1..n
           l == LayersOf(rows)
           one == [i \in D |-> 1]
           cost == [i \in D |-> st.layers[i].cost]
           ones == [j \in 1..m |-> 1]
<1>1. /\ n \in Nat /\ DOMAIN st.layers = D /\ IsFiniteSet(D)
      /\ \A i \in D : st.layers[i] \in Layers /\ st.layers[i].cost \in Nat
  <2>1. n \in Nat /\ DOMAIN st.layers = D /\ \A i \in D : st.layers[i] \in Layers
    BY HoldsAre
  <2> QED BY <2>1, Finite DEF Layers
<1>2. /\ m \in Nat /\ DOMAIN rows = 1..m
      /\ \A j \in 1..m : rows[j] \in Takings(n) /\ l[j] \in D /\ l[j] = rows[j].layer
  <2>1. m \in Nat /\ DOMAIN rows = 1..m /\ \A j \in 1..m : rows[j] \in Takings(n)
    BY Elements
  <2> QED BY <2>1 DEF Takings, LayersOf
<1>3. DOMAIN give = 1..m /\ \A j \in 1..m : give[j] \in Int
  <2>1. DOMAIN give = 1..m /\ \A j \in 1..m : give[j] \in 0..rows[j].qty
    BY <1>1, GivenBackIs
  <2> QED BY <2>1
<1>4. \A i \in D : /\ to[i] \in Nat /\ to[i] <= Weight(rows, Of(i))
                   /\ to[i] = SumFunctionOnSet(Parted(give, l, m, i), 1..m)
  <2>1. PICK N : N = n
    OBVIOUS
  <2>2. N \in Nat /\ rows \in Seq(Takings(N))
    BY <1>1, <2>1
  <2>3. Gathered(to, give, rows, N)
    BY <2>1
  <2>4. \A i \in 1..N :
          /\ to[i] \in Nat /\ to[i] <= Weight(rows, Of(i)) /\ Weight(rows, Of(i)) \in Nat
          /\ Weight(StillTaken(rows, give), Of(i)) = Weight(rows, Of(i)) - to[i]
          /\ to[i] = SumFunctionOnSet(Parted(give, LayersOf(rows), Len(rows), i), 1..Len(rows))
    <3> HIDE DEF n
    <3> QED BY <2>2, <2>3, GivesBack
  <2> QED BY <2>1, <2>4
<1>5. x \in Stocks /\ Len(x.layers) = n
  BY <1>4, FilledUp
<1>6. Refilled(st, x, to)
  <2>1. x.layers = [i \in DOMAIN st.layers |-> [st.layers[i] EXCEPT !.left = @ + to[i]]]
    <3>1. x = [st EXCEPT !.layers = [i \in DOMAIN st.layers |->
                                       [st.layers[i] EXCEPT !.left = @ + to[i]]]]
      BY Zenon DEF GivenTo
    <3>2. PICK ls : ls = [i \in DOMAIN st.layers |-> [st.layers[i] EXCEPT !.left = @ + to[i]]]
      OBVIOUS
    <3>3. x = [st EXCEPT !.layers = ls]
      BY <3>1, <3>2
    <3>4. x.layers = ls
      BY <3>3 DEF Stocks
    <3> QED BY <3>2, <3>4
  <2>2. ASSUME NEW i \in D
        PROVE  /\ to[i] \in Int /\ x.layers[i].left = st.layers[i].left + to[i]
               /\ x.layers[i].wh = st.layers[i].wh /\ x.layers[i].cost = st.layers[i].cost
    <3>1. x.layers[i] = [st.layers[i] EXCEPT !.left = @ + to[i]]
      BY <1>1, <2>1
    <3>2. st.layers[i] \in Layers /\ to[i] \in Int
      BY <1>1, <1>4
    <3> QED BY <3>1, <3>2 DEF Layers
  <2> QED BY <1>5, <2>2 DEF Refilled
<1>7. \A k : Holds(x, k) = Holds(st, k) + Moves(st, to, k)
  BY <1>5, <1>6, HoldsMoved
<1>8. \A k : Moves(st, to, k) = SumFunctionOnSet(MovesOf(st, to, k), D)
  BY <1>1 DEF Moves
<1>9. \A i \in D : st.layers[i].wh # Shop => to[i] = 0
  <2> SUFFICES ASSUME NEW i \in D, st.layers[i].wh # Shop PROVE to[i] = 0
    OBVIOUS
  <2>1. Weight(rows, Of(i)) = 0
    BY DEF OwnRows
  <2> QED BY <1>4, <2>1
<1> HIDE DEF l
<1>10. SumFunctionOnSet(MovesOf(st, to, "pieces"), D) = SumTaken(give)
  <2>1. PICK c, r : c = one /\ r = ones
    OBVIOUS
  <2>2. /\ \A i \in D : c[i] = 1 /\ c[i] \in Int
        /\ \A j \in 1..m : r[j] = 1
    BY <2>1
  <2>3. \A j \in 1..m : r[j] = c[l[j]]
    BY <1>2, <2>2
  <2>4. \A i \in 1..n : to[i] = SumFunctionOnSet(Parted(give, l, m, i), 1..m)
    BY <1>4
  <2> HIDE DEF n, m
  <2>5. SumFunctionOnSet(AtRates(to, c, n), 1..n) = SumFunctionOnSet(AtRates(give, r, m), 1..m)
    <3>1. PICK L : L = l
      OBVIOUS
    <3>2. n \in Nat /\ m \in Nat
      BY <1>1, <1>2
    <3>3. \A j \in 1..m : L[j] \in 1..n /\ give[j] \in Int
      BY <1>2, <1>3, <3>1
    <3>4. Grouped(to, give, L, m, n)
      BY <2>4, <3>1, <3>3 DEF Grouped
    <3>5. RatedBy(r, c, L, m, n)
      BY <2>2, <2>3, <3>1 DEF RatedBy
    <3> QED BY <3>2, <3>4, <3>5, SumByGroups
  <2>6. SumFunctionOnSet(MovesOf(st, to, "pieces"), D) = SumFunctionOnSet(AtRates(to, c, n), D)
    <3>1. ASSUME NEW i \in D PROVE MovesOf(st, to, "pieces")[i] = AtRates(to, c, n)[i]
      <4>1. PICK a : a = to[i]
        OBVIOUS
      <4>2. a \in Nat /\ (st.layers[i].wh # Shop => a = 0)
        BY <1>4, <1>9, <4>1
      <4>3. MovesOf(st, to, "pieces")[i] = a * (IF st.layers[i].wh # Shop THEN 0 ELSE 1)
        BY <1>1, <4>1 DEF MovesOf, Pay
      <4>4. AtRates(to, c, n)[i] = a * 1
        BY <2>2, <4>1 DEF AtRates
      <4> QED BY <4>2, <4>3, <4>4
    <3>2. PICK y, z : y = MovesOf(st, to, "pieces") /\ z = AtRates(to, c, n)
      OBVIOUS
    <3>3. \A i \in D : y[i] = z[i]
      BY <3>1, <3>2
    <3> HIDE DEF D
    <3>4. SumFunctionOnSet(y, D) = SumFunctionOnSet(z, D)
      BY <1>1, <3>3, SumSame
    <3> QED BY <3>2, <3>4
  <2>7. SumFunctionOnSet(AtRates(give, r, m), 1..m) = SumFunctionOnSet(give, 1..m)
    <3>1. \A j \in 1..m : AtRates(give, r, m)[j] = give[j]
      BY <1>3, <2>2 DEF AtRates
    <3>2. PICK y, E : y = AtRates(give, r, m) /\ E = 1..m
      OBVIOUS
    <3>3. IsFiniteSet(E) /\ \A j \in E : y[j] = give[j]
      BY <1>2, <3>1, <3>2, Finite
    <3>4. SumFunctionOnSet(y, E) = SumFunctionOnSet(give, E)
      BY <3>3, SumSame
    <3> QED BY <3>2, <3>4
  <2>8. SumTaken(give) = SumFunctionOnSet(give, 1..m)
    BY <1>3 DEF SumTaken, SumFunction
  <2> QED BY <2>5, <2>6, <2>7, <2>8
<1>11. SumFunctionOnSet(MovesOf(st, to, "value"), D) = BackAtCost(st, rows, give)
  <2>1. PICK c, r : c = cost /\ r = CostsOf(st, rows)
    OBVIOUS
  <2>2. /\ \A i \in D : c[i] = st.layers[i].cost /\ c[i] \in Nat /\ c[i] \in Int
        /\ \A j \in 1..m : r[j] = c[l[j]]
    <3>1. \A i \in D : c[i] = st.layers[i].cost /\ c[i] \in Nat /\ c[i] \in Int
      BY <1>1, <2>1
    <3>2. ASSUME NEW j \in 1..m PROVE r[j] = c[l[j]]
      <4>1. r[j] = st.layers[rows[j].layer].cost
        BY <1>2, <2>1 DEF CostsOf
      <4>2. l[j] \in D /\ l[j] = rows[j].layer
        BY <1>2
      <4> QED BY <3>1, <4>1, <4>2
    <3> QED BY <3>1, <3>2
  <2>4. \A i \in 1..n : to[i] = SumFunctionOnSet(Parted(give, l, m, i), 1..m)
    BY <1>4
  <2>3. BackAtCost(st, rows, give) = SumFunctionOnSet(AtRates(give, r, m), 1..m)
    BY <2>1 DEF BackAtCost
  <2> HIDE DEF n, m
  <2>5. SumFunctionOnSet(AtRates(to, c, n), 1..n) = SumFunctionOnSet(AtRates(give, r, m), 1..m)
    <3>1. PICK L : L = l
      OBVIOUS
    <3>2. n \in Nat /\ m \in Nat
      BY <1>1, <1>2
    <3>3. \A j \in 1..m : L[j] \in 1..n /\ give[j] \in Int
      BY <1>2, <1>3, <3>1
    <3>4. Grouped(to, give, L, m, n)
      BY <2>4, <3>1, <3>3 DEF Grouped
    <3>5. RatedBy(r, c, L, m, n)
      BY <2>2, <3>1 DEF RatedBy
    <3> QED BY <3>2, <3>4, <3>5, SumByGroups
  <2>6. SumFunctionOnSet(MovesOf(st, to, "value"), D) = SumFunctionOnSet(AtRates(to, c, n), D)
    <3>1. ASSUME NEW i \in D PROVE MovesOf(st, to, "value")[i] = AtRates(to, c, n)[i]
      <4>1. PICK a, b : a = to[i] /\ b = c[i]
        OBVIOUS
      <4>2. a \in Nat /\ b \in Nat /\ (st.layers[i].wh # Shop => a = 0)
        BY <1>4, <1>9, <2>2, <4>1
      <4>3. MovesOf(st, to, "value")[i] = a * (IF st.layers[i].wh # Shop THEN 0 ELSE b)
        BY <1>1, <2>2, <4>1 DEF MovesOf, Pay
      <4>4. AtRates(to, c, n)[i] = a * b
        BY <4>1 DEF AtRates
      <4>5. 0 * b = 0 /\ 0 * 0 = 0
        BY <4>2
      <4> QED BY <4>2, <4>3, <4>4, <4>5
    <3>2. PICK y, z : y = MovesOf(st, to, "value") /\ z = AtRates(to, c, n)
      OBVIOUS
    <3>3. \A i \in D : y[i] = z[i]
      BY <3>1, <3>2
    <3> HIDE DEF D
    <3>4. SumFunctionOnSet(y, D) = SumFunctionOnSet(z, D)
      BY <1>1, <3>3, SumSame
    <3> QED BY <3>2, <3>4
  <2> QED BY <2>3, <2>5, <2>6
<1> QED BY <1>5, <1>6, <1>7, <1>8, <1>10, <1>11

\* What a reversal leaves of the stock, and what it is worth.
LEMMA ReverseIs ==
  ASSUME NEW st \in Stocks, NEW q \in Nat \ {0}, NEW unit \in Nat,
         NEW rows \in Seq(Takings(Len(st.layers))), NEW new,
         new = ReverseConsumption(st, q, unit, rows)
  PROVE  /\ new.stock \in Stocks /\ SameGoods(st, new.stock) /\ Kept(st, new.stock)
         /\ new.rows \in Seq(Takings(Len(st.layers)))
         /\ new.value \in Nat /\ new.partly \in BOOLEAN
<1> DEFINE give == GivenBack(rows, q)
           back == SumTaken(give)
           J(i) == {j \in DOMAIN rows : rows[j].layer = i}
           to == [i \in 1..Len(st.layers) |-> SumFunctionOnSet(give, J(i))]
           worth == [j \in DOMAIN rows |-> give[j] * st.layers[rows[j].layer].cost]
           filled == [st EXCEPT !.layers = [i \in DOMAIN st.layers |->
                        [st.layers[i] EXCEPT !.left = @ + SumFunctionOnSet(give, J(i))]]]
           one == [qty |-> q, cost |-> unit]
           made == CreateLayers(filled, Shop, <<one>>, <<>>)
<1>1. /\ Len(st.layers) \in Nat /\ DOMAIN st.layers = 1..Len(st.layers)
      /\ \A i \in 1..Len(st.layers) : st.layers[i] \in Layers
  <2>1. st.layers \in Seq(Layers)
    BY DEF Stocks
  <2> QED BY <2>1, Elements
<1>2. /\ Len(rows) \in Nat /\ DOMAIN rows = 1..Len(rows) /\ IsFiniteSet(DOMAIN rows)
      /\ \A j \in 1..Len(rows) : rows[j] \in Takings(Len(st.layers))
  BY Elements
<1>3. DOMAIN give = 1..Len(rows) /\ \A j \in 1..Len(rows) : give[j] \in 0..rows[j].qty
  BY <1>1, GivenBackIs
<1>4. \A j \in 1..Len(rows) : give[j] \in Nat
  BY <1>3
<1>5. new = [rows   |-> StillTaken(rows, give),
             partly |-> 0 < back /\ back < q,
             stock  |-> IF back = q THEN filled ELSE made,
             value  |-> IF back = q THEN SumFunctionOnSet(worth, DOMAIN rows) ELSE q * unit]
  BY Zenon DEF ReverseConsumption, SumOver
<1> HIDE DEF give
<1>6. StillTaken(rows, give) \in Seq(Takings(Len(st.layers)))
  BY <1>1, <1>3, StillTakenIs
<1>7. \A i \in 1..Len(st.layers) : to[i] \in Nat
  <2> SUFFICES ASSUME NEW i \in 1..Len(st.layers) PROVE SumFunctionOnSet(give, J(i)) \in Nat
    OBVIOUS
  <2>1. IsFiniteSet(J(i)) /\ \A j \in J(i) : give[j] \in Nat
    <3>1. J(i) \in SUBSET DOMAIN rows
      OBVIOUS
    <3> QED BY <1>2, <1>4, <3>1, FS_Subset
  <2> HIDE DEF J
  <2> QED BY <2>1, SumNat
<1>8. filled = [st EXCEPT !.layers = [i \in DOMAIN st.layers |->
                                        [st.layers[i] EXCEPT !.left = @ + to[i]]]]
  BY <1>1
<1>9. SumFunctionOnSet(worth, DOMAIN rows) \in Nat
  <2>1. ASSUME NEW j \in 1..Len(rows) PROVE worth[j] \in Nat
    <3>1. PICK a, b : a = give[j] /\ b = st.layers[rows[j].layer].cost
      OBVIOUS
    <3>2. rows[j].layer \in 1..Len(st.layers)
      BY <1>2 DEF Takings
    <3>3. a \in Nat /\ b \in Nat
      BY <1>1, <1>4, <3>1, <3>2 DEF Layers
    <3>4. a * b \in Nat
      BY <3>3, Products
    <3> QED BY <1>2, <3>1, <3>4
  <2> HIDE DEF worth
  <2> QED BY <1>2, <2>1, SumNat
<1> HIDE DEF worth, filled
<1>10. filled \in Stocks /\ filled.inv = st.inv /\ Len(filled.layers) = Len(st.layers)
  <2>1. PICK f : f = to
    OBVIOUS
  <2> HIDE DEF to
  <2>2. \A i \in 1..Len(st.layers) : f[i] \in Nat
    BY <1>7, <2>1
  <2>3. filled = GivenTo(st, f)
    BY <1>8, <2>1, Zenon DEF GivenTo
  <2> QED BY <2>2, <2>3, FilledUp
<1> HIDE DEF to
<1>11. SameGoods(st, filled) /\ Kept(st, filled)
  <2>1. SameGoods(st, filled)
    BY <1>10 DEF SameGoods
  <2> QED BY <1>10, <2>1, KeptFacts
<1>12. made \in Stocks /\ SameGoods(st, made) /\ Kept(st, made)
  <2>1. one \in Parts /\ <<one>> \in Seq(Parts)
    BY DEF Parts
  <2>2. PICK parts, y : parts = <<one>> /\ y = made
    OBVIOUS
  <2>3. y = CreateLayers(filled, Shop, parts, <<>>) /\ parts \in Seq(Parts)
    BY <2>1, <2>2
  <2>4. y \in Stocks /\ y.inv = filled.inv /\ Kept(filled, y)
    BY <1>10, <2>3, TillAssumption, Created
  <2>5. SameGoods(st, y) /\ Kept(st, y)
    <3>1. SameGoods(st, y)
      BY <1>10, <2>4 DEF SameGoods
    <3> QED BY <1>10, <1>11, <2>4, <3>1, KeptFacts
  <2> QED BY <2>2, <2>4, <2>5
<1> HIDE DEF made
<1>13. q * unit \in Nat
  <2>1. q \in Nat
    OBVIOUS
  <2> QED BY <2>1, Products
<1>14. new.stock = filled \/ new.stock = made
  BY <1>5
<1>15. new.value \in Nat /\ new.partly \in BOOLEAN /\ new.rows = StillTaken(rows, give)
  BY <1>5, <1>9, <1>13
<1> QED BY <1>6, <1>10, <1>11, <1>12, <1>14, <1>15

\* A reversal that is not in part puts back what it was asked to, at its worth.
LEMMA ReverseFlows ==
  ASSUME NEW st \in Stocks, NEW q \in Nat \ {0}, NEW unit \in Nat,
         NEW rows \in Seq(Takings(Len(st.layers))), OwnRows(st, rows), NEW new,
         new = ReverseConsumption(st, q, unit, rows)
  PROVE  /\ Flow(st, rows, new.stock, new.rows)
         /\ \/ new.partly
            \/ /\ Holds(new.stock, "pieces") = Holds(st, "pieces") + q
               /\ Holds(new.stock, "value") = Holds(st, "value") + new.value
<1>1. PICK n, give : n = Len(st.layers) /\ give = GivenBack(rows, q)
  OBVIOUS
<1> DEFINE to == [i \in 1..n |-> SumFunctionOnSet(give, RowsOf(rows, i))]
           back == SumTaken(give)
           x == GivenTo(st, to)
           one == [qty |-> q, cost |-> unit]
           made == CreateLayers(x, Shop, <<one>>, <<>>)
           some == 0 < back /\ back < q
           worth == [j \in DOMAIN rows |-> give[j] * st.layers[rows[j].layer].cost]
<1>2. /\ n \in Nat /\ DOMAIN st.layers = 1..n /\ q \in Nat
      /\ \A i \in 1..n : st.layers[i] \in Layers /\ st.layers[i].left \in Nat
  <2>1. n \in Nat /\ DOMAIN st.layers = 1..n /\ \A i \in 1..n : st.layers[i] \in Layers
    BY <1>1, HoldsAre
  <2> QED BY <2>1 DEF Layers
<1>3. /\ Len(rows) \in Nat /\ DOMAIN rows = 1..Len(rows)
      /\ rows \in Seq(Takings(n))
  BY <1>1, Elements
<1>4. x = [st EXCEPT !.layers = [i \in DOMAIN st.layers |->
                [st.layers[i] EXCEPT !.left = @ + SumFunctionOnSet(give, RowsOf(rows, i))]]]
  <2>1. \A i \in DOMAIN st.layers : to[i] = SumFunctionOnSet(give, RowsOf(rows, i))
    BY <1>2
  <2>2. [i \in DOMAIN st.layers |-> [st.layers[i] EXCEPT !.left = @ + to[i]]]
          = [i \in DOMAIN st.layers |->
               [st.layers[i] EXCEPT !.left = @ + SumFunctionOnSet(give, RowsOf(rows, i))]]
    BY <2>1
  <2> QED BY <2>2, Zenon DEF GivenTo
<1>5. new = [rows   |-> StillTaken(rows, give),
             partly |-> some,
             stock  |-> IF back = q THEN x ELSE made,
             value  |-> IF back = q THEN SumFunctionOnSet(worth, DOMAIN rows) ELSE q * unit]
  <2> HIDE DEF x
  <2> QED BY <1>1, <1>4, Zenon DEF ReverseConsumption, SumOver, RowsOf
<1>6. SumFunctionOnSet(worth, DOMAIN rows) = BackAtCost(st, rows, give)
  <2>1. worth = AtRates(give, CostsOf(st, rows), Len(rows))
    BY <1>3 DEF AtRates, CostsOf
  <2> QED BY <1>3, <2>1 DEF BackAtCost
<1> HIDE DEF worth, some
<1>7. PICK g, y : g = to /\ y = x
  OBVIOUS
<1>8. Gathered(g, give, rows, n) /\ y = GivenTo(st, g)
  BY <1>7 DEF Gathered
<1>9. /\ y \in Stocks /\ Refilled(st, y, g)
      /\ Holds(y, "pieces") = Holds(st, "pieces") + back
      /\ Holds(y, "value") = Holds(st, "value") + BackAtCost(st, rows, give)
  BY <1>1, <1>2, <1>3, <1>8, LayersFilled
<1>10. \A i \in 1..n :
         /\ g[i] \in Nat /\ g[i] <= Weight(rows, Of(i)) /\ Weight(rows, Of(i)) \in Nat
         /\ Weight(StillTaken(rows, give), Of(i)) = Weight(rows, Of(i)) - g[i]
         /\ g[i] = SumFunctionOnSet(Parted(give, LayersOf(rows), Len(rows), i), 1..Len(rows))
  BY <1>1, <1>2, <1>3, <1>8, GivesBack
<1>11. back \in Nat /\ back <= q
  BY <1>1, <1>2, <1>3, GivesNoMore
<1> HIDE DEF to, x, back
<1>12. PICK z, ones : z = made /\ ones = <<one>>
  OBVIOUS
<1>13. ones \in Seq(Parts) /\ Len(ones) = 1 /\ DOMAIN ones = 1..1 /\ ones[1] = one
  <2>1. one \in Parts
    BY DEF Parts
  <2> QED BY <1>12, <2>1
<1>14. /\ z \in Stocks /\ Len(z.layers) = n + 1
       /\ \A i \in 1..n : z.layers[i] = y.layers[i]
       /\ z.layers[n + 1] = [wh |-> Shop, left |-> q, cost |-> unit, doc |-> <<>>]
  <2>1. z = CreateLayers(y, Shop, ones, <<>>)
    BY <1>7, <1>12
  <2>2. Len(y.layers) = n
    BY <1>1, <1>9 DEF Refilled
  <2>3. /\ z \in Stocks /\ Len(z.layers) = n + 1
        /\ \A i \in 1..n : z.layers[i] = y.layers[i]
    <3>1. y \in Stocks /\ ones \in Seq(Parts) /\ Len(ones) = 1 /\ Shop \in Warehouses
      BY <1>9, <1>13, TillAssumption
    <3>2. /\ CreateLayers(y, Shop, ones, <<>>) \in Stocks
          /\ Len(CreateLayers(y, Shop, ones, <<>>).layers) = Len(y.layers) + Len(ones)
          /\ \A i \in 1..Len(y.layers) : CreateLayers(y, Shop, ones, <<>>).layers[i] = y.layers[i]
      <4> HIDE DEF one
      <4> QED BY <3>1, CreateIs
    <3> QED BY <2>1, <2>2, <3>1, <3>2
  <2>4. z.layers[n + 1] = [wh |-> Shop, left |-> q, cost |-> unit, doc |-> <<>>]
    <3>1. PICK more : more = [i \in DOMAIN ones |->
                     [wh |-> Shop, left |-> ones[i].qty, cost |-> ones[i].cost, doc |-> <<>>]]
      OBVIOUS
    <3>2. more[1] = [wh |-> Shop, left |-> q, cost |-> unit, doc |-> <<>>]
      BY <1>13, <3>1
    <3>3. Len(more) = 1 /\ more \in Seq(Layers)
      BY <1>13, <3>1, <3>2, TillAssumption DEF Layers
    <3>4. z.layers = y.layers \o more
      <4>1. z = [y EXCEPT !.layers = @ \o more]
        BY <2>1, <3>1, Zenon DEF CreateLayers
      <4>2. PICK ls : ls = y.layers \o more
        OBVIOUS
      <4>3. z = [y EXCEPT !.layers = ls]
        BY <4>1, <4>2
      <4> QED BY <1>9, <4>2, <4>3 DEF Stocks
    <3>5. y.layers \in Seq(Layers) /\ n + 1 = Len(y.layers) + 1
      BY <1>9, <2>2 DEF Stocks
    <3>6. PICK ys, S : ys = y.layers /\ S = Layers
      OBVIOUS
    <3>7. /\ ys \in Seq(S) /\ more \in Seq(S) /\ Len(more) = 1 /\ Len(ys) = n /\ n \in Nat
      BY <1>2, <2>2, <3>3, <3>5, <3>6
    <3>8. (ys \o more)[n + 1] = more[1]
      <4>1. \A i \in 1..(Len(ys) + Len(more)) :
              (ys \o more)[i] = IF i <= Len(ys) THEN ys[i] ELSE more[i - Len(ys)]
        BY <3>7, ConcatProperties
      <4>2. PICK k, j : k = n + 1 /\ j = ys \o more
        OBVIOUS
      <4>3. k \in 1..(Len(ys) + Len(more)) /\ ~(k <= Len(ys)) /\ k - Len(ys) = 1
        BY <3>7, <4>2
      <4>4. j[k] = more[1]
        BY <4>1, <4>2, <4>3
      <4> QED BY <4>2, <4>4
    <3> QED BY <3>2, <3>4, <3>6, <3>8
  <2> QED BY <2>3, <2>4
<1> HIDE DEF made, one
<1>15. Flow(st, rows, new.stock, new.rows)
  <2>1. new.rows = StillTaken(rows, give) /\ (new.stock = y \/ new.stock = z)
    BY <1>5, <1>7, <1>12
  <2>2. Len(y.layers) = n
    BY <1>1, <1>9 DEF Refilled
  <2>3. ASSUME NEW t, t = y \/ t = z
        PROVE  /\ n <= Len(t.layers)
               /\ \A i \in 1..n : t.layers[i] = y.layers[i]
               /\ \A i \in 1..Len(t.layers) : i > n => t.layers[i].wh = Shop
    <3>1. CASE t = y
      BY <1>2, <2>2, <3>1
    <3>2. CASE t = z
      <4>1. \A i \in 1..(n + 1) : i > n => i = n + 1
        BY <1>2
      <4>2. t.layers[n + 1].wh = Shop
        BY <1>14, <3>2
      <4>3. n <= n + 1 /\ Len(t.layers) = n + 1 /\ \A i \in 1..n : t.layers[i] = y.layers[i]
        BY <1>2, <1>14, <3>2
      <4> QED BY <4>1, <4>2, <4>3
    <3> QED BY <2>3, <3>1, <3>2
  <2>4. ASSUME NEW i \in 1..n
        PROVE  /\ y.layers[i].wh = st.layers[i].wh
               /\ y.layers[i].left + Weight(new.rows, Of(i)) = st.layers[i].left + Weight(rows, Of(i))
               /\ st.layers[i].wh # Shop => Weight(new.rows, Of(i)) = Weight(rows, Of(i))
    <3>1. PICK a, b, c : a = st.layers[i].left /\ b = g[i] /\ c = Weight(rows, Of(i))
      OBVIOUS
    <3>2. y.layers[i].wh = st.layers[i].wh /\ y.layers[i].left = a + b
      BY <1>1, <1>9, <3>1 DEF Refilled
    <3>3. a \in Nat /\ b \in Nat /\ c \in Nat /\ b <= c /\ Weight(new.rows, Of(i)) = c - b
      BY <1>2, <1>10, <2>1, <3>1
    <3>4. st.layers[i].wh # Shop => c = 0
      BY <1>1, <3>1 DEF OwnRows
    <3>5. PICK e, d : e = Weight(new.rows, Of(i)) /\ d = y.layers[i].left
      OBVIOUS
    <3>6. e = c - b /\ d = a + b
      BY <3>2, <3>3, <3>5
    <3>7. d + e = a + c /\ (c = 0 => e = c)
      BY <3>3, <3>6
    <3> QED BY <3>1, <3>2, <3>4, <3>5, <3>7
  <2>5. PICK t : t = new.stock
    OBVIOUS
  <2>6. t = y \/ t = z
    BY <2>1, <2>5
  <2>7. /\ n <= Len(t.layers)
        /\ \A i \in 1..n : t.layers[i] = y.layers[i]
        /\ \A i \in 1..Len(t.layers) : i > n => t.layers[i].wh = Shop
    BY <2>3, <2>6
  <2> QED BY <1>1, <2>4, <2>5, <2>7 DEF Flow
<1>16. ASSUME ~new.partly
       PROVE  /\ Holds(new.stock, "pieces") = Holds(st, "pieces") + q
              /\ Holds(new.stock, "value") = Holds(st, "value") + new.value
  <2>1. CASE back = q
    <3>1. new.stock = y /\ new.value = BackAtCost(st, rows, give)
      BY <1>5, <1>6, <1>7, <2>1
    <3> QED BY <1>9, <2>1, <3>1
  <2>2. CASE back # q
    <3>1. new.stock = z /\ new.value = q * unit /\ back = 0
      <4>1. new.stock = z /\ new.value = q * unit
        BY <1>5, <1>12, <2>2
      <4>2. new.partly = some
        BY <1>5
      <4>3. ~(0 < back /\ back < q)
        BY <1>16, <4>2 DEF some
      <4> QED BY <1>2, <1>11, <2>2, <4>1, <4>3
    <3>2. Holds(y, "value") = Holds(st, "value") + 0
      <4>1. \A j \in 1..Len(rows) : give[j] = 0
        <5>1. DOMAIN give = 1..Len(rows) /\ \A j \in 1..Len(rows) : give[j] \in 0..rows[j].qty
          BY <1>1, <1>2, <1>3, GivenBackIs
        <5>2. \A j \in 1..Len(rows) : give[j] \in Nat
          BY <5>1
        <5>3. SumFunctionOnSet(give, 1..Len(rows)) = 0
          BY <3>1, <5>1 DEF SumTaken, SumFunction, back
        <5> QED BY <1>3, <5>2, <5>3, Finite, SumZero
      <4>2. PICK r, u, D : r = CostsOf(st, rows) /\ u = AtRates(give, r, Len(rows)) /\ D = 1..Len(rows)
        OBVIOUS
      <4>3. IsFiniteSet(D) /\ \A j \in D : u[j] = 0
        <5>1. ASSUME NEW j \in D PROVE u[j] = 0
          <6>1. rows[j].layer \in 1..n
            <7>1. rows[j] \in Takings(n)
              BY <1>3, <4>2, Elements
            <7> QED BY <7>1 DEF Takings
          <6>2. r[j] \in Nat
            BY <1>2, <1>3, <4>2, <6>1 DEF CostsOf, Layers
          <6>3. u[j] = give[j] * r[j] /\ give[j] = 0
            BY <4>1, <4>2 DEF AtRates
          <6>4. \A p \in Nat : 0 * p = 0
            OBVIOUS
          <6> QED BY <6>2, <6>3, <6>4
        <5> QED BY <1>3, <4>2, <5>1, Finite
      <4>4. SumFunctionOnSet(u, D) = 0
        BY <4>3, SumNothing
      <4>5. BackAtCost(st, rows, give) = 0
        BY <4>2, <4>4 DEF BackAtCost
      <4> QED BY <1>9, <4>5
    <3>3. PICK l : l = z.layers[n + 1]
      OBVIOUS
    <3>4. /\ Holds(z, "pieces") = Holds(y, "pieces") + l.left * Pay("pieces", l)
          /\ Holds(z, "value") = Holds(y, "value") + l.left * Pay("value", l)
      <4>1. Len(y.layers) = n
        BY <1>1, <1>9 DEF Refilled
      <4> QED BY <1>9, <1>14, <3>3, <4>1, HoldsOneMore
    <3>5. l.left = q /\ Pay("pieces", l) = 1 /\ Pay("value", l) = unit
      BY <1>14, <3>3 DEF Pay
    <3>6. \A m : Holds(st, m) \in Nat
      BY HoldsAre
    <3> QED BY <1>2, <1>9, <3>1, <3>2, <3>4, <3>5, <3>6
  <2> QED BY <2>1, <2>2
<1> QED BY <1>15, <1>16

\* What a return has done so far.
BackAcc ==
  {acc \in [stock : Stocks, rows : Seq([layer : Nat, qty : Nat]), value : Nat,
            partly : BOOLEAN, mixed : BOOLEAN] :
     acc.rows \in Seq(Takings(Len(acc.stock.layers)))}

\* An item goes back to the shop's shelf.
LEMMA TakeBackIs ==
  ASSUME NEW acc \in BackAcc, NEW item \in Items, NEW unit \in Nat
  PROVE  /\ TakeBack(unit, acc, item) \in BackAcc
         /\ Shift(acc.stock, TakeBack(unit, acc, item).stock, item.qty, {}, {Shop}, {}, {})
         /\ Covered(acc.stock) => Covered(TakeBack(unit, acc, item).stock)
<1>1. PICK st, q : st = acc.stock /\ q = item.qty
  OBVIOUS
<1> DEFINE reversed == ReverseConsumption(st, q, unit, acc.rows)
           restored == IF Layered(st) THEN reversed.stock ELSE UpdateCost(st, Shop, q, unit, 1)
           t == [restored EXCEPT !.inv[Shop].qty = @ + q]
           rows == IF Layered(st) THEN reversed.rows ELSE acc.rows
           more == IF Layered(st) THEN reversed.value ELSE q * unit
           value == acc.value + more
           part == acc.partly \/ (Layered(st) /\ reversed.partly)
           mix == acc.mixed \/ ~Layered(st)
           new == TakeBack(unit, acc, item)
<1>2. /\ st \in Stocks /\ acc.value \in Nat /\ acc.partly \in BOOLEAN /\ acc.mixed \in BOOLEAN
      /\ acc.rows \in Seq(Takings(Len(st.layers))) /\ q \in Nat \ {0} /\ q \in Nat
      /\ Len(st.layers) \in Nat
  <2>1. st \in Stocks
    BY <1>1 DEF BackAcc
  <2> QED BY <1>1, <2>1, TillAssumption, LayerFacts DEF BackAcc, Items
<1>3. Shop \in Warehouses /\ 1 \in Nat \ {0}
  BY TillAssumption
<1>4. new = [stock |-> t, rows |-> rows, value |-> value, partly |-> part, mixed |-> mix]
  BY <1>1 DEF TakeBack
<1>5. /\ reversed.stock \in Stocks /\ SameGoods(st, reversed.stock) /\ Kept(st, reversed.stock)
      /\ reversed.rows \in Seq(Takings(Len(st.layers)))
      /\ reversed.value \in Nat /\ reversed.partly \in BOOLEAN
  <2>1. PICK r, rs : r = reversed /\ rs = acc.rows
    OBVIOUS
  <2>2. r = ReverseConsumption(st, q, unit, rs) /\ rs \in Seq(Takings(Len(st.layers)))
    BY <1>2, <2>1
  <2>3. /\ r.stock \in Stocks /\ SameGoods(st, r.stock) /\ Kept(st, r.stock)
        /\ r.rows \in Seq(Takings(Len(st.layers)))
        /\ r.value \in Nat /\ r.partly \in BOOLEAN
    BY <1>2, <2>2, ReverseIs
  <2> QED BY <2>1, <2>3
<1> HIDE DEF reversed
<1>6. restored \in Stocks /\ SameGoods(st, restored) /\ Kept(st, restored)
  <2>1. /\ UpdateCost(st, Shop, q, unit, 1) \in Stocks
        /\ UpdateCost(st, Shop, q, unit, 1).layers = st.layers
        /\ SameGoods(st, UpdateCost(st, Shop, q, unit, 1))
    BY <1>2, <1>3, UpdateCostKeeps
  <2>2. Kept(st, UpdateCost(st, Shop, q, unit, 1))
    BY <1>2, <2>1, KeptFacts
  <2> QED BY <1>5, <2>1, <2>2
<1>7. rows \in Seq(Takings(Len(st.layers)))
  BY <1>2, <1>5
<1>8. value \in Nat /\ part \in BOOLEAN /\ mix \in BOOLEAN
  <2>1. q * unit \in Nat
    BY <1>2, Products
  <2>2. more \in Nat
    BY <1>5, <2>1
  <2> HIDE DEF more
  <2> QED BY <1>2, <1>5, <2>2
<1> HIDE DEF restored, rows, value, part, mix
<1>9. /\ t \in Stocks /\ t.layers = restored.layers
      /\ Shift(st, t, q, {}, {Shop}, {}, {})
  <2>1. PICK x, y, n : x = restored /\ y = t /\ n = st.inv[Shop].qty + q
    OBVIOUS
  <2>2. st.inv[Shop].qty \in Nat /\ x.inv[Shop].qty = st.inv[Shop].qty
    BY <1>2, <1>3, <1>6, <2>1, RowFacts DEF SameGoods
  <2>3. n \in Nat /\ y = SetQty(x, Shop, n)
    <3>1. y = [x EXCEPT !.inv[Shop].qty = @ + q]
      BY <2>1
    <3>2. [x EXCEPT !.inv[Shop].qty = @ + q] = [x EXCEPT !.inv[Shop].qty = n]
      BY <2>1, <2>2
    <3> QED BY <1>2, <2>1, <2>2, <3>1, <3>2 DEF SetQty
  <2>4. QtyMoves(st, x, y, Shop, n, q)
    BY <1>2, <1>3, <1>6, <2>1, <2>3, QtySet
  <2> QED BY <2>1, <2>4 DEF QtyMoves
<1> HIDE DEF t
<1>10. Covered(st) => Covered(t)
  <2> SUFFICES ASSUME Covered(st), NEW w \in Warehouses PROVE t.inv[w].reserved <= t.inv[w].qty
    BY DEF Covered
  <2>1. /\ st.inv[w].reserved <= st.inv[w].qty /\ st.inv[w].qty \in Nat /\ st.inv[w].reserved \in Nat
    BY <1>2, RowFacts DEF Covered
  <2>2. /\ t.inv[w].qty = st.inv[w].qty - Amount(q, w, {}) + Amount(q, w, {Shop})
        /\ t.inv[w].reserved = st.inv[w].reserved
    BY <1>9 DEF Shift
  <2>3. Amount(q, w, {}) = 0 /\ Amount(q, w, {Shop}) \in Nat
    BY <1>2 DEF Amount
  <2>4. PICK a, b, c : a = st.inv[w].reserved /\ b = st.inv[w].qty /\ c = Amount(q, w, {Shop})
    OBVIOUS
  <2>5. a \in Nat /\ b \in Nat /\ c \in Nat /\ a <= b /\ t.inv[w].qty = b - 0 + c /\ t.inv[w].reserved = a
    BY <2>1, <2>2, <2>3, <2>4
  <2> QED BY <2>5
<1>11. rows \in Seq(Takings(Len(t.layers))) /\ rows \in Seq([layer : Nat, qty : Nat])
  <2>1. Len(t.layers) \in Nat
    BY <1>3, <1>9, LayerFacts
  <2>2. Len(st.layers) <= Len(t.layers)
    BY <1>9 DEF Shift, Kept
  <2>3. rows \in Seq(Takings(Len(t.layers)))
    BY <1>2, <1>7, <2>1, <2>2, RowsWider
  <2>4. PICK n : n = Len(t.layers)
    OBVIOUS
  <2>5. n \in Nat /\ Takings(n) \subseteq [layer : Nat, qty : Nat]
    <3>1. n \in Nat
      BY <2>1, <2>4
    <3> QED BY <3>1 DEF Takings
  <2> QED BY <2>3, <2>4, <2>5, Wider
<1>12. new \in BackAcc /\ new.stock = t
  <2> HIDE DEF new
  <2> QED BY <1>4, <1>8, <1>9, <1>11 DEF BackAcc
<1> QED BY <1>1, <1>9, <1>10, <1>12

\* What they have done when n pieces are back.
BackUpTo(st, n, acc) ==
  /\ Shift(st, acc.stock, n, {}, {Shop}, {}, {})
  /\ Covered(st) => Covered(acc.stock)

\* One more item of a return puts its pieces back.
LEMMA BackMore ==
  ASSUME NEW st \in Stocks, NEW n \in Nat, NEW item \in Items, NEW unit \in Nat,
         NEW acc \in BackAcc, BackUpTo(st, n, acc)
  PROVE  BackUpTo(st, n + item.qty, TakeBack(unit, acc, item))
<1>1. PICK new, q : new = TakeBack(unit, acc, item) /\ q = item.qty
  OBVIOUS
<1>2. /\ new \in BackAcc
      /\ Shift(acc.stock, new.stock, q, {}, {Shop}, {}, {})
      /\ Covered(acc.stock) => Covered(new.stock)
  BY <1>1, TakeBackIs
<1>3. Shift(st, acc.stock, n, {}, {Shop}, {}, {}) /\ (Covered(st) => Covered(acc.stock))
  BY DEF BackUpTo
<1>4. acc.stock \in Stocks /\ new.stock \in Stocks /\ q \in Nat
  BY <1>1, <1>2 DEF BackAcc, Items
<1>5. Shift(st, new.stock, n + q, {}, {Shop}, {}, {})
  BY <1>2, <1>3, <1>4, ShiftMore
<1> QED BY <1>1, <1>2, <1>3, <1>5 DEF BackUpTo

\* What items of a return with n pieces do to the shop's layers, the rows being
\* of these: what was taken flows back and, while all goods move by layers and no
\* item is reversed in part, they gain the pieces, at their worth.
BackFlows(st, rows, mix, n, acc) ==
  OwnRows(st, rows) =>
    /\ Flow(st, rows, acc.stock, acc.rows)
    /\ mix => acc.mixed
    /\ \/ acc.partly
       \/ /\ Holds(acc.stock, "pieces") <= Holds(st, "pieces") + n
          /\ \/ acc.mixed
             \/ /\ Holds(acc.stock, "pieces") = Holds(st, "pieces") + n
                /\ Holds(acc.stock, "value") = Holds(st, "value") + acc.value

\* One item of a return does so.
LEMMA TakeBackFlows ==
  ASSUME NEW acc \in BackAcc, NEW item \in Items, NEW unit \in Nat,
         OwnRows(acc.stock, acc.rows), NEW new, new = TakeBack(unit, acc, item)
  PROVE  /\ Flow(acc.stock, acc.rows, new.stock, new.rows)
         /\ acc.mixed => new.mixed
         /\ acc.partly => new.partly
         /\ \/ new.partly
            \/ /\ Holds(new.stock, "pieces") <= Holds(acc.stock, "pieces") + item.qty
               /\ \/ new.mixed
                  \/ /\ Holds(new.stock, "pieces") = Holds(acc.stock, "pieces") + item.qty
                     /\ Holds(new.stock, "value") + acc.value
                          = Holds(acc.stock, "value") + new.value
<1>1. PICK st, q, rs : st = acc.stock /\ q = item.qty /\ rs = acc.rows
  OBVIOUS
<1> DEFINE reversed == ReverseConsumption(st, q, unit, rs)
           restored == IF Layered(st) THEN reversed.stock ELSE UpdateCost(st, Shop, q, unit, 1)
           t == [restored EXCEPT !.inv[Shop].qty = @ + q]
           rows == IF Layered(st) THEN reversed.rows ELSE rs
           more == IF Layered(st) THEN reversed.value ELSE q * unit
           value == acc.value + more
           part == acc.partly \/ (Layered(st) /\ reversed.partly)
           mix == acc.mixed \/ ~Layered(st)
<1>2. /\ st \in Stocks /\ acc.value \in Nat /\ acc.partly \in BOOLEAN /\ acc.mixed \in BOOLEAN
      /\ rs \in Seq(Takings(Len(st.layers))) /\ q \in Nat \ {0} /\ q \in Nat
      /\ Shop \in Warehouses /\ 1 \in Nat \ {0} /\ OwnRows(st, rs)
  <2>1. st \in Stocks
    BY <1>1 DEF BackAcc
  <2> QED BY <1>1, <2>1, TillAssumption DEF BackAcc, Items
<1>3. new = [stock |-> t, rows |-> rows, value |-> value, partly |-> part, mixed |-> mix]
  BY <1>1 DEF TakeBack
<1>4. new.stock = t /\ new.rows = rows /\ new.value = value /\ new.partly = part /\ new.mixed = mix
  <2> HIDE DEF t, rows, value, part, mix
  <2> QED BY <1>3
<1>5. new.stock \in Stocks
  <2>1. TakeBack(unit, acc, item) \in BackAcc
    BY TakeBackIs
  <2> QED BY <2>1 DEF BackAcc
<1>6. CASE ~Layered(st)
  <2>1. restored = UpdateCost(st, Shop, q, unit, 1) /\ rows = rs /\ mix /\ (acc.partly => part)
    BY <1>6
  <2>2. UpdateCost(st, Shop, q, unit, 1) \in Stocks /\ UpdateCost(st, Shop, q, unit, 1).layers = st.layers
    BY <1>2, UpdateCostKeeps
  <2>3. PICK r : r = restored
    OBVIOUS
  <2>4. r \in Stocks /\ r.layers = st.layers
    BY <2>1, <2>2, <2>3
  <2>5. new.stock.layers = st.layers
    <3>1. new.stock = [r EXCEPT !.inv[Shop].qty = @ + q]
      BY <1>4, <2>3
    <3> QED BY <2>4, <3>1 DEF Stocks
  <2> HIDE DEF t, rows, value, part, mix, restored
  <2>6. Flow(st, rs, new.stock, rs) /\ \A m : Holds(new.stock, m) = Holds(st, m)
    BY <1>2, <1>5, <2>5, FlowNone
  <2>7. Holds(st, "pieces") \in Nat
    BY <1>2, HoldsAre
  <2>8. Holds(new.stock, "pieces") <= Holds(st, "pieces") + q
    BY <1>2, <2>6, <2>7
  <2> QED BY <1>1, <1>4, <2>1, <2>6, <2>8
<1>7. CASE Layered(st)
  <2>1. PICK r : r = reversed
    OBVIOUS
  <2>2. r = ReverseConsumption(st, q, unit, rs)
    BY <2>1
  <2>3. /\ restored = r.stock /\ rows = r.rows /\ more = r.value
        /\ mix = (acc.mixed \/ FALSE) /\ part = (acc.partly \/ (TRUE /\ r.partly))
    BY <1>7, <2>1
  <2>4. r.stock \in Stocks /\ r.value \in Nat /\ r.partly \in BOOLEAN
    BY <1>2, <2>2, ReverseIs
  <2>5. /\ Flow(st, rs, r.stock, r.rows)
        /\ \/ r.partly
           \/ /\ Holds(r.stock, "pieces") = Holds(st, "pieces") + q
              /\ Holds(r.stock, "value") = Holds(st, "value") + r.value
    BY <1>2, <2>2, ReverseFlows
  <2>6. new.stock.layers = r.stock.layers
    <3>1. PICK x : x = r.stock
      OBVIOUS
    <3>2. new.stock = [x EXCEPT !.inv[Shop].qty = @ + q]
      BY <1>4, <2>3, <3>1
    <3> QED BY <2>4, <3>1, <3>2 DEF Stocks
  <2>7. new.value = acc.value + r.value
    BY <1>4, <2>3
  <2> HIDE DEF t, rows, value, more, part, mix, restored, reversed
  <2>8. \A m : Holds(new.stock, m) = Holds(r.stock, m)
    BY <1>5, <2>4, <2>6, FlowNone
  <2>9. Flow(st, rs, new.stock, new.rows)
    <3>1. Flow(st, rs, new.stock, r.rows)
      BY <2>5, <2>6 DEF Flow
    <3> QED BY <1>4, <2>3, <3>1
  <2>10. (acc.mixed => new.mixed) /\ (acc.partly => new.partly) /\ (r.partly => new.partly)
    BY <1>4, <2>3
  <2>11. ASSUME ~r.partly
         PROVE  /\ Holds(new.stock, "pieces") = Holds(st, "pieces") + q
                /\ Holds(new.stock, "pieces") <= Holds(st, "pieces") + q
                /\ Holds(new.stock, "value") + acc.value = Holds(st, "value") + new.value
    <3>1. PICK a, b, c, d, e, f :
            /\ a = Holds(st, "pieces") /\ b = Holds(new.stock, "pieces")
            /\ c = Holds(st, "value") /\ d = Holds(new.stock, "value")
            /\ e = acc.value /\ f = r.value
      OBVIOUS
    <3>2. a \in Nat /\ c \in Nat /\ e \in Nat /\ f \in Nat
      BY <1>2, <2>4, <3>1, HoldsAre
    <3>3. b = a + q /\ d = c + f /\ new.value = e + f
      BY <2>5, <2>7, <2>8, <2>11, <3>1
    <3>4. b <= a + q /\ d + e = c + (e + f)
      BY <1>2, <3>2, <3>3
    <3> QED BY <3>1, <3>3, <3>4
  <2> QED BY <1>1, <2>9, <2>10, <2>11
<1> QED BY <1>6, <1>7

\* Items and one more.
LEMMA BackFlowsMore ==
  ASSUME NEW st \in Stocks, NEW rows, NEW mix \in BOOLEAN, NEW n \in Nat,
         NEW item \in Items, NEW unit \in Nat,
         NEW acc \in BackAcc, BackFlows(st, rows, mix, n, acc)
  PROVE  BackFlows(st, rows, mix, n + item.qty, TakeBack(unit, acc, item))
<1>1. PICK new, q : new = TakeBack(unit, acc, item) /\ q = item.qty
  OBVIOUS
<1> SUFFICES ASSUME OwnRows(st, rows) PROVE BackFlows(st, rows, mix, n + q, new)
  BY <1>1 DEF BackFlows
<1>2. /\ Flow(st, rows, acc.stock, acc.rows)
      /\ mix => acc.mixed
      /\ \/ acc.partly
         \/ /\ Holds(acc.stock, "pieces") <= Holds(st, "pieces") + n
            /\ \/ acc.mixed
               \/ /\ Holds(acc.stock, "pieces") = Holds(st, "pieces") + n
                  /\ Holds(acc.stock, "value") = Holds(st, "value") + acc.value
  BY DEF BackFlows
<1>3. new \in BackAcc
  BY <1>1, TakeBackIs
<1>4. /\ acc.stock \in Stocks /\ new.stock \in Stocks /\ acc.value \in Nat /\ new.value \in Nat
      /\ q \in Nat
  BY <1>1, <1>3 DEF BackAcc, Items
<1>5. OwnRows(acc.stock, acc.rows)
  BY <1>2, <1>4, FlowOwn
<1>6. /\ Flow(acc.stock, acc.rows, new.stock, new.rows)
      /\ acc.mixed => new.mixed
      /\ acc.partly => new.partly
      /\ \/ new.partly
         \/ /\ Holds(new.stock, "pieces") <= Holds(acc.stock, "pieces") + q
            /\ \/ new.mixed
               \/ /\ Holds(new.stock, "pieces") = Holds(acc.stock, "pieces") + q
                  /\ Holds(new.stock, "value") + acc.value
                       = Holds(acc.stock, "value") + new.value
  BY <1>1, <1>5, TakeBackFlows
<1>7. Flow(st, rows, new.stock, new.rows)
  BY <1>2, <1>4, <1>6, FlowMore
<1>8. PICK a, b, c, x, y, z, d, e :
        /\ a = Holds(st, "pieces") /\ b = Holds(acc.stock, "pieces") /\ c = Holds(new.stock, "pieces")
        /\ x = Holds(st, "value") /\ y = Holds(acc.stock, "value") /\ z = Holds(new.stock, "value")
        /\ d = acc.value /\ e = new.value
  OBVIOUS
<1>9. /\ a \in Nat /\ b \in Nat /\ c \in Nat /\ x \in Nat /\ y \in Nat /\ z \in Nat
      /\ d \in Nat /\ e \in Nat
  BY <1>4, <1>8, HoldsAre
<1>10. ASSUME ~new.partly
       PROVE  /\ c <= a + (n + q)
              /\ new.mixed \/ (c = a + (n + q) /\ z = x + e)
  <2>1. c <= b + q /\ b <= a + n
    BY <1>2, <1>6, <1>8, <1>10
  <2>2. ASSUME ~new.mixed PROVE c = a + (n + q) /\ z = x + e
    <3>1. c = b + q /\ b = a + n /\ z + d = y + e /\ y = x + d
      BY <1>2, <1>6, <1>8, <1>10, <2>2
    <3> QED BY <1>4, <1>9, <3>1
  <2>3. c <= a + (n + q)
    BY <1>4, <1>9, <2>1
  <2> QED BY <2>2, <2>3
<1>11. mix => new.mixed
  BY <1>2, <1>6
<1> QED BY <1>7, <1>8, <1>10, <1>11 DEF BackFlows

\* A return puts back what its items say.
LEMMA BackIs ==
  ASSUME NEW st \in Stocks, NEW m \in BOOLEAN, NEW unit \in Nat,
         NEW taken \in Seq(Takings(Len(st.layers))), NEW k, k.items \in Seq(Items)
  PROVE  /\ BackItems(st, unit, taken, m, k.items) \in BackAcc
         /\ BackUpTo(st, Brought(k), BackItems(st, unit, taken, m, k.items))
         /\ BackFlows(st, taken, m, Brought(k), BackItems(st, unit, taken, m, k.items))
<1>0. PICK items : items = k.items
  OBVIOUS
<1> DEFINE n == Len(items)
           A == BackAcc
           b == [stock |-> st, rows |-> taken, value |-> 0, partly |-> FALSE, mixed |-> m]
           Op(a, item) == TakeBack(unit, a, item)
           step == [p \in A \X (1..n) |-> Op(p[1], items[p[2]])]
           Fills(f) == f = [s \in SUBSET (1..n) |->
                              IF s = {} THEN b ELSE Op(f[s \ {Latest(s)}], items[Latest(s)])]
           f == CHOOSE f : Fills(f)
           qtys == [i \in DOMAIN items |-> items[i].qty]
           T(i) == SumFunctionOnSet(qtys, 1..i)
<1>1. /\ n \in Nat /\ DOMAIN items = 1..n /\ \A i \in 1..n : items[i] \in Items
      /\ Brought(k) = T(n) /\ T(0) = 0
      /\ \A i \in 1..n : T(i) = T(i - 1) + items[i].qty
      /\ \A i \in 0..n : T(i) \in Nat
  <2>1. /\ n \in Nat /\ DOMAIN items = 1..n /\ \A i \in 1..n : items[i] \in Items
        /\ items \in Seq(Items)
    BY <1>0, Elements
  <2>2. /\ qtys \in [1..n -> Nat \ {0}] /\ DOMAIN qtys = 1..n
        /\ \A i \in 1..n : qtys[i] = items[i].qty
    BY <2>1 DEF Items
  <2>3. Brought(k) = SumFunctionOnSet(qtys, DOMAIN items)
    BY <1>0 DEF Brought, SumOver
  <2> HIDE DEF qtys
  <2>4. qtys \in Seq(Nat \ {0}) /\ Len(qtys) = n
    BY <2>1, <2>2, FunctionIsSeq
  <2>5. /\ T(0) = 0
        /\ \A i \in 1..n : T(i) = T(i - 1) + qtys[i]
        /\ \A i \in 0..n : T(i) \in Nat
    BY <2>4, LinesFacts
  <2> QED BY <2>1, <2>2, <2>3, <2>5
<1>2. b \in A /\ \A a \in A, i \in 1..n : Op(a, items[i]) \in A
  <2>1. b \in A
    <3>1. Len(st.layers) \in Nat
      BY TillAssumption, LayerFacts
    <3>2. Takings(Len(st.layers)) \subseteq [layer : Nat, qty : Nat]
      BY <3>1 DEF Takings
    <3>3. taken \in Seq([layer : Nat, qty : Nat])
      <4>1. PICK S, T1 : S = Takings(Len(st.layers)) /\ T1 = [layer : Nat, qty : Nat]
        OBVIOUS
      <4>2. S \subseteq T1 /\ taken \in Seq(S)
        BY <3>2, <4>1
      <4>3. taken \in Seq(T1)
        BY <4>2, Wider
      <4> QED BY <4>1, <4>3
    <3>4. b.stock = st /\ b.rows = taken
      OBVIOUS
    <3> QED BY <3>3, <3>4 DEF BackAcc
  <2>2. ASSUME NEW a \in A, NEW i \in 1..n PROVE Op(a, items[i]) \in A
    BY <1>1, TakeBackIs
  <2> HIDE DEF A, Op, b
  <2> QED BY <2>1, <2>2
<1>3. BackItems(st, unit, taken, m, items) = f[1..n]
  BY <1>1, Zenon DEF BackItems, FoldLeft, MapThenFoldSet, Latest, Max
<1>4. step \in [A \X (1..n) -> A]
  <2> HIDE DEF Op, A
  <2> QED BY <1>2
<1> HIDE DEF T, qtys
<1>5. PICK h \in [SUBSET (1..n) -> A] : IsFold(h, b, step, n)
  <2> HIDE DEF step, A, b
  <2> QED BY <1>1, <1>2, <1>4, FoldExists
<1> HIDE DEF b
<1>6. Fills(h)
  <2>1. ASSUME NEW s \in SUBSET (1..n), s # {}
        PROVE  h[s] = Op(h[s \ {Latest(s)}], items[Latest(s)])
    <3>1. Latest(s) \in 1..n
      BY <1>1, <2>1, LatestIn
    <3>2. h[s \ {Latest(s)}] \in A
      BY <1>5
    <3>3. h[s] = step[<<h[s \ {Latest(s)}], Latest(s)>>]
      BY <1>5, <2>1 DEF IsFold
    <3> HIDE DEF A, Op
    <3> QED BY <3>1, <3>2, <3>3
  <2>2. h[{}] = b
    <3>1. {} \in SUBSET (1..n)
      OBVIOUS
    <3> QED BY <1>5, <3>1 DEF IsFold
  <2> HIDE DEF Op
  <2> QED BY <1>5, <2>1, <2>2
<1>7. Fills(f)
  <2> HIDE DEF Fills
  <2> QED BY <1>6
<1>8. f[1..0] = b /\ \A i \in 1..n : f[1..i] = Op(f[1..(i - 1)], items[i])
  <2> HIDE DEF Op, f
  <2>1. f[1..0] = b
    <3>1. 1..0 = {}
      OBVIOUS
    <3> QED BY <1>7, <3>1
  <2>2. ASSUME NEW i \in 1..n PROVE f[1..i] = Op(f[1..(i - 1)], items[i])
    <3>1. i \in Nat \ {0} /\ 1..i \in SUBSET (1..n)
      BY <1>1
    <3>2. 1..i # {} /\ Latest(1..i) = i /\ (1..i) \ {Latest(1..i)} = 1..(i - 1)
      BY <3>1, PrefixOf
    <3> QED BY <1>7, <3>1, <3>2
  <2> QED BY <2>1, <2>2
<1> HIDE DEF f, Fills, step
<1> DEFINE P == {i \in 0..n : /\ f[1..i] \in A /\ BackUpTo(st, T(i), f[1..i])
                             /\ BackFlows(st, taken, m, T(i), f[1..i])}
<1>9. 0 \in P
  <2>1. BackUpTo(st, 0, b)
    <3>1. Shift(st, st, 0, {}, {Shop}, {}, {})
      BY ShiftNone
    <3> QED BY <3>1 DEF BackUpTo, b
  <2>2. 0 \in 0..n
    BY <1>1
  <2>3. BackFlows(st, taken, m, 0, b)
    <3>1. Flow(st, taken, st, taken)
      BY FlowNone
    <3>2. b.stock = st /\ b.rows = taken /\ b.value = 0 /\ b.mixed = m
      BY DEF b
    <3>3. Holds(st, "pieces") \in Nat /\ Holds(st, "value") \in Nat
      BY HoldsAre
    <3>4. /\ Holds(st, "pieces") <= Holds(st, "pieces") + 0
          /\ Holds(st, "pieces") = Holds(st, "pieces") + 0
          /\ Holds(st, "value") = Holds(st, "value") + 0
      BY <3>3
    <3> QED BY <3>1, <3>2, <3>4 DEF BackFlows
  <2> QED BY <1>1, <1>2, <1>8, <2>1, <2>2, <2>3
<1>10. ASSUME NEW i \in 1..n, i - 1 \in P PROVE i \in P
  <2>1. PICK a, item, t : a = f[1..(i - 1)] /\ item = items[i] /\ t = T(i - 1)
    OBVIOUS
  <2>2. a \in A /\ BackUpTo(st, t, a) /\ BackFlows(st, taken, m, t, a)
    BY <1>10, <2>1
  <2>3. item \in Items /\ t \in Nat /\ T(i) = t + item.qty
    <3>1. i - 1 \in 0..n
      BY <1>1
    <3> QED BY <1>1, <2>1, <3>1
  <2>4. f[1..i] = Op(a, item)
    BY <1>8, <2>1
  <2>5. BackUpTo(st, t + item.qty, TakeBack(unit, a, item))
    BY <2>2, <2>3, BackMore
  <2>8. BackFlows(st, taken, m, t + item.qty, TakeBack(unit, a, item))
    BY <2>2, <2>3, BackFlowsMore
  <2>6. f[1..i] \in A
    <3> HIDE DEF Op
    <3>1. Op(a, item) \in A
      BY <1>2, <2>1, <2>2
    <3> QED BY <2>4, <3>1
  <2>7. i \in 0..n
    BY <1>1
  <2> QED BY <2>3, <2>4, <2>5, <2>6, <2>7, <2>8
<1>11. n \in P
  <2> HIDE DEF P
  <2>1. \A i \in 0..n : i \in P
    BY <1>1, <1>9, <1>10, UpTo
  <2>2. n \in 0..n
    BY <1>1
  <2> QED BY <2>1, <2>2
<1>12. /\ f[1..n] \in BackAcc /\ BackUpTo(st, T(n), f[1..n])
       /\ BackFlows(st, taken, m, T(n), f[1..n])
  BY <1>11
<1> HIDE DEF f
<1> QED BY <1>0, <1>1, <1>3, <1>12

(***************************************************************************)
(* The tills: the invariant                                                *)
(***************************************************************************)
TillTypes ==
  /\ stock \in Stocks
  /\ session \in Seq(SessionRows) /\ sale \in Seq(SaleRows(Len(stock.layers)))
  /\ return \in Seq(ReturnRows) /\ clerk \in [Clerks -> ClerkRows] /\ mixed \in BOOLEAN

\* Rows and requests are of sessions and sales there are, and what is returned
\* was paid.
Closing(k) == k.at = "counted" \/ k.at = "summed"

TillLinks(ses, sa, cl) ==
  /\ \A s \in 1..Len(sa) : sa[s].session \in 1..Len(ses)
  /\ \A c \in Clerks : Closing(cl[c]) => cl[c].session \in 1..Len(ses)
  /\ \A c \in Clerks : cl[c].at = "returning" =>
       cl[c].sale \in 1..Len(sa) /\ sa[cl[c].sale].status = "paid"

\* A session's total, and what a closing has summed, is what was sold, but for
\* a session that sold while a closing waited.
SalesAgree(ses, sa) ==
  \A i \in 1..Len(ses) : ses[i].late \/ ses[i].sales = Price * SoldAt(sa, i)

SumsAgree(ses, sa, cl) ==
  \A c \in Clerks : cl[c].at = "summed" =>
    ses[cl[c].session].late \/ cl[c].sales = Price * SoldAt(sa, cl[c].session)

\* What a request has found to fit still does, next to the returns it has seen.
ItemFits(sa, ret, k, item) ==
  /\ item.line \in 1..Len(sa[k.sale].lines)
  /\ item.qty + NamedBy(ret, k.sale, item.line, k.seen) <= sa[k.sale].lines[item.line]

ReturnsFit(sa, ret, cl) ==
  \A c \in Clerks : cl[c].at = "returning" =>
    /\ cl[c].seen <= Len(ret)
    /\ \A j \in 1..Len(cl[c].items) : ItemFits(sa, ret, cl[c], cl[c].items[j])

Twice(items) == \E k, m \in DOMAIN items : k # m /\ items[k].line = items[m].line

Orderly(ret, s) ==
  \A r \in 1..Len(ret) : ret[r].sale = s => ~ret[r].late /\ ~Twice(ret[r].items)

\* Returns are of sales there are, and bring back no more of an orderly one's
\* lines than were sold.
ReturnsAgree(sa, ret) ==
  /\ \A r \in 1..Len(ret) : ret[r].sale \in 1..Len(sa)
  /\ \A s \in 1..Len(sa) : sa[s].status = "paid" /\ Orderly(ret, s) =>
       \A l \in 1..Len(sa[s].lines) : NamedBy(ret, s, l, Len(ret)) <= sa[s].lines[l]

SoldLess(sa, ret) == SoldAll(sa) - BroughtAll(ret)

TillInv ==
  /\ StockCore /\ TillTypes
  /\ TillLinks(session, sale, clerk)
  /\ SalesAgree(session, sale) /\ SumsAgree(session, sale, clerk)
  /\ ReturnsFit(sale, return, clerk) /\ ReturnsAgree(sale, return)
  /\ GoodsNow(stock, adjusted) + SoldLess(sale, return) = OnHand(opening) + InTransit(opening)

(***************************************************************************)
(* The tills: their sums                                                   *)
(***************************************************************************)
\* What one sale was of.
LEMMA PaidNat ==
  ASSUME NEW n \in Nat, NEW row \in SaleRows(n), NEW i
  PROVE  PaidOf(row) \in Nat /\ PaidAt(row, i) \in Nat
<1>1. row.lines \in Seq(Nat \ {0})
  BY DEF SaleRows
<1>2. SumLines(row.lines) \in Nat
  <2>1. PICK lines : lines = row.lines
    OBVIOUS
  <2>2. /\ Len(lines) \in Nat /\ SumLines(lines) = SumFunctionOnSet(lines, 1..Len(lines))
        /\ \A k \in 0..Len(lines) : SumFunctionOnSet(lines, 1..k) \in Nat
    BY <1>1, <2>1, LinesFacts
  <2>3. Len(lines) \in 0..Len(lines)
    BY <2>2
  <2> QED BY <2>1, <2>2, <2>3
<1> QED BY <1>2 DEF PaidOf, PaidAt

\* What was sold, in all and in one session, is not negative.
LEMMA SoldNat ==
  ASSUME NEW n \in Nat, NEW sa \in Seq(SaleRows(n)), NEW i
  PROVE  SoldAll(sa) \in Nat /\ SoldAt(sa, i) \in Nat
<1> DEFINE D == 1..Len(sa)
           u == [s \in D |-> PaidOf(sa[s])]
           v == [s \in D |-> PaidAt(sa[s], i)]
<1>1. /\ Len(sa) \in Nat /\ IsFiniteSet(D)
      /\ \A s \in D : sa[s] \in SaleRows(n)
  BY Elements
<1>2. \A s \in D : u[s] \in Nat /\ v[s] \in Nat
  BY <1>1, PaidNat
<1>3. SoldAll(sa) = SumFunctionOnSet(u, D) /\ SoldAt(sa, i) = SumFunctionOnSet(v, D)
  BY DEF SoldAll, SoldAt
<1> HIDE DEF D, u, v
<1> QED BY <1>1, <1>2, <1>3, SumNat

\* A new sale adds what it is of, to its session.
LEMMA SoldOneMore ==
  ASSUME NEW n \in Nat, NEW sa \in Seq(SaleRows(n)), NEW row \in SaleRows(n)
  PROVE  /\ Append(sa, row) \in Seq(SaleRows(n)) /\ Len(Append(sa, row)) = Len(sa) + 1
         /\ \A s \in 1..Len(sa) : Append(sa, row)[s] = sa[s]
         /\ Append(sa, row)[Len(sa) + 1] = row
         /\ SoldAll(Append(sa, row)) = SoldAll(sa) + PaidOf(row)
         /\ \A i : SoldAt(Append(sa, row), i) = SoldAt(sa, i) + PaidAt(row, i)
<1> DEFINE x == Append(sa, row)
           m == Len(sa)
           u == [s \in 1..m |-> PaidOf(sa[s])]
           v == [s \in 1..(m + 1) |-> PaidOf(x[s])]
           a(i) == [s \in 1..m |-> PaidAt(sa[s], i)]
           b(i) == [s \in 1..(m + 1) |-> PaidAt(x[s], i)]
<1>1. /\ m \in Nat /\ \A s \in 1..m : sa[s] \in SaleRows(n)
  BY Elements
<1>2. /\ x \in Seq(SaleRows(n)) /\ Len(x) = m + 1 /\ x[m + 1] = row
      /\ \A s \in 1..m : x[s] = sa[s]
  BY Appended
<1>3. SoldAll(x) = SumFunctionOnSet(v, 1..(m + 1)) /\ SoldAll(sa) = SumFunctionOnSet(u, 1..m)
  BY <1>2 DEF SoldAll
<1>4. \A i : /\ SoldAt(x, i) = SumFunctionOnSet(b(i), 1..(m + 1))
             /\ SoldAt(sa, i) = SumFunctionOnSet(a(i), 1..m)
  BY <1>2 DEF SoldAt
<1>5. m + 1 \in 1..(m + 1) /\ \A s \in 1..m : s \in 1..(m + 1)
  BY <1>1
<1> HIDE DEF x, m
<1>6. SoldAll(x) = SoldAll(sa) + PaidOf(row)
  <2>1. PaidOf(row) \in Int
    BY PaidNat
  <2>2. \A s \in 1..m : u[s] \in Int /\ v[s] = u[s]
    BY <1>1, <1>2, <1>5, PaidNat
  <2>3. v[m + 1] = PaidOf(row)
    BY <1>2, <1>5
  <2> HIDE DEF u, v
  <2>4. SumFunctionOnSet(v, 1..(m + 1)) = SumFunctionOnSet(u, 1..m) + PaidOf(row)
    BY <1>1, <2>1, <2>2, <2>3, SumAppended
  <2> QED BY <1>3, <2>4
<1>7. ASSUME NEW i PROVE SoldAt(x, i) = SoldAt(sa, i) + PaidAt(row, i)
  <2>1. PaidAt(row, i) \in Int
    BY PaidNat
  <2>2. \A s \in 1..m : a(i)[s] \in Int /\ b(i)[s] = a(i)[s]
    BY <1>1, <1>2, <1>5, PaidNat
  <2>3. b(i)[m + 1] = PaidAt(row, i)
    BY <1>2, <1>5
  <2>4. PICK w, z, y : w = a(i) /\ z = b(i) /\ y = PaidAt(row, i)
    OBVIOUS
  <2> HIDE DEF a, b
  <2>5. y \in Int /\ z[m + 1] = y /\ \A s \in 1..m : w[s] \in Int /\ z[s] = w[s]
    BY <2>1, <2>2, <2>3, <2>4
  <2>6. SumFunctionOnSet(z, 1..(m + 1)) = SumFunctionOnSet(w, 1..m) + y
    BY <1>1, <2>5, SumAppended
  <2> QED BY <1>4, <2>4, <2>6
<1> QED BY <1>2, <1>6, <1>7 DEF x, m

\* Rows that are paid alike sum alike.
LEMMA SoldSame ==
  ASSUME NEW sa, NEW x, Len(x) = Len(sa),
         \A s \in 1..Len(sa) : x[s].session = sa[s].session /\ PaidOf(x[s]) = PaidOf(sa[s])
  PROVE  SoldAll(x) = SoldAll(sa) /\ \A i : SoldAt(x, i) = SoldAt(sa, i)
<1>1. [s \in 1..Len(x) |-> PaidOf(x[s])] = [s \in 1..Len(sa) |-> PaidOf(sa[s])]
  OBVIOUS
<1>2. \A i : [s \in 1..Len(x) |-> PaidAt(x[s], i)] = [s \in 1..Len(sa) |-> PaidAt(sa[s], i)]
  BY DEF PaidAt
<1>3. SoldAll(x) = SoldAll(sa)
  BY <1>1 DEF SoldAll
<1> QED BY <1>2, <1>3 DEF SoldAt

\* The same of the returns.
LEMMA NamedNat ==
  ASSUME NEW row \in ReturnRows, NEW s, NEW l
  PROVE  Brought(row) \in Nat /\ NamedOf(row, s, l) \in Nat
<1>1. row.items \in Seq(Items)
  BY DEF ReturnRows
<1>2. Brought(row) \in Nat /\ Named(row, l) \in Nat
  BY <1>1, ItemsAre
<1> QED BY <1>2 DEF NamedOf

\* What was brought back is not negative.
LEMMA BroughtNat ==
  ASSUME NEW ret \in Seq(ReturnRows), NEW s, NEW l, NEW n \in 0..Len(ret)
  PROVE  BroughtAll(ret) \in Nat /\ NamedBy(ret, s, l, n) \in Nat
<1> DEFINE D == 1..Len(ret)
           R == 1..n
           u == [r \in D |-> Brought(ret[r])]
           v == [r \in D |-> NamedOf(ret[r], s, l)]
<1>1. /\ Len(ret) \in Nat /\ \A r \in D : ret[r] \in ReturnRows
  BY Elements
<1>2. IsFiniteSet(D) /\ IsFiniteSet(R) /\ \A r \in R : r \in D
  <2>1. n \in Nat
    BY <1>1
  <2> QED BY <1>1, <2>1, Finite
<1>3. \A r \in D : u[r] \in Nat /\ v[r] \in Nat
  BY <1>1, NamedNat
<1>4. BroughtAll(ret) = SumFunctionOnSet(u, D) /\ NamedBy(ret, s, l, n) = SumFunctionOnSet(v, R)
  BY DEF BroughtAll, NamedBy
<1> HIDE DEF D, R, u, v
<1> QED BY <1>2, <1>3, <1>4, SumNat

\* One more return adds what it brings.
LEMMA BroughtOneMore ==
  ASSUME NEW ret \in Seq(ReturnRows), NEW row \in ReturnRows
  PROVE  /\ Append(ret, row) \in Seq(ReturnRows) /\ Len(Append(ret, row)) = Len(ret) + 1
         /\ \A r \in 1..Len(ret) : Append(ret, row)[r] = ret[r]
         /\ Append(ret, row)[Len(ret) + 1] = row
         /\ BroughtAll(Append(ret, row)) = BroughtAll(ret) + Brought(row)
         /\ \A s, l : NamedBy(Append(ret, row), s, l, Len(ret) + 1)
                        = NamedBy(ret, s, l, Len(ret)) + NamedOf(row, s, l)
         /\ \A s, l : \A n \in 0..Len(ret) :
              NamedBy(Append(ret, row), s, l, n) = NamedBy(ret, s, l, n)
<1> DEFINE x == Append(ret, row)
           m == Len(ret)
           u == [r \in 1..m |-> Brought(ret[r])]
           v == [r \in 1..(m + 1) |-> Brought(x[r])]
           a(s, l) == [r \in 1..m |-> NamedOf(ret[r], s, l)]
           b(s, l) == [r \in 1..(m + 1) |-> NamedOf(x[r], s, l)]
<1>1. /\ m \in Nat /\ \A r \in 1..m : ret[r] \in ReturnRows
  BY Elements
<1>2. /\ x \in Seq(ReturnRows) /\ Len(x) = m + 1 /\ x[m + 1] = row
      /\ \A r \in 1..m : x[r] = ret[r]
  BY Appended
<1>3. BroughtAll(x) = SumFunctionOnSet(v, 1..(m + 1)) /\ BroughtAll(ret) = SumFunctionOnSet(u, 1..m)
  BY <1>2 DEF BroughtAll
<1>4. \A s, l, n : /\ NamedBy(x, s, l, n) = SumFunctionOnSet(b(s, l), 1..n)
                   /\ NamedBy(ret, s, l, n) = SumFunctionOnSet(a(s, l), 1..n)
  BY <1>2 DEF NamedBy
<1>5. m + 1 \in 1..(m + 1) /\ \A r \in 1..m : r \in 1..(m + 1)
  BY <1>1
<1> HIDE DEF x, m
<1>6. BroughtAll(x) = BroughtAll(ret) + Brought(row)
  <2>1. Brought(row) \in Int
    BY NamedNat
  <2>2. \A r \in 1..m : u[r] \in Int /\ v[r] = u[r]
    BY <1>1, <1>2, <1>5, NamedNat
  <2>3. v[m + 1] = Brought(row)
    BY <1>2, <1>5
  <2> HIDE DEF u, v
  <2>4. SumFunctionOnSet(v, 1..(m + 1)) = SumFunctionOnSet(u, 1..m) + Brought(row)
    BY <1>1, <2>1, <2>2, <2>3, SumAppended
  <2> QED BY <1>3, <2>4
<1>7. ASSUME NEW s, NEW l
      PROVE  /\ NamedBy(x, s, l, m + 1) = NamedBy(ret, s, l, m) + NamedOf(row, s, l)
             /\ \A n \in 0..m : NamedBy(x, s, l, n) = NamedBy(ret, s, l, n)
  <2>1. NamedOf(row, s, l) \in Int
    BY NamedNat
  <2>2. \A r \in 1..m : a(s, l)[r] \in Int /\ b(s, l)[r] = a(s, l)[r]
    BY <1>1, <1>2, <1>5, NamedNat
  <2>3. b(s, l)[m + 1] = NamedOf(row, s, l)
    BY <1>2, <1>5
  <2>4. PICK w, z, y : w = a(s, l) /\ z = b(s, l) /\ y = NamedOf(row, s, l)
    OBVIOUS
  <2> HIDE DEF a, b
  <2>5. y \in Int /\ z[m + 1] = y /\ \A r \in 1..m : w[r] \in Int /\ z[r] = w[r]
    BY <2>1, <2>2, <2>3, <2>4
  <2>6. SumFunctionOnSet(z, 1..(m + 1)) = SumFunctionOnSet(w, 1..m) + y
    BY <1>1, <2>5, SumAppended
  <2>7. ASSUME NEW n \in 0..m PROVE SumFunctionOnSet(z, 1..n) = SumFunctionOnSet(w, 1..n)
    <3>1. n \in Nat /\ \A r \in 1..n : r \in 1..m
      BY <1>1
    <3>2. IsFiniteSet(1..n) /\ \A r \in 1..n : z[r] = w[r]
      BY <2>5, <3>1, Finite
    <3> QED BY <3>2, SumSame
  <2> QED BY <1>4, <2>4, <2>6, <2>7
<1> QED BY <1>2, <1>6, <1>7 DEF x, m

\* The layers of the stock are a list.
LEMMA LengthNat == TillTypes => Len(stock.layers) \in Nat
  BY TillAssumption, LayerFacts DEF TillTypes

\* The sums the code reads are of these.
LEMMA PaidSums ==
  ASSUME TillTypes, NEW i
  PROVE  /\ SumOver(PaidIn(i), Pieces) = SoldAt(sale, i)
         /\ SumOver(Paid, Pieces) = SoldAll(sale)
<1> DEFINE D == 1..Len(sale)
           R == PaidIn(i)
           Q == Paid
           p == [s \in R |-> Pieces(s)]
           q == [s \in Q |-> Pieces(s)]
           u == [s \in D |-> PaidAt(sale[s], i)]
           v == [s \in D |-> PaidOf(sale[s])]
<1>1. /\ Len(sale) \in Nat /\ DOMAIN sale = D /\ IsFiniteSet(D)
      /\ Len(stock.layers) \in Nat
      /\ \A s \in D : sale[s] \in SaleRows(Len(stock.layers))
  <2>1. sale \in Seq(SaleRows(Len(stock.layers)))
    BY DEF TillTypes
  <2>2. DOMAIN sale = D /\ Len(sale) \in Nat /\ \A s \in D : sale[s] \in SaleRows(Len(stock.layers))
    BY <2>1, Elements
  <2>3. IsFiniteSet(D)
    BY <2>2, Finite
  <2> QED BY <2>2, <2>3, LengthNat
<1>2. R \in SUBSET D /\ Q \in SUBSET D
  BY <1>1 DEF Paid, PaidIn
<1>3. \A s \in D : u[s] \in Int /\ v[s] \in Int
  BY <1>1, PaidNat
<1>4. \A s \in D \ R : u[s] = 0
  BY <1>1 DEF Paid, PaidIn, PaidAt, PaidOf
<1>5. \A s \in D \ Q : v[s] = 0
  BY <1>1 DEF Paid, PaidOf
<1>6. \A s \in R : p[s] = u[s]
  BY <1>1, <1>2 DEF Paid, PaidIn, PaidAt, PaidOf, Pieces
<1>7. \A s \in Q : q[s] = v[s]
  BY <1>1, <1>2 DEF Paid, PaidOf, Pieces
<1>8. /\ SumOver(PaidIn(i), Pieces) = SumFunctionOnSet(p, R)
      /\ SumOver(Paid, Pieces) = SumFunctionOnSet(q, Q)
      /\ SoldAt(sale, i) = SumFunctionOnSet(u, D)
      /\ SoldAll(sale) = SumFunctionOnSet(v, D)
  BY DEF SumOver, SoldAt, SoldAll
<1> HIDE DEF D, R, Q, p, q, u, v
<1>9. SumFunctionOnSet(p, R) = SumFunctionOnSet(u, D)
  BY <1>1, <1>2, <1>3, <1>4, <1>6, SumPart
<1>10. SumFunctionOnSet(q, Q) = SumFunctionOnSet(v, D)
  BY <1>1, <1>2, <1>3, <1>5, <1>7, SumPart
<1> QED BY <1>8, <1>9, <1>10

\* The sums the code reads of returns are of these.
LEMMA ReturnSums ==
  ASSUME TillTypes, NEW s, NEW l
  PROVE  /\ Returned(s, l) = NamedBy(return, s, l, Len(return))
         /\ SumOver(DOMAIN return, LAMBDA r : Brought(return[r])) = BroughtAll(return)
<1> DEFINE D == 1..Len(return)
           R == {r \in DOMAIN return : return[r].sale = s}
           p == [r \in R |-> Named(return[r], l)]
           u == [r \in D |-> NamedOf(return[r], s, l)]
           v == [r \in D |-> Brought(return[r])]
<1>1. /\ Len(return) \in Nat /\ DOMAIN return = D /\ IsFiniteSet(D)
      /\ \A r \in D : return[r] \in ReturnRows
  <2>1. return \in Seq(ReturnRows)
    BY DEF TillTypes
  <2>2. DOMAIN return = D /\ Len(return) \in Nat /\ \A r \in D : return[r] \in ReturnRows
    BY <2>1, Elements
  <2>3. IsFiniteSet(D)
    BY <2>2, Finite
  <2> QED BY <2>2, <2>3
<1>2. R \in SUBSET D
  BY <1>1
<1>3. \A r \in D : u[r] \in Int
  BY <1>1, NamedNat
<1>4. \A r \in D \ R : u[r] = 0
  BY <1>1 DEF NamedOf
<1>5. \A r \in R : p[r] = u[r]
  BY <1>1, <1>2 DEF NamedOf
<1>6. /\ Returned(s, l) = SumFunctionOnSet(p, R)
      /\ SumOver(DOMAIN return, LAMBDA r : Brought(return[r])) = SumFunctionOnSet(v, D)
      /\ NamedBy(return, s, l, Len(return)) = SumFunctionOnSet(u, D)
      /\ BroughtAll(return) = SumFunctionOnSet(v, D)
  BY <1>1 DEF SumOver, Returned, NamedBy, BroughtAll
<1> HIDE DEF D, R, p, u, v
<1>7. SumFunctionOnSet(p, R) = SumFunctionOnSet(u, D)
  BY <1>1, <1>2, <1>3, <1>4, <1>5, SumPart
<1> QED BY <1>6, <1>7

\* What a closing counts.
LEMMA CountsAre ==
  ASSUME TillTypes, NEW i
  PROVE  /\ CashTaken(i) - CashReturned(i) \in Int
         /\ SumOver(ReturnedIn(i), LAMBDA r : Refund(return[r])) \in Nat
         /\ Price * SumOver(PaidIn(i), Pieces) \in Nat
<1> DEFINE R == {s \in PaidIn(i) : sale[s].account = "cash"}
           p == [s \in R |-> Pieces(s)]
           Q == ReturnedIn(i)
           q == [r \in Q |-> Refund(return[r])]
           C == {r \in ReturnedIn(i) : return[r].cash}
           c == [r \in C |-> Refund(return[r])]
<1>1. /\ IsFiniteSet(DOMAIN sale) /\ IsFiniteSet(DOMAIN return)
      /\ sale \in Seq(SaleRows(Len(stock.layers))) /\ Len(stock.layers) \in Nat
      /\ \A s \in DOMAIN sale : sale[s] \in SaleRows(Len(stock.layers))
      /\ \A r \in DOMAIN return : return[r] \in ReturnRows
  <2>1. sale \in Seq(SaleRows(Len(stock.layers))) /\ return \in Seq(ReturnRows)
    BY DEF TillTypes
  <2> QED BY <2>1, Elements, LengthNat
<1>2. /\ R \in SUBSET DOMAIN sale /\ Q \in SUBSET DOMAIN return /\ C \in SUBSET DOMAIN return
  BY DEF PaidIn, Paid, ReturnedIn
<1>3. IsFiniteSet(R) /\ IsFiniteSet(Q) /\ IsFiniteSet(C)
  BY <1>1, <1>2, FS_Subset
<1>4. \A s \in R : p[s] \in Nat
  <2> SUFFICES ASSUME NEW s \in R PROVE p[s] \in Nat
    OBVIOUS
  <2>1. sale[s] \in SaleRows(Len(stock.layers)) /\ sale[s].status = "paid"
    BY <1>1, <1>2 DEF PaidIn, Paid
  <2>2. PaidOf(sale[s]) \in Nat
    BY <1>1, <2>1, PaidNat
  <2> QED BY <2>1, <2>2 DEF PaidOf, Pieces
<1>5. \A r \in DOMAIN return : Refund(return[r]) \in Nat
  <2> SUFFICES ASSUME NEW r \in DOMAIN return PROVE Refund(return[r]) \in Nat
    OBVIOUS
  <2>1. return[r].items \in Seq(Items)
    BY <1>1 DEF ReturnRows
  <2>2. PICK f : f = return[r]
    OBVIOUS
  <2> QED BY <2>1, <2>2, ItemsAre
<1>6. (\A r \in Q : q[r] \in Nat) /\ (\A r \in C : c[r] \in Nat)
  BY <1>2, <1>5
<1>7. /\ CashTaken(i) = Price * SumFunctionOnSet(p, R)
      /\ SumOver(ReturnedIn(i), LAMBDA r : Refund(return[r])) = SumFunctionOnSet(q, Q)
      /\ CashReturned(i) = SumFunctionOnSet(c, C)
  BY DEF SumOver, CashTaken, CashReturned
<1> HIDE DEF R, Q, C, p, q, c
<1>8. SumFunctionOnSet(p, R) \in Nat /\ SumFunctionOnSet(q, Q) \in Nat /\ SumFunctionOnSet(c, C) \in Nat
  BY <1>3, <1>4, <1>6, SumNat
<1>9. Price * SumFunctionOnSet(p, R) \in Nat
  BY <1>8, TillAssumption, Products
<1>10. Price * SumOver(PaidIn(i), Pieces) \in Nat
  <2>1. SumOver(PaidIn(i), Pieces) \in Nat
    BY <1>1, PaidSums, SoldNat
  <2> QED BY <2>1, TillAssumption, Products
<1> QED BY <1>7, <1>8, <1>9, <1>10

(***************************************************************************)
(* The tills: their steps                                                  *)
(***************************************************************************)
\* A step of the tills that leaves the stock alone.
LEMMA StockAlone ==
  ASSUME StockCore, UNCHANGED <<stock, gl>>, StockApart
  PROVE  StockCore' /\ GoodsNow(stock', adjusted') = GoodsNow(stock, adjusted)
<1>1. UNCHANGED vars
  BY DEF vars, StockApart
<1> QED BY <1>1, NothingKeeps DEF Keeps

\* A step of the tills that moves goods on the shop's shelf.
LEMMA StockMoved ==
  ASSUME StockCore, StockApart, stock' \in Stocks, gl' \in [Accounts -> Int],
         \A w \in Warehouses : /\ stock'.inv[w].transit = stock.inv[w].transit
                               /\ stock'.inv[w].reserved = stock.inv[w].reserved,
         Covered(stock')
  PROVE  StockCore'
<1>1. UNCHANGED <<opening, ship, cancels, transfer, order, adjusted, entries, today>>
  BY DEF StockApart
<1>2. Types'
  BY <1>1 DEF StockCore, Types
<1>3. RowsAgree' /\ EntriesAgree' /\ OrdersAgree'
  BY <1>1 DEF StockCore, RowsAgree, EntriesAgree, OrdersAgree
<1>4. TransitsAgree(stock, ship)'
  BY <1>1 DEF StockCore, TransitsAgree
<1>5. ReservedAgrees(stock, order)'
  BY <1>1 DEF StockCore, ReservedAgrees
<1> QED BY <1>2, <1>3, <1>4, <1>5 DEF StockCore

\* A posting leaves the balances numbers.
LEMMA TillPosts ==
  ASSUME gl \in [Accounts -> Int], NEW source, NEW id, NEW account, NEW amount, NEW cost \in Int,
         PostTill(source, id, account, amount, cost)
  PROVE  gl' \in [Accounts -> Int]
<1>1. Shop \in Accounts
  BY TillAssumption, AccountFacts
<1>2. gl' = gl \/ gl' = [gl EXCEPT ![Shop] = @ - cost]
  BY DEF PostTill
<1>3. [gl EXCEPT ![Shop] = @ - cost] \in [Accounts -> Int]
  BY <1>1
<1> QED BY <1>2, <1>3

\* What the books are with.
LEMMA GoodsAre ==
  ASSUME StockCore, TillTypes
  PROVE  /\ OnHand(stock) \in Nat /\ InTransit(stock) \in Nat /\ SumLines(adjusted) \in Int
         /\ SoldAll(sale) \in Nat /\ BroughtAll(return) \in Nat
<1>1. stock \in Stocks /\ adjusted \in Seq(Int) /\ Shift(stock, stock, 0, {}, {}, {}, {}) /\ 0 \in Int
      /\ 0 \in Nat
  BY ShiftNone DEF StockCore, Types
<1>2. OnHand(stock) \in Nat /\ InTransit(stock) \in Nat
  BY <1>1, ShiftTotals
<1>3. SumLines(adjusted) \in Int
  BY <1>1, AdjustedSum
<1>4. sale \in Seq(SaleRows(Len(stock.layers))) /\ return \in Seq(ReturnRows)
      /\ Len(stock.layers) \in Nat
  BY LengthNat DEF TillTypes
<1>5. 0 \in 0..Len(return)
  <2>1. Len(return) \in Nat
    BY <1>4, Elements
  <2> QED BY <2>1
<1> QED BY <1>2, <1>3, <1>4, <1>5, SoldNat, BroughtNat

\* A request that does nothing is none of these.
LEMMA IdleIs == /\ NotBusy \in ClerkRows /\ ~Closing(NotBusy)
                /\ NotBusy.at # "summed" /\ NotBusy.at # "returning"
  BY DEF NotBusy, ClerkRows, Closing

\* What each kind of request keeps.
LEMMA ClerkFacts ==
  ASSUME NEW k \in ClerkRows
  PROVE  /\ k.at = "counted" => k \in Counted
         /\ k.at = "summed" => k \in Summed
         /\ k.at = "returning" => k \in Returning
  BY DEF ClerkRows, NotBusy, Counted, Summed, Returning

\* A stock step, whatever it is, has nothing to do with the tills.
LEMMA StockStepKeeps ==
  ASSUME TillInv, StockStep
  PROVE  TillInv'
<1>1. /\ StockCore /\ Next /\ mixed' \in BOOLEAN
      /\ UNCHANGED <<session, sale, return, clerk>>
  BY DEF StockStep, TillInv, TillTypes
<1>2. Keeps
  BY <1>1, StepKeeps
<1>3. /\ StockCore' /\ GoodsNow(stock', adjusted') = GoodsNow(stock, adjusted)
      /\ Kept(stock, stock')
  BY <1>2, Zenon DEF Keeps
<1>4. opening' = opening
  BY <1>1, Zenon DEF Next, CreateShipment, Dispatch, Confirm, CancelRead, CancelWrite, TransferLookup,
         TransferMove, Adjust, CreateOrder, CancelOrder, NextDay, OthersUnchanged
<1>5. TillTypes'
  <2>1. stock \in Stocks /\ stock' \in Stocks
    BY <1>1, <1>3 DEF StockCore, Types
  <2>2. Len(stock.layers) \in Nat /\ Len(stock'.layers) \in Nat
    BY <2>1, TillAssumption, LayerFacts
  <2>3. sale \in Seq(SaleRows(Len(stock'.layers)))
    <3>1. PICK n, m : n = Len(stock.layers) /\ m = Len(stock'.layers)
      OBVIOUS
    <3>2. n \in Nat /\ m \in Nat /\ n <= m /\ sale \in Seq(SaleRows(n))
      BY <1>3, <2>2, <3>1 DEF Kept, TillInv, TillTypes
    <3>3. sale \in Seq(SaleRows(m))
      BY <3>2, RowsWider
    <3> QED BY <3>1, <3>3
  <2> QED BY <1>1, <2>1, <2>3 DEF TillInv, TillTypes
<1>6. /\ TillLinks(session, sale, clerk)' /\ SalesAgree(session, sale)'
      /\ SumsAgree(session, sale, clerk)' /\ ReturnsFit(sale, return, clerk)'
      /\ ReturnsAgree(sale, return)'
  <2>1. /\ TillLinks(session, sale, clerk) /\ SalesAgree(session, sale)
        /\ SumsAgree(session, sale, clerk) /\ ReturnsFit(sale, return, clerk)
        /\ ReturnsAgree(sale, return)
    BY DEF TillInv
  <2>2. session' = session /\ sale' = sale /\ return' = return /\ clerk' = clerk
    BY <1>1
  <2> QED BY <2>1, <2>2
<1>7. (GoodsNow(stock, adjusted) + SoldLess(sale, return) = OnHand(opening) + InTransit(opening))'
  BY <1>1, <1>3, <1>4 DEF TillInv
<1> QED BY <1>3, <1>5, <1>6, <1>7 DEF TillInv

\* A step that moves no goods keeps the invariant if it keeps the tills' part.
LEMMA TillAlone ==
  ASSUME TillInv, StockApart, UNCHANGED <<stock, gl>>, TillTypes',
         TillLinks(session', sale', clerk'), SalesAgree(session', sale'),
         SumsAgree(session', sale', clerk'), ReturnsFit(sale', return', clerk'),
         ReturnsAgree(sale', return'), SoldLess(sale', return') = SoldLess(sale, return)
  PROVE  TillInv'
<1>1. StockCore' /\ GoodsNow(stock', adjusted') = GoodsNow(stock, adjusted)
  BY StockAlone DEF TillInv
<1>2. opening' = opening
  BY DEF StockApart
<1>3. (GoodsNow(stock, adjusted) + SoldLess(sale, return) = OnHand(opening) + InTransit(opening))'
  BY <1>1, <1>2 DEF TillInv
<1> QED BY <1>1, <1>3 DEF TillInv

\* A step of something else changes nothing here.
LEMMA TillStutters ==
  ASSUME TillInv, UNCHANGED <<vars, posVars>>
  PROVE  TillInv'
<1>1. UNCHANGED <<session, sale, return, clerk, stock, gl, mixed>> /\ StockApart
  BY DEF vars, posVars, StockApart
<1>2. TillTypes'
  BY <1>1 DEF TillInv, TillTypes
<1> QED BY <1>1, <1>2, TillAlone DEF TillInv

\* Nothing is sold in a session no sale is of.
LEMMA SoldNowhere ==
  ASSUME NEW n \in Nat, NEW sa \in Seq(SaleRows(n)), NEW i,
         \A s \in 1..Len(sa) : sa[s].session # i
  PROVE  SoldAt(sa, i) = 0
<1> DEFINE D == 1..Len(sa)
           v == [s \in D |-> PaidAt(sa[s], i)]
<1>1. IsFiniteSet(D) /\ \A s \in D : v[s] = 0
  <2>1. IsFiniteSet(D)
    BY Elements
  <2> QED BY <2>1 DEF PaidAt
<1>2. SoldAt(sa, i) = SumFunctionOnSet(v, D)
  BY DEF SoldAt
<1> HIDE DEF D, v
<1>3. SumFunctionOnSet(v, D) = SumFunctionOnSet(v, {})
  <2>1. {} \in SUBSET D /\ \A s \in D : v[s] \in Int
    BY <1>1
  <2> QED BY <1>1, <2>1, SumSupport
<1> QED BY <1>2, <1>3, SumNone

\* OpenSession keeps TillInv: the session has sold nothing.
LEMMA OpenSessionKeeps ==
  ASSUME TillInv, OpenSession
  PROVE  TillInv'
<1> DEFINE row == [open |-> TRUE, sales |-> 0, returns |-> 0, expected |-> 0, late |-> FALSE]
           n == Len(session)
<1>1. /\ session' = Append(session, row) /\ StockApart
      /\ UNCHANGED <<sale, return, clerk, stock, gl, mixed>>
  BY DEF OpenSession, BooksApart
<1>2. row \in SessionRows /\ row.sales = 0
  BY DEF SessionRows
<1>3. /\ session \in Seq(SessionRows) /\ n \in Nat /\ sale \in Seq(SaleRows(Len(stock.layers)))
      /\ Len(stock.layers) \in Nat
  BY LengthNat, Elements DEF TillInv, TillTypes
<1> HIDE DEF row
<1>4. /\ session' \in Seq(SessionRows) /\ Len(session') = n + 1 /\ session'[n + 1] = row
      /\ \A i \in 1..n : session'[i] = session[i]
  BY <1>1, <1>2, <1>3, Appended
<1>5. TillTypes'
  BY <1>1, <1>4 DEF TillInv, TillTypes
<1>6. TillLinks(session', sale', clerk')
  <2>1. \A i \in 1..n : i \in 1..(n + 1)
    BY <1>3
  <2> QED BY <1>1, <1>4, <2>1 DEF TillInv, TillLinks
<1>7. SalesAgree(session', sale')
  <2> SUFFICES ASSUME NEW i \in 1..(n + 1)
               PROVE  session'[i].late \/ session'[i].sales = Price * SoldAt(sale, i)
    BY <1>1, <1>4 DEF SalesAgree
  <2>1. CASE i \in 1..n
    BY <1>4, <2>1 DEF TillInv, SalesAgree
  <2>2. CASE i = n + 1
    <3>1. \A s \in 1..Len(sale) : sale[s].session # i
      <4>1. n + 1 \notin 1..n
        BY <1>3
      <4> QED BY <2>2, <4>1 DEF TillInv, TillLinks
    <3>2. SoldAt(sale, i) = 0
      BY <1>3, <3>1, SoldNowhere
    <3>3. Price * 0 = 0
      BY TillAssumption
    <3> QED BY <1>2, <1>4, <2>2, <3>2, <3>3
  <2> QED BY <1>3, <2>1, <2>2
<1>8. SumsAgree(session', sale', clerk')
  BY <1>1, <1>4 DEF TillInv, TillLinks, SumsAgree, Closing
<1>9. ReturnsFit(sale', return', clerk') /\ ReturnsAgree(sale', return')
      /\ SoldLess(sale', return') = SoldLess(sale, return)
  BY <1>1 DEF TillInv
<1> QED BY <1>1, <1>5, <1>6, <1>7, <1>8, <1>9, TillAlone

\* What a request does next is a matter of its own.
LEMMA OneClerk ==
  ASSUME TillInv, NEW c \in Clerks, NEW k \in ClerkRows, clerk' = [clerk EXCEPT ![c] = k],
         UNCHANGED <<session, sale, return, stock, gl, mixed>>, StockApart,
         Closing(k) => k.session \in 1..Len(session),
         k.at = "summed" => k.sales = Price * SoldAt(sale, k.session),
         k.at = "returning" =>
           /\ k.sale \in 1..Len(sale) /\ sale[k.sale].status = "paid"
           /\ k.seen <= Len(return)
           /\ \A j \in 1..Len(k.items) : ItemFits(sale, return, k, k.items[j])
  PROVE  TillInv'
<1>1. clerk' \in [Clerks -> ClerkRows] /\ \A d \in Clerks : clerk'[d] = IF d = c THEN k ELSE clerk[d]
  BY DEF TillInv, TillTypes
<1>2. TillTypes'
  BY <1>1 DEF TillInv, TillTypes
<1>3. TillLinks(session, sale, clerk')
  BY <1>1 DEF TillInv, TillLinks
<1>4. SumsAgree(session, sale, clerk')
  BY <1>1 DEF TillInv, SumsAgree
<1>5. ReturnsFit(sale, return, clerk')
  BY <1>1 DEF TillInv, ReturnsFit
<1>6. SalesAgree(session, sale) /\ ReturnsAgree(sale, return)
  BY DEF TillInv
<1> QED BY <1>2, <1>3, <1>4, <1>5, <1>6, TillAlone

\* CloseRead keeps TillInv: the cash is counted.
LEMMA CloseReadKeeps ==
  ASSUME TillInv, NEW c \in Clerks, NEW i \in DOMAIN session, NEW gap \in Gaps, CloseRead(c, i, gap)
  PROVE  TillInv'
<1>1. PICK cash : cash = CashTaken(i) - CashReturned(i)
  OBVIOUS
<1> DEFINE k == [at |-> "counted", session |-> i, gap |-> gap, expected |-> cash]
<1>2. /\ clerk' = [clerk EXCEPT ![c] = k] /\ StockApart
      /\ UNCHANGED <<session, sale, return, stock, gl, mixed>>
  BY <1>1 DEF CloseRead, BooksApart
<1>3. cash \in Int /\ i \in 1..Len(session) /\ i \in Nat \ {0}
  <2>1. TillTypes
    BY DEF TillInv
  <2>2. cash \in Int
    BY <1>1, <2>1, CountsAre
  <2>3. DOMAIN session = 1..Len(session) /\ Len(session) \in Nat
    BY <2>1, Elements DEF TillTypes
  <2> QED BY <2>2, <2>3
<1>4. k \in Counted
  BY <1>3 DEF Counted
<1>5. k \in ClerkRows /\ k.session \in 1..Len(session) /\ k.at # "summed" /\ k.at # "returning"
  BY <1>3, <1>4 DEF ClerkRows
<1> HIDE DEF k
<1> QED BY <1>2, <1>5, OneClerk

\* CloseSum keeps TillInv: what it sums is what was sold.
LEMMA CloseSumKeeps ==
  ASSUME TillInv, NEW c \in Clerks, CloseSum(c)
  PROVE  TillInv'
<1>1. PICK i, gap, cash, sales, returns :
        /\ i = clerk[c].session /\ gap = clerk[c].gap /\ cash = clerk[c].expected
        /\ sales = Price * SumOver(PaidIn(i), Pieces)
        /\ returns = SumOver(ReturnedIn(i), LAMBDA r : Refund(return[r]))
  OBVIOUS
<1> DEFINE k == [at |-> "summed", session |-> i, gap |-> gap, expected |-> cash,
                 sales |-> sales, returns |-> returns]
<1>2. /\ clerk[c].at = "counted" /\ StockApart
      /\ UNCHANGED <<session, sale, return, stock, gl, mixed>>
  BY DEF CloseSum, BooksApart
<1>3. clerk \in [Clerks -> ClerkRows] /\ TillTypes /\ TillLinks(session, sale, clerk)
  BY DEF TillInv, TillTypes
<1>4. clerk' = [clerk EXCEPT ![c] = k]
  BY <1>1, <1>3 DEF CloseSum
<1>5. clerk[c] \in Counted /\ i \in 1..Len(session)
  BY <1>1, <1>2, <1>3, ClerkFacts DEF TillLinks, Closing
<1>6. sales \in Nat /\ returns \in Nat /\ sales = Price * SoldAt(sale, i)
  BY <1>1, <1>3, CountsAre, PaidSums
<1>7. k \in Summed
  BY <1>1, <1>5, <1>6 DEF Counted, Summed
<1>8. /\ k \in ClerkRows /\ k.session \in 1..Len(session) /\ k.at # "returning"
      /\ k.sales = Price * SoldAt(sale, k.session)
  BY <1>5, <1>6, <1>7 DEF ClerkRows
<1> HIDE DEF k
<1> QED BY <1>2, <1>4, <1>8, OneClerk

\* Nothing is returned of a sale no return is of.
LEMMA NamedNowhere ==
  ASSUME NEW ret \in Seq(ReturnRows), NEW s, NEW l,
         \A r \in 1..Len(ret) : ret[r].sale # s
  PROVE  NamedBy(ret, s, l, Len(ret)) = 0
<1> DEFINE D == 1..Len(ret)
           v == [r \in D |-> NamedOf(ret[r], s, l)]
<1>1. IsFiniteSet(D) /\ \A r \in D : v[r] = 0
  <2>1. IsFiniteSet(D)
    BY Elements
  <2> QED BY <2>1 DEF NamedOf
<1>2. NamedBy(ret, s, l, Len(ret)) = SumFunctionOnSet(v, D)
  BY DEF NamedBy
<1> HIDE DEF D, v
<1>3. SumFunctionOnSet(v, D) = SumFunctionOnSet(v, {})
  <2>1. {} \in SUBSET D /\ \A r \in D : v[r] \in Int
    BY <1>1
  <2> QED BY <1>1, <2>1, SumSupport
<1> QED BY <1>2, <1>3, SumNone

\* A new sale has no returns, and leaves those of the others alone.
LEMMA SaleAdded ==
  ASSUME NEW n \in Nat, NEW sa \in Seq(SaleRows(n)), NEW row \in SaleRows(n),
         NEW ret \in Seq(ReturnRows), NEW ses, NEW cl, row.session \in 1..Len(ses),
         TillLinks(ses, sa, cl), ReturnsFit(sa, ret, cl), ReturnsAgree(sa, ret),
         NEW x, x = Append(sa, row)
  PROVE  TillLinks(ses, x, cl) /\ ReturnsFit(x, ret, cl) /\ ReturnsAgree(x, ret)
<1> DEFINE m == Len(sa)
<1>1. /\ m \in Nat /\ Len(x) = m + 1 /\ x[m + 1] = row
      /\ \A s \in 1..m : x[s] = sa[s]
  BY Elements, Appended
<1>2. /\ \A s \in 1..m : s \in 1..(m + 1)
      /\ \A s \in 1..(m + 1) : s \in 1..m \/ s = m + 1
      /\ m + 1 \notin 1..m
  BY <1>1
<1> HIDE DEF m
<1>3. TillLinks(ses, x, cl)
  BY <1>1, <1>2 DEF TillLinks, m
<1>4. ReturnsFit(x, ret, cl)
  <2> SUFFICES ASSUME NEW c \in Clerks, cl[c].at = "returning"
               PROVE  /\ cl[c].seen <= Len(ret)
                      /\ \A j \in 1..Len(cl[c].items) : ItemFits(x, ret, cl[c], cl[c].items[j])
    BY DEF ReturnsFit
  <2>1. x[cl[c].sale] = sa[cl[c].sale]
    BY <1>1 DEF TillLinks, m
  <2> QED BY <2>1 DEF ReturnsFit, ItemFits
<1>5. \A r \in 1..Len(ret) : ret[r].sale \in 1..Len(x)
  BY <1>1, <1>2 DEF ReturnsAgree, m
<1>6. ASSUME NEW s \in 1..Len(x), x[s].status = "paid", Orderly(ret, s), NEW l \in 1..Len(x[s].lines)
      PROVE  NamedBy(ret, s, l, Len(ret)) <= x[s].lines[l]
  <2>1. CASE s \in 1..m
    BY <1>1, <1>6, <2>1 DEF ReturnsAgree, m
  <2>2. CASE s = m + 1
    <3>1. NamedBy(ret, s, l, Len(ret)) = 0
      <4>1. \A r \in 1..Len(ret) : ret[r].sale # s
        BY <1>2, <2>2 DEF ReturnsAgree, m
      <4> QED BY <4>1, NamedNowhere
    <3>2. x[s].lines[l] \in Nat
      <4>1. x[s].lines \in Seq(Nat \ {0})
        BY <1>1, <2>2 DEF SaleRows
      <4> QED BY <1>6, <4>1, Elements
    <3> QED BY <3>1, <3>2
  <2> QED BY <1>1, <1>2, <2>1, <2>2
<1> QED BY <1>3, <1>4, <1>5, <1>6 DEF ReturnsAgree

\* A sale whose session, lines and payment stay is still the same sale.
LEMMA SaleChanged ==
  ASSUME NEW sa, NEW x, NEW ret, NEW ses, NEW cl, Len(x) = Len(sa),
         \A s \in 1..Len(sa) : /\ x[s].session = sa[s].session /\ x[s].lines = sa[s].lines
                               /\ x[s].status = "paid" <=> sa[s].status = "paid",
         TillLinks(ses, sa, cl), SalesAgree(ses, sa), SumsAgree(ses, sa, cl),
         ReturnsFit(sa, ret, cl), ReturnsAgree(sa, ret)
  PROVE  /\ TillLinks(ses, x, cl) /\ SalesAgree(ses, x) /\ SumsAgree(ses, x, cl)
         /\ ReturnsFit(x, ret, cl) /\ ReturnsAgree(x, ret)
         /\ SoldAll(x) = SoldAll(sa)
<1>1. SoldAll(x) = SoldAll(sa) /\ \A i : SoldAt(x, i) = SoldAt(sa, i)
  <2>1. \A s \in 1..Len(sa) : x[s].session = sa[s].session /\ PaidOf(x[s]) = PaidOf(sa[s])
    BY DEF PaidOf
  <2> QED BY <2>1, SoldSame
<1>2. TillLinks(ses, x, cl)
  BY SMTT(30) DEF TillLinks
<1>3. SalesAgree(ses, x) /\ SumsAgree(ses, x, cl)
  BY <1>1 DEF SalesAgree, SumsAgree
<1>4. ReturnsFit(x, ret, cl)
  <2> SUFFICES ASSUME NEW c \in Clerks, cl[c].at = "returning"
               PROVE  /\ cl[c].seen <= Len(ret)
                      /\ \A j \in 1..Len(cl[c].items) : ItemFits(x, ret, cl[c], cl[c].items[j])
    BY DEF ReturnsFit
  <2>1. x[cl[c].sale].lines = sa[cl[c].sale].lines
    BY DEF TillLinks
  <2> QED BY <2>1 DEF ReturnsFit, ItemFits
<1>5. ReturnsAgree(x, ret)
  BY DEF ReturnsAgree
<1> QED BY <1>1, <1>2, <1>3, <1>4, <1>5

\* Hold keeps TillInv: an order on hold is of nothing.
LEMMA HoldKeeps ==
  ASSUME TillInv, NEW i \in DOMAIN session, Hold(i)
  PROVE  TillInv'
<1> DEFINE row == [status |-> "hold", session |-> i, lines |-> <<>>, account |-> "none",
                   unit |-> 0, taken |-> <<>>, entered |-> FALSE]
           n == Len(stock.layers)
<1>1. /\ sale' = Append(sale, row) /\ StockApart
      /\ UNCHANGED <<session, return, clerk, stock, gl, mixed>>
  BY DEF Hold, BooksApart
<1>2. /\ n \in Nat /\ sale \in Seq(SaleRows(n)) /\ return \in Seq(ReturnRows)
      /\ i \in 1..Len(session) /\ i \in Nat \ {0}
  <2>1. DOMAIN session = 1..Len(session) /\ Len(session) \in Nat
    BY Elements DEF TillInv, TillTypes
  <2> QED BY <2>1, LengthNat DEF TillInv, TillTypes
<1>3. row \in SaleRows(n) /\ row.session \in 1..Len(session) /\ PaidOf(row) = 0
      /\ \A j : PaidAt(row, j) = 0
  <2>1. <<>> \in Seq(Nat \ {0}) /\ <<>> \in Seq(Takings(n))
    OBVIOUS
  <2>2. row \in SaleRows(n)
    BY <1>2, <2>1 DEF SaleRows
  <2> QED BY <1>2, <2>2 DEF PaidOf, PaidAt
<1> HIDE DEF row
<1>4. TillLinks(session, sale', clerk) /\ ReturnsFit(sale', return, clerk) /\ ReturnsAgree(sale', return)
  BY <1>1, <1>2, <1>3, SaleAdded DEF TillInv
<1>5. /\ sale' \in Seq(SaleRows(n)) /\ SoldAll(sale') = SoldAll(sale) + 0
      /\ \A j : SoldAt(sale', j) = SoldAt(sale, j) + 0
  BY <1>1, <1>2, <1>3, SoldOneMore
<1>6. SoldAll(sale') = SoldAll(sale) /\ \A j : SoldAt(sale', j) = SoldAt(sale, j)
  <2>1. \A j : SoldAll(sale) \in Nat /\ SoldAt(sale, j) \in Nat
    BY <1>2, SoldNat
  <2> QED BY <1>5, <2>1
<1>7. TillTypes'
  BY <1>1, <1>5 DEF TillInv, TillTypes
<1>8. SalesAgree(session, sale') /\ SumsAgree(session, sale', clerk)
  BY <1>6 DEF TillInv, SalesAgree, SumsAgree
<1>9. SoldLess(sale', return') = SoldLess(sale, return)
  BY <1>1, <1>6 DEF SoldLess
<1> QED BY <1>1, <1>4, <1>7, <1>8, <1>9, TillAlone

\* CancelHeld keeps TillInv: an order on hold was of nothing.
LEMMA CancelHeldKeeps ==
  ASSUME TillInv, NEW s \in DOMAIN sale, CancelHeld(s)
  PROVE  TillInv'
<1> DEFINE n == Len(stock.layers)
           row == [sale[s] EXCEPT !.status = "deleted"]
<1>1. /\ sale[s].status = "hold" /\ StockApart
      /\ UNCHANGED <<session, return, clerk, stock, gl, mixed>>
  BY DEF CancelHeld, BooksApart
<1>2. /\ n \in Nat /\ sale \in Seq(SaleRows(n)) /\ s \in 1..Len(sale) /\ sale[s] \in SaleRows(n)
  <2>1. n \in Nat /\ sale \in Seq(SaleRows(n))
    BY LengthNat DEF TillInv, TillTypes
  <2> QED BY <2>1, Elements
<1>3. sale' = [sale EXCEPT ![s] = row]
  BY <1>2 DEF CancelHeld
<1>4. /\ row \in SaleRows(n) /\ row.session = sale[s].session /\ row.lines = sale[s].lines
      /\ row.status # "paid"
  BY <1>2 DEF SaleRows
<1> HIDE DEF row
<1>5. /\ sale' \in Seq(SaleRows(n)) /\ Len(sale') = Len(sale)
      /\ \A j \in 1..Len(sale) : sale'[j] = IF j = s THEN row ELSE sale[j]
  BY <1>2, <1>3, <1>4, ExceptSeq
<1>6. \A j \in 1..Len(sale) : /\ sale'[j].session = sale[j].session /\ sale'[j].lines = sale[j].lines
                              /\ sale'[j].status = "paid" <=> sale[j].status = "paid"
  BY <1>1, <1>4, <1>5
<1>7. /\ TillLinks(session, sale', clerk) /\ SalesAgree(session, sale')
      /\ SumsAgree(session, sale', clerk)
      /\ ReturnsFit(sale', return, clerk) /\ ReturnsAgree(sale', return)
      /\ SoldAll(sale') = SoldAll(sale)
  <2>1. /\ TillLinks(session, sale, clerk) /\ SalesAgree(session, sale)
        /\ SumsAgree(session, sale, clerk)
        /\ ReturnsFit(sale, return, clerk) /\ ReturnsAgree(sale, return)
    BY DEF TillInv
  <2> QED BY <1>5, <1>6, <2>1, SaleChanged
<1>8. TillTypes'
  BY <1>1, <1>5 DEF TillInv, TillTypes
<1>9. SoldLess(sale', return') = SoldLess(sale, return)
  BY <1>1, <1>7 DEF SoldLess
<1> QED BY <1>1, <1>7, <1>8, <1>9, TillAlone

\* CloseWrite keeps TillInv: a closing sets the total to the sum it read.
LEMMA CloseWriteKeeps ==
  ASSUME TillInv, NEW c \in Clerks, CloseWrite(c)
  PROVE  TillInv'
<1>1. PICK k, i : k = clerk[c] /\ i = k.session
  OBVIOUS
<1> DEFINE row == Closed(session[i], k)
<1>2. /\ k.at = "summed" /\ clerk' = [clerk EXCEPT ![c] = NotBusy] /\ StockApart
      /\ session' = [session EXCEPT ![i] = Closed(@, k)]
      /\ UNCHANGED <<sale, return, stock, gl, mixed>>
  BY <1>1 DEF CloseWrite
<1>3. /\ clerk \in [Clerks -> ClerkRows] /\ session \in Seq(SessionRows)
      /\ TillLinks(session, sale, clerk) /\ SalesAgree(session, sale)
      /\ SumsAgree(session, sale, clerk)
  BY DEF TillInv, TillTypes
<1>4. k \in Summed /\ i \in 1..Len(session) /\ session[i] \in SessionRows
  <2>1. k \in Summed /\ i \in 1..Len(session)
    BY <1>1, <1>2, <1>3, ClerkFacts DEF TillLinks, Closing
  <2> QED BY <1>3, <2>1, Elements
<1>5. row \in SessionRows /\ row.late = session[i].late /\ row.sales = k.sales
  BY <1>4 DEF Closed, SessionRows, Summed
<1>6. session' = [session EXCEPT ![i] = row]
  BY <1>2, <1>3, <1>4
<1> HIDE DEF row
<1>7. /\ session' \in Seq(SessionRows) /\ Len(session') = Len(session)
      /\ \A j \in 1..Len(session) : session'[j] = IF j = i THEN row ELSE session[j]
  BY <1>3, <1>4, <1>5, <1>6, ExceptSeq
<1>8. /\ clerk' \in [Clerks -> ClerkRows]
      /\ \A d \in Clerks : clerk'[d] = IF d = c THEN NotBusy ELSE clerk[d]
  BY <1>2, <1>3, IdleIs
<1>9. TillTypes'
  BY <1>2, <1>7, <1>8 DEF TillInv, TillTypes
<1>10. TillLinks(session', sale', clerk')
  BY <1>2, <1>3, <1>7, <1>8, IdleIs DEF TillLinks
<1>11. SalesAgree(session', sale')
  <2> SUFFICES ASSUME NEW j \in 1..Len(session)
               PROVE  session'[j].late \/ session'[j].sales = Price * SoldAt(sale, j)
    BY <1>2, <1>7 DEF SalesAgree
  <2>1. CASE j = i
    <3>1. session[i].late \/ k.sales = Price * SoldAt(sale, i)
      BY <1>1, <1>2, <1>3 DEF SumsAgree
    <3> QED BY <1>5, <1>7, <2>1, <3>1
  <2>2. CASE j # i
    BY <1>3, <1>7, <2>2 DEF SalesAgree
  <2> QED BY <2>1, <2>2
<1>12. SumsAgree(session', sale', clerk')
  <2> SUFFICES ASSUME NEW d \in Clerks, clerk'[d].at = "summed"
               PROVE  session'[clerk'[d].session].late
                      \/ clerk'[d].sales = Price * SoldAt(sale, clerk'[d].session)
    BY <1>2 DEF SumsAgree
  <2>1. d # c /\ clerk'[d] = clerk[d]
    BY <1>8, IdleIs
  <2>2. clerk[d].session \in 1..Len(session)
    BY <1>3, <2>1 DEF TillLinks, Closing
  <2>3. session'[clerk[d].session].late = session[clerk[d].session].late
    BY <1>5, <1>7, <2>2
  <2> QED BY <1>3, <2>1, <2>3 DEF SumsAgree
<1>13. ReturnsFit(sale', return', clerk')
  BY <1>2, <1>8, IdleIs DEF TillInv, ReturnsFit
<1>14. ReturnsAgree(sale', return') /\ SoldLess(sale', return') = SoldLess(sale, return)
  BY <1>2 DEF TillInv
<1> QED BY <1>2, <1>9, <1>10, <1>11, <1>12, <1>13, <1>14, TillAlone

\* A product of numbers is one of sums.
LEMMA Distributes == \A p, a, b \in Nat : p * (a + b) = p * a + p * b
  OBVIOUS

\* Sell keeps TillInv: a sale takes its pieces and raises its session's total.
LEMMA SellKeeps ==
  ASSUME TillInv, NEW i \in DOMAIN session, NEW f \in SaleForms, Sell(i, f)
  PROVE  TillInv'
<1>1. PICK n, lines, acc : /\ n = Len(stock.layers) /\ lines = f.lines
                           /\ acc = SoldLines(stock, mixed, lines)
  OBVIOUS
<1>2. PICK q, total, entered, late :
        /\ q = SumLines(lines) /\ total = Price * q
        /\ entered = (Entry("pos-order", Len(sale) + 1) \notin posted)
        /\ late = \E c \in Clerks : clerk[c].at = "summed" /\ clerk[c].session = i
  OBVIOUS
<1> DEFINE row == [status |-> "paid", session |-> i, lines |-> lines, account |-> f.account,
                   unit |-> acc.unit, taken |-> acc.taken, entered |-> entered]
           raised == [session[i] EXCEPT !.sales = @ + total, !.late = @ \/ late]
           m == Len(acc.stock.layers)
<1>3. /\ StockCore /\ TillTypes /\ stock \in Stocks /\ mixed \in BOOLEAN /\ n \in Nat
      /\ session \in Seq(SessionRows) /\ sale \in Seq(SaleRows(n)) /\ return \in Seq(ReturnRows)
      /\ gl \in [Accounts -> Int]
      /\ TillLinks(session, sale, clerk) /\ SalesAgree(session, sale)
      /\ SumsAgree(session, sale, clerk)
      /\ ReturnsFit(sale, return, clerk) /\ ReturnsAgree(sale, return)
  BY <1>1, LengthNat DEF TillInv, TillTypes, StockCore, Types
<1>4. i \in 1..Len(session) /\ i \in Nat \ {0} /\ session[i] \in SessionRows
  <2>1. DOMAIN session = 1..Len(session) /\ Len(session) \in Nat
        /\ \A j \in 1..Len(session) : session[j] \in SessionRows
    BY <1>3, Elements
  <2> QED BY <2>1
<1>5. lines \in Seq(Nat \ {0}) /\ f.account \in {"cash", "bank"} /\ Price \in Nat /\ Shop \in Warehouses
  BY <1>1, TillAssumption
<1>6. q \in Nat /\ total \in Nat /\ entered \in BOOLEAN /\ late \in BOOLEAN
  <2>1. /\ Len(lines) \in Nat /\ q = SumFunctionOnSet(lines, 1..Len(lines))
        /\ \A k \in 0..Len(lines) : SumFunctionOnSet(lines, 1..k) \in Nat
    BY <1>2, <1>5, LinesFacts
  <2>2. Len(lines) \in 0..Len(lines)
    BY <2>1
  <2>3. q \in Nat
    BY <2>1, <2>2
  <2> QED BY <1>2, <1>5, <2>3, Products
<1>7. acc \in SaleAcc /\ SoldUpTo(stock, q, acc)
  BY <1>1, <1>2, <1>3, <1>5, SoldIs
<1>8. /\ acc.ok /\ stock' = acc.stock /\ mixed' = acc.mixed /\ StockApart
      /\ UNCHANGED <<return, clerk>>
      /\ sale' = Append(sale, row)
      /\ PostTill("pos-order", Len(sale) + 1, f.account, Price * SumLines(f.lines), acc.cost)
  BY <1>1, <1>2 DEF Sell, SoldLines
<1>9. session' = [session EXCEPT ![i].sales = @ + total, ![i].late = @ \/ late]
  BY <1>1, <1>2 DEF Sell
<1>10. session' = [session EXCEPT ![i] = raised]
  BY <1>3, <1>4, <1>9
<1>11. /\ raised \in SessionRows /\ raised.sales = session[i].sales + total
       /\ raised.late = (session[i].late \/ late)
  <2>1. PICK a, b : a = session[i].sales + total /\ b = (session[i].late \/ late)
    OBVIOUS
  <2>2. a \in Nat /\ b \in BOOLEAN
    <3>1. b \in BOOLEAN
      BY <2>1, Zenon
    <3>2. a \in Nat
      BY <1>4, <1>6, <2>1 DEF SessionRows
    <3> QED BY <3>1, <3>2
  <2>3. raised = [session[i] EXCEPT !.sales = a, !.late = b]
    BY <2>1, Zenon
  <2> HIDE DEF raised
  <2>4. raised \in SessionRows /\ raised.sales = a /\ raised.late = b
    BY <1>4, <2>2, <2>3 DEF SessionRows
  <2> QED BY <2>1, <2>4, Zenon
<1> HIDE DEF raised
<1>12. /\ acc.stock \in Stocks /\ Shift(stock, acc.stock, q, {Shop}, {}, {}, {})
       /\ Covered(acc.stock) /\ acc.cost \in Int /\ acc.unit \in Nat /\ acc.mixed \in BOOLEAN
       /\ acc.taken \in Seq(Takings(m)) /\ m \in Nat /\ n <= m
  <2>1. /\ acc.stock \in Stocks /\ Shift(stock, acc.stock, q, {Shop}, {}, {}, {})
        /\ Covered(acc.stock) /\ acc.cost \in Int /\ acc.unit \in Nat /\ acc.mixed \in BOOLEAN
        /\ acc.taken \in Seq(Takings(m))
    BY <1>3, <1>7, <1>8 DEF SaleAcc, SoldUpTo, StockCore
  <2>2. m \in Nat
    BY <1>5, <2>1, LayerFacts
  <2> QED BY <1>1, <2>1, <2>2 DEF Shift, Kept
<1>13. row \in SaleRows(m) /\ row.session = i /\ PaidOf(row) = q
       /\ PaidAt(row, i) = q /\ \A j : j # i => PaidAt(row, j) = 0
  <2>1. row \in SaleRows(m)
    BY <1>4, <1>5, <1>6, <1>12 DEF SaleRows
  <2> QED BY <1>2, <2>1 DEF PaidOf, PaidAt
<1>14. sale \in Seq(SaleRows(m))
  BY <1>3, <1>12, RowsWider
<1> HIDE DEF row
<1>15. /\ session' \in Seq(SessionRows) /\ Len(session') = Len(session)
       /\ \A j \in 1..Len(session) : session'[j] = IF j = i THEN raised ELSE session[j]
  BY <1>3, <1>4, <1>10, <1>11, ExceptSeq
<1>16. /\ TillLinks(session, sale', clerk) /\ ReturnsFit(sale', return, clerk)
       /\ ReturnsAgree(sale', return)
  BY <1>3, <1>4, <1>8, <1>12, <1>13, <1>14, SaleAdded
<1>17. /\ sale' \in Seq(SaleRows(m)) /\ SoldAll(sale') = SoldAll(sale) + q
       /\ \A j : SoldAt(sale', j) = SoldAt(sale, j) + PaidAt(row, j)
  BY <1>8, <1>12, <1>13, <1>14, SoldOneMore
<1>18. \A j : SoldAt(sale, j) \in Nat /\ (j # i => SoldAt(sale', j) = SoldAt(sale, j))
  <2> SUFFICES ASSUME NEW j
               PROVE  SoldAt(sale, j) \in Nat /\ (j # i => SoldAt(sale', j) = SoldAt(sale, j))
    OBVIOUS
  <2>1. SoldAt(sale, j) \in Nat
    BY <1>3, SoldNat
  <2>2. j # i => SoldAt(sale', j) = SoldAt(sale, j) + 0
    BY <1>13, <1>17
  <2> QED BY <2>1, <2>2
<1>19. TillTypes'
  BY <1>8, <1>12, <1>15, <1>17 DEF TillInv, TillTypes
<1>20. TillLinks(session', sale', clerk')
  BY <1>8, <1>15, <1>16 DEF TillLinks
<1>21. SalesAgree(session', sale')
  <2> SUFFICES ASSUME NEW j \in 1..Len(session)
               PROVE  session'[j].late \/ session'[j].sales = Price * SoldAt(sale', j)
    BY <1>15 DEF SalesAgree
  <2>1. CASE j = i
    <3>1. CASE session[i].late
      BY <1>11, <1>15, <2>1, <3>1
    <3>2. CASE session[i].sales = Price * SoldAt(sale, i)
      <4>1. PICK a : a = SoldAt(sale, i)
        OBVIOUS
      <4>2. a \in Nat /\ SoldAt(sale', i) = a + q
        BY <1>13, <1>17, <1>18, <4>1
      <4>3. raised.sales = Price * a + Price * q
        BY <1>2, <1>11, <3>2, <4>1
      <4>4. Price * (a + q) = Price * a + Price * q
        BY <1>5, <1>6, <4>2, Distributes
      <4> QED BY <1>15, <2>1, <4>2, <4>3, <4>4
    <3> QED BY <1>3, <1>4, <3>1, <3>2 DEF SalesAgree
  <2>2. CASE j # i
    BY <1>3, <1>15, <1>18, <2>2 DEF SalesAgree
  <2> QED BY <2>1, <2>2
<1>22. SumsAgree(session', sale', clerk')
  <2> SUFFICES ASSUME NEW d \in Clerks, clerk[d].at = "summed"
               PROVE  session'[clerk[d].session].late
                      \/ clerk[d].sales = Price * SoldAt(sale', clerk[d].session)
    BY <1>8 DEF SumsAgree
  <2>1. clerk[d].session \in 1..Len(session)
    BY <1>3 DEF TillLinks, Closing
  <2>2. CASE clerk[d].session = i
    BY <1>2, <1>11, <1>15, <2>1, <2>2
  <2>3. CASE clerk[d].session # i
    BY <1>3, <1>15, <1>18, <2>1, <2>3 DEF SumsAgree
  <2> QED BY <2>2, <2>3
<1>23. gl' \in [Accounts -> Int]
  BY <1>3, <1>8, <1>12, TillPosts
<1>24. /\ OnHand(acc.stock) + InTransit(acc.stock) + q = OnHand(stock) + InTransit(stock)
       /\ \A v \in Warehouses : /\ acc.stock.inv[v].transit = stock.inv[v].transit
                                /\ acc.stock.inv[v].reserved = stock.inv[v].reserved
       /\ OnHand(acc.stock) \in Nat /\ InTransit(acc.stock) \in Nat
  BY <1>3, <1>5, <1>6, <1>12, ShelfShift, ZenonT(40)
<1>25. StockCore'
  BY <1>3, <1>8, <1>12, <1>23, <1>24, StockMoved
<1>26. (GoodsNow(stock, adjusted) + SoldLess(sale, return) = OnHand(opening) + InTransit(opening))'
  <2>1. adjusted' = adjusted /\ opening' = opening
    BY <1>8 DEF StockApart
  <2>2. /\ OnHand(stock) \in Nat /\ InTransit(stock) \in Nat /\ SumLines(adjusted) \in Int
        /\ SoldAll(sale) \in Nat /\ BroughtAll(return) \in Nat
    BY <1>3, GoodsAre
  <2>3. PICK a, b, c, d, e, g, h :
          /\ a = OnHand(stock) /\ b = InTransit(stock) /\ c = SumLines(adjusted)
          /\ d = SoldAll(sale) /\ e = BroughtAll(return)
          /\ g = OnHand(acc.stock) /\ h = InTransit(acc.stock)
    OBVIOUS
  <2>4. /\ a \in Nat /\ b \in Nat /\ c \in Int /\ d \in Nat /\ e \in Nat /\ g \in Nat /\ h \in Nat
        /\ g + h + q = a + b
    BY <1>24, <2>2, <2>3
  <2>5. ((g + h) - c) + ((d + q) - e) = ((a + b) - c) + (d - e)
    BY <1>6, <2>4
  <2>6. GoodsNow(stock', adjusted') = (g + h) - c /\ SoldLess(sale', return') = (d + q) - e
    BY <1>8, <1>17, <2>1, <2>3 DEF GoodsNow, SoldLess
  <2>7. GoodsNow(stock, adjusted) = (a + b) - c /\ SoldLess(sale, return) = d - e
    BY <2>3 DEF GoodsNow, SoldLess
  <2> QED BY <2>1, <2>5, <2>6, <2>7 DEF TillInv
<1>27. ReturnsFit(sale', return', clerk') /\ ReturnsAgree(sale', return')
  BY <1>8, <1>16
<1> QED BY <1>19, <1>20, <1>21, <1>22, <1>25, <1>26, <1>27 DEF TillInv

\* ReturnRead keeps TillInv: what a request found to fit, fits.
LEMMA ReturnReadKeeps ==
  ASSUME TillInv, NEW c \in Clerks, NEW s \in DOMAIN sale, NEW f \in ReturnForms,
         ReturnRead(c, s, f)
  PROVE  TillInv'
<1>1. PICK i \in IF {j \in DOMAIN session : session[j].open} = {} THEN {0}
                 ELSE {j \in DOMAIN session : session[j].open} :
        clerk' = [clerk EXCEPT ![c] =
          [at |-> "returning", sale |-> s, items |-> f.items, cash |-> f.cash,
           session |-> i, seen |-> Len(return)]]
  BY DEF ReturnRead
<1> DEFINE k == [at |-> "returning", sale |-> s, items |-> f.items, cash |-> f.cash,
                 session |-> i, seen |-> Len(return)]
<1>2. /\ s \in Paid /\ StockApart /\ UNCHANGED <<session, sale, return, stock, gl, mixed>>
      /\ \A j \in DOMAIN f.items :
           f.items[j].line \in DOMAIN sale[s].lines /\ Fits(s, f.items[j])
  BY DEF ReturnRead, BooksApart
<1>3. TillTypes /\ f.items \in Seq(Items) /\ f.cash \in BOOLEAN
  BY TillAssumption DEF TillInv
<1>4. /\ i \in Nat /\ s \in 1..Len(sale) /\ s \in Nat \ {0} /\ sale[s].status = "paid"
      /\ Len(return) \in Nat
      /\ DOMAIN f.items = 1..Len(f.items) /\ DOMAIN sale[s].lines = 1..Len(sale[s].lines)
  <2>1. DOMAIN session = 1..Len(session) /\ Len(session) \in Nat
    BY <1>3, Elements DEF TillTypes
  <2>2. /\ DOMAIN sale = 1..Len(sale) /\ Len(sale) \in Nat
        /\ sale[s] \in SaleRows(Len(stock.layers))
    BY <1>3, Elements DEF TillTypes
  <2>3. i \in Nat
    BY <2>1
  <2>4. Len(return) \in Nat /\ DOMAIN f.items = 1..Len(f.items)
    BY <1>3, Elements DEF TillTypes
  <2>5. DOMAIN sale[s].lines = 1..Len(sale[s].lines)
    <3>1. sale[s].lines \in Seq(Nat \ {0})
      BY <2>2 DEF SaleRows
    <3> QED BY <3>1, Elements
  <2> QED BY <1>2, <2>2, <2>3, <2>4, <2>5 DEF Paid
<1>5. k \in Returning
  BY <1>3, <1>4 DEF Returning
<1>6. \A j \in 1..Len(f.items) : ItemFits(sale, return, k, f.items[j])
  <2> SUFFICES ASSUME NEW j \in 1..Len(f.items) PROVE ItemFits(sale, return, k, f.items[j])
    OBVIOUS
  <2>1. PICK item : item = f.items[j]
    OBVIOUS
  <2>2. item.line \in 1..Len(sale[s].lines) /\ item.qty + Returned(s, item.line) <= sale[s].lines[item.line]
    BY <1>2, <1>4, <2>1 DEF Fits
  <2>3. Returned(s, item.line) = NamedBy(return, s, item.line, Len(return))
    BY <1>3, ReturnSums
  <2>4. k.sale = s /\ k.seen = Len(return)
    OBVIOUS
  <2> HIDE DEF k
  <2> QED BY <2>1, <2>2, <2>3, <2>4 DEF ItemFits
<1>7. /\ k \in ClerkRows /\ ~Closing(k) /\ k.at # "summed" /\ k.sale = s /\ k.seen = Len(return)
      /\ k.items = f.items
  BY <1>5 DEF ClerkRows, Closing
<1>8. clerk' = [clerk EXCEPT ![c] = k]
  BY <1>1
<1> HIDE DEF k
<1>9. k.seen <= Len(return)
  BY <1>4, <1>7
<1> QED BY <1>2, <1>4, <1>6, <1>7, <1>8, <1>9, OneClerk

\* Returns of other sales name nothing of this one.
LEMMA NamedSince ==
  ASSUME NEW ret \in Seq(ReturnRows), NEW s, NEW l, NEW n \in 0..Len(ret),
         \A r \in 1..Len(ret) : r > n => ret[r].sale # s
  PROVE  NamedBy(ret, s, l, Len(ret)) = NamedBy(ret, s, l, n)
<1> DEFINE D == 1..Len(ret)
           R == 1..n
           v == [r \in D |-> NamedOf(ret[r], s, l)]
<1>1. Len(ret) \in Nat /\ IsFiniteSet(D) /\ \A r \in D : ret[r] \in ReturnRows
  <2>1. Len(ret) \in Nat /\ \A r \in D : ret[r] \in ReturnRows
    BY Elements
  <2> QED BY <2>1, Finite
<1>2. R \in SUBSET D /\ \A r \in D \ R : r > n
  BY <1>1
<1>3. /\ \A r \in D : v[r] \in Int
      /\ \A r \in D \ R : v[r] = 0
  BY <1>1, <1>2, NamedNat DEF NamedOf
<1>4. /\ NamedBy(ret, s, l, Len(ret)) = SumFunctionOnSet(v, D)
      /\ NamedBy(ret, s, l, n) = SumFunctionOnSet(v, R)
  BY DEF NamedBy
<1> HIDE DEF D, R, v
<1> QED BY <1>1, <1>2, <1>3, <1>4, SumSupport

\* What f names of a line is nothing, or what one item does.
OnceAs(f, l) ==
  \/ Named(f, l) = 0
  \/ \E j \in 1..Len(f.items) : f.items[j].line = l /\ Named(f, l) = f.items[j].qty

\* A request that names no line twice names of each what one item does.
LEMMA NamedOnce ==
  ASSUME NEW f, f.items \in Seq(Items), ~Twice(f.items), NEW l
  PROVE  OnceAs(f, l)
<1> DEFINE D == {k \in DOMAIN f.items : f.items[k].line = l}
           v == [k \in D |-> f.items[k].qty]
<1>1. /\ DOMAIN f.items = 1..Len(f.items) /\ IsFiniteSet(DOMAIN f.items)
      /\ \A k \in 1..Len(f.items) : f.items[k] \in Items
  BY Elements
<1>2. IsFiniteSet(D) /\ \A k \in D : v[k] \in Int /\ v[k] = f.items[k].qty
  <2>1. IsFiniteSet(D)
    BY <1>1, FS_Subset
  <2> QED BY <1>1, <2>1 DEF Items
<1>3. Named(f, l) = SumFunctionOnSet(v, D)
  BY DEF Named, SumOver
<1>4. \A k, m \in D : k = m
  BY DEF Twice
<1>5. \A k \in D : k \in 1..Len(f.items) /\ f.items[k].line = l
  BY <1>1
<1> HIDE DEF D, v
<1>6. CASE D = {}
  BY <1>3, <1>6, SumNone DEF OnceAs
<1>7. CASE D # {}
  <2>1. PICK j \in D : TRUE
    BY <1>7
  <2>2. SumFunctionOnSet(v, D) = v[j] + SumFunctionOnSet(v, D \ {j})
    BY <1>2, SumDrop
  <2>3. D \ {j} = {}
    BY <1>4
  <2>4. SumFunctionOnSet(v, D \ {j}) = 0
    BY <2>3, SumNone
  <2>5. Named(f, l) = f.items[j].qty
    BY <1>2, <1>3, <2>2, <2>4
  <2> QED BY <1>5, <2>1, <2>5 DEF OnceAs
<1> QED BY <1>6, <1>7

\* The items of a return are those of its request.
LEMMA SameItems ==
  ASSUME NEW f, NEW g, f.items = g.items
  PROVE  Brought(f) = Brought(g)
<1> DEFINE u == [k \in DOMAIN f.items |-> f.items[k].qty]
           v == [k \in DOMAIN g.items |-> g.items[k].qty]
<1>1. u = v /\ DOMAIN f.items = DOMAIN g.items
  OBVIOUS
<1>2. Brought(f) = SumFunctionOnSet(u, DOMAIN f.items) /\ Brought(g) = SumFunctionOnSet(v, DOMAIN g.items)
  BY DEF Brought, SumOver
<1> HIDE DEF u, v
<1> QED BY <1>1, <1>2

\* A return that fits is one more of its sale.
LEMMA ReturnAdded ==
  ASSUME NEW n \in Nat, NEW sa \in Seq(SaleRows(n)), NEW ret \in Seq(ReturnRows),
         NEW cl \in [Clerks -> ClerkRows], NEW ses, TillLinks(ses, sa, cl),
         ReturnsFit(sa, ret, cl), ReturnsAgree(sa, ret),
         NEW c \in Clerks, NEW k, k = cl[c], k.at = "returning",
         NEW row \in ReturnRows, row.sale = k.sale, row.items = k.items,
         row.late = \E r \in DOMAIN ret : r > k.seen /\ ret[r].sale = k.sale,
         NEW new, new = [cl EXCEPT ![c] = NotBusy],
         NEW x, x = Append(ret, row)
  PROVE  ReturnsFit(sa, x, new) /\ ReturnsAgree(sa, x)
<1> DEFINE m == Len(ret)
<1>1. /\ m \in Nat /\ DOMAIN ret = 1..m /\ Len(x) = m + 1 /\ x[m + 1] = row
      /\ x \in Seq(ReturnRows)
      /\ \A r \in 1..m : x[r] = ret[r]
      /\ \A s, l : NamedBy(x, s, l, m + 1) = NamedBy(ret, s, l, m) + NamedOf(row, s, l)
      /\ \A s, l : \A i \in 0..m : NamedBy(x, s, l, i) = NamedBy(ret, s, l, i)
  BY Elements, BroughtOneMore
<1>2. /\ \A r \in 1..m : r \in 1..(m + 1)
      /\ \A r \in 1..(m + 1) : r \in 1..m \/ r = m + 1
      /\ m + 1 \in 1..(m + 1)
  BY <1>1
<1>3. \A d \in Clerks : new[d] = IF d = c THEN NotBusy ELSE cl[d]
  OBVIOUS
<1>4. /\ k \in Returning /\ k.sale \in 1..Len(sa) /\ k.seen \in 0..m
      /\ k.items \in Seq(Items)
      /\ \A j \in 1..Len(k.items) : ItemFits(sa, ret, k, k.items[j])
  <2>1. k \in Returning
    BY ClerkFacts
  <2>2. k.seen <= m /\ \A j \in 1..Len(k.items) : ItemFits(sa, ret, k, k.items[j])
    BY DEF ReturnsFit
  <2>3. k.sale \in 1..Len(sa)
    BY DEF TillLinks
  <2>4. k.seen \in Nat /\ k.items \in Seq(Items)
    BY <2>1 DEF Returning
  <2> QED BY <1>1, <2>1, <2>2, <2>3, <2>4
<1>5. ReturnsFit(sa, x, new)
  <2> SUFFICES ASSUME NEW d \in Clerks, new[d].at = "returning"
               PROVE  /\ new[d].seen <= Len(x)
                      /\ \A j \in 1..Len(new[d].items) : ItemFits(sa, x, new[d], new[d].items[j])
    BY DEF ReturnsFit
  <2>1. PICK h : h = cl[d]
    OBVIOUS
  <2>2. new[d] = h /\ h.at = "returning" /\ h \in ClerkRows
    BY <1>3, <2>1, IdleIs
  <2>3. /\ h.seen <= m /\ \A j \in 1..Len(h.items) : ItemFits(sa, ret, h, h.items[j])
        /\ h.seen \in Nat
    <3>1. h \in Returning
      BY <2>2, ClerkFacts
    <3> QED BY <2>1, <2>2, <3>1 DEF ReturnsFit, Returning
  <2>4. h.seen \in 0..m /\ h.seen <= m + 1
    BY <1>1, <2>3
  <2>5. \A l : NamedBy(x, h.sale, l, h.seen) = NamedBy(ret, h.sale, l, h.seen)
    BY <1>1, <2>4
  <2>6. \A j \in 1..Len(h.items) : ItemFits(sa, x, h, h.items[j])
    BY <2>3, <2>5 DEF ItemFits
  <2> QED BY <1>1, <2>2, <2>4, <2>6
<1>6. \A r \in 1..Len(x) : x[r].sale \in 1..Len(sa)
  BY <1>1, <1>2, <1>4 DEF ReturnsAgree
<1>7. ASSUME NEW s \in 1..Len(sa), sa[s].status = "paid", Orderly(x, s),
             NEW l \in 1..Len(sa[s].lines)
      PROVE  NamedBy(x, s, l, Len(x)) <= sa[s].lines[l]
  <2>1. Orderly(ret, s)
    BY <1>1, <1>2, <1>7 DEF Orderly
  <2>2. NamedBy(ret, s, l, m) <= sa[s].lines[l]
    BY <1>7, <2>1 DEF ReturnsAgree
  <2>3. NamedBy(x, s, l, Len(x)) = NamedBy(ret, s, l, m) + NamedOf(row, s, l)
    BY <1>1
  <2>4. NamedBy(ret, s, l, m) \in Nat
    <3>1. m \in 0..m
      BY <1>1
    <3> QED BY <3>1, BroughtNat
  <2>5. CASE NamedOf(row, s, l) = 0
    BY <2>2, <2>3, <2>4, <2>5
  <2>6. CASE NamedOf(row, s, l) # 0
    <3>1. s = k.sale /\ NamedOf(row, s, l) = Named(row, l) /\ Named(row, l) # 0
      BY <2>6 DEF NamedOf
    <3>2. ~row.late /\ ~Twice(row.items)
      BY <1>1, <1>2, <1>7, <3>1 DEF Orderly
    <3>3. PICK j \in 1..Len(row.items) : row.items[j].line = l /\ Named(row, l) = row.items[j].qty
      <4>1. row.items \in Seq(Items)
        BY <1>4
      <4>2. OnceAs(row, l)
        BY <3>2, <4>1, NamedOnce
      <4> QED BY <3>1, <4>2 DEF OnceAs
    <3>4. PICK item : item = k.items[j]
      OBVIOUS
    <3>5. /\ item.qty + NamedBy(ret, s, l, k.seen) <= sa[s].lines[l]
          /\ NamedOf(row, s, l) = item.qty
      BY <1>4, <3>1, <3>3, <3>4 DEF ItemFits
    <3>6. NamedBy(ret, s, l, m) = NamedBy(ret, s, l, k.seen)
      <4>1. PICK i : i = k.seen
        OBVIOUS
      <4>2. i \in 0..Len(ret) /\ \A r \in 1..Len(ret) : r > i => ret[r].sale # s
        BY <1>1, <1>4, <3>1, <3>2, <4>1
      <4>3. NamedBy(ret, s, l, Len(ret)) = NamedBy(ret, s, l, i)
        BY <4>2, NamedSince
      <4> QED BY <4>1, <4>3
    <3>7. item.qty \in Nat
      <4>1. \A h \in 1..Len(k.items) : k.items[h] \in Items
        BY <1>4, Elements
      <4>2. j \in 1..Len(k.items)
        BY <3>3
      <4>3. item \in Items
        BY <3>4, <4>1, <4>2
      <4> QED BY <4>3 DEF Items
    <3>8. PICK a, b, e : a = item.qty /\ b = NamedBy(ret, s, l, m) /\ e = sa[s].lines[l]
      OBVIOUS
    <3>9. a \in Nat /\ b \in Nat /\ a + b <= e /\ NamedBy(x, s, l, Len(x)) = b + a
      BY <2>3, <2>4, <3>5, <3>6, <3>7, <3>8
    <3>10. b + a = a + b
      BY <3>9
    <3> QED BY <3>8, <3>9, <3>10
  <2> QED BY <2>5, <2>6
<1> QED BY <1>5, <1>6, <1>7 DEF ReturnsAgree

\* ReturnWrite keeps TillInv: a return puts its pieces back.
LEMMA ReturnWriteKeeps ==
  ASSUME TillInv, NEW c \in Clerks, ReturnWrite(c)
  PROVE  TillInv'
<1>1. PICK k, s, n : k = clerk[c] /\ s = k.sale /\ n = Len(stock.layers)
  OBVIOUS
<1>2. PICK unit, taken, i : unit = sale[s].unit /\ taken = sale[s].taken /\ i = sale[s].session
  OBVIOUS
<1>3. PICK acc : acc = BackItems(stock, unit, taken, mixed, k.items)
  OBVIOUS
<1>4. PICK q, refund, late, entered :
        /\ q = Brought(k) /\ refund = Refund(k)
        /\ late = \E r \in DOMAIN return : r > k.seen /\ return[r].sale = k.sale
        /\ entered = (Entry("pos-return", FirstReturn + Len(return)) \notin posted)
  OBVIOUS
<1> DEFINE row == [sale |-> k.sale, items |-> k.items, cash |-> k.cash, session |-> k.session,
                   partly |-> acc.partly, late |-> late, entered |-> entered]
           left == [sale[s] EXCEPT !.taken = acc.rows]
           paid == [session[i] EXCEPT !.returns = @ + refund]
           m == Len(acc.stock.layers)
<1>5. /\ StockCore /\ TillTypes /\ stock \in Stocks /\ mixed \in BOOLEAN /\ n \in Nat
      /\ session \in Seq(SessionRows) /\ sale \in Seq(SaleRows(n)) /\ return \in Seq(ReturnRows)
      /\ clerk \in [Clerks -> ClerkRows] /\ gl \in [Accounts -> Int]
      /\ TillLinks(session, sale, clerk) /\ SalesAgree(session, sale)
      /\ SumsAgree(session, sale, clerk)
      /\ ReturnsFit(sale, return, clerk) /\ ReturnsAgree(sale, return)
  BY <1>1, LengthNat DEF TillInv, TillTypes, StockCore, Types
<1>6. /\ k.at = "returning" /\ stock' = acc.stock /\ mixed' = acc.mixed /\ StockApart
      /\ sale' = [sale EXCEPT ![k.sale].taken = acc.rows]
      /\ return' = Append(return, row)
      /\ clerk' = [clerk EXCEPT ![c] = NotBusy]
      /\ PostTill("pos-return", FirstReturn + Len(return), "cash", -Refund(k), -Cents(acc.value))
  <2>1. acc = BackItems(stock, sale[k.sale].unit, sale[k.sale].taken, mixed, k.items)
    BY <1>1, <1>2, <1>3, Zenon
  <2>2. /\ k.at = "returning" /\ stock' = acc.stock /\ mixed' = acc.mixed /\ StockApart
        /\ sale' = [sale EXCEPT ![k.sale].taken = acc.rows]
        /\ clerk' = [clerk EXCEPT ![c] = NotBusy]
        /\ PostTill("pos-return", FirstReturn + Len(return), "cash", -Refund(k), -Cents(acc.value))
    BY <1>1, <2>1, Zenon DEF ReturnWrite
  <2>3. return' = Append(return, row)
    BY <1>1, <1>4, <2>1, ZenonT(40) DEF ReturnWrite
  <2> QED BY <2>2, <2>3, Zenon
<1>7. session' = [session EXCEPT ![sale[k.sale].session].returns = @ + Refund(k)]
  BY <1>1, Zenon DEF ReturnWrite
<1>8. k \in Returning /\ s \in 1..Len(sale) /\ sale[s] \in SaleRows(n)
      /\ i \in 1..Len(session) /\ session[i] \in SessionRows
  <2>1. k \in Returning /\ s \in 1..Len(sale)
    BY <1>1, <1>5, <1>6, ClerkFacts DEF TillLinks
  <2>2. i \in 1..Len(session) /\ sale[s] \in SaleRows(n)
    BY <1>2, <1>5, <2>1, Elements DEF TillLinks
  <2> QED BY <1>5, <2>1, <2>2, Elements
<1>9. k.items \in Seq(Items) /\ q \in Nat /\ refund \in Nat /\ late \in BOOLEAN /\ entered \in BOOLEAN
  <2>1. k.items \in Seq(Items)
    BY <1>8 DEF Returning
  <2> QED BY <1>4, <2>1, ItemsAre
<1>10. acc \in BackAcc /\ BackUpTo(stock, q, acc)
  <2>1. unit \in Nat /\ taken \in Seq(Takings(Len(stock.layers)))
    BY <1>1, <1>2, <1>8 DEF SaleRows
  <2> QED BY <1>3, <1>4, <1>5, <1>9, <2>1, BackIs
<1>11. /\ acc.stock \in Stocks /\ Shift(stock, acc.stock, q, {}, {Shop}, {}, {})
       /\ Covered(acc.stock) /\ acc.value \in Nat /\ acc.mixed \in BOOLEAN /\ acc.partly \in BOOLEAN
       /\ acc.rows \in Seq(Takings(m)) /\ m \in Nat /\ n <= m
  <2>1. /\ acc.stock \in Stocks /\ Shift(stock, acc.stock, q, {}, {Shop}, {}, {})
        /\ Covered(acc.stock) /\ acc.value \in Nat /\ acc.mixed \in BOOLEAN /\ acc.partly \in BOOLEAN
        /\ acc.rows \in Seq(Takings(m))
    BY <1>5, <1>10 DEF BackAcc, BackUpTo, StockCore
  <2>2. m \in Nat
    BY <2>1, TillAssumption, LayerFacts
  <2> QED BY <1>1, <2>1, <2>2 DEF Shift, Kept
<1>12. row \in ReturnRows /\ row.sale = k.sale /\ row.items = k.items /\ row.late = late
  <2>1. row \in ReturnRows
    BY <1>8, <1>9, <1>11 DEF Returning, ReturnRows
  <2> QED BY <2>1
<1>13. Brought(row) = q
  <2>1. PICK r : r = row
    OBVIOUS
  <2>2. r.items = k.items
    BY <1>12, <2>1
  <2> QED BY <1>4, <2>1, <2>2, SameItems
<1> HIDE DEF row
<1>14. /\ return' \in Seq(ReturnRows) /\ BroughtAll(return') = BroughtAll(return) + q
  BY <1>5, <1>6, <1>12, <1>13, BroughtOneMore
<1>15. ReturnsFit(sale, return', clerk') /\ ReturnsAgree(sale, return')
  <2>1. row.late = \E r \in DOMAIN return : r > k.seen /\ return[r].sale = k.sale
    BY <1>4, <1>12
  <2> QED BY <1>1, <1>5, <1>6, <1>12, <2>1, ReturnAdded
<1>16. /\ clerk' \in [Clerks -> ClerkRows]
       /\ \A d \in Clerks : clerk'[d] = IF d = c THEN NotBusy ELSE clerk[d]
  BY <1>5, <1>6, IdleIs
<1>17. /\ left \in SaleRows(m) /\ left.session = sale[s].session /\ left.lines = sale[s].lines
       /\ left.status = sale[s].status
  <2>1. sale[s] \in SaleRows(m)
    BY <1>5, <1>8, <1>11, RowsWider
  <2> QED BY <1>11, <2>1 DEF SaleRows
<1>18. sale' = [sale EXCEPT ![s] = left]
  BY <1>1, <1>5, <1>6, <1>8
<1>19. sale \in Seq(SaleRows(m))
  BY <1>5, <1>11, RowsWider
<1> HIDE DEF left
<1>20. /\ sale' \in Seq(SaleRows(m)) /\ Len(sale') = Len(sale)
       /\ \A j \in 1..Len(sale) : sale'[j] = IF j = s THEN left ELSE sale[j]
  BY <1>8, <1>17, <1>18, <1>19, ExceptSeq
<1>21. \A j \in 1..Len(sale) : /\ sale'[j].session = sale[j].session /\ sale'[j].lines = sale[j].lines
                               /\ sale'[j].status = "paid" <=> sale[j].status = "paid"
  <2> SUFFICES ASSUME NEW j \in 1..Len(sale)
               PROVE  /\ sale'[j].session = sale[j].session /\ sale'[j].lines = sale[j].lines
                      /\ sale'[j].status = sale[j].status
    OBVIOUS
  <2>1. CASE j = s
    BY <1>17, <1>20, <2>1
  <2>2. CASE j # s
    BY <1>20, <2>2
  <2> QED BY <2>1, <2>2
<1>22. paid \in SessionRows /\ paid.late = session[i].late /\ paid.sales = session[i].sales
  <2>1. PICK a : a = session[i].returns + refund
    OBVIOUS
  <2>2. paid = [session[i] EXCEPT !.returns = a]
    BY <2>1
  <2>3. a \in Nat
    BY <1>8, <1>9, <2>1 DEF SessionRows
  <2> HIDE DEF paid
  <2> QED BY <1>8, <2>2, <2>3 DEF SessionRows
<1>23. session' = [session EXCEPT ![i] = paid]
  BY <1>1, <1>2, <1>4, <1>5, <1>7, <1>8
<1> HIDE DEF paid
<1>24. /\ session' \in Seq(SessionRows) /\ Len(session') = Len(session)
       /\ \A j \in 1..Len(session) : session'[j] = IF j = i THEN paid ELSE session[j]
  BY <1>5, <1>8, <1>22, <1>23, ExceptSeq
<1>25. \A j \in 1..Len(session) : session'[j].late = session[j].late /\ session'[j].sales = session[j].sales
  BY <1>22, <1>24
<1>26. /\ TillLinks(session', sale, clerk') /\ SalesAgree(session', sale)
       /\ SumsAgree(session', sale, clerk')
  <2>1. TillLinks(session', sale, clerk')
    BY <1>5, <1>16, <1>24, IdleIs DEF TillLinks
  <2>2. SalesAgree(session', sale)
    BY <1>5, <1>24, <1>25 DEF SalesAgree
  <2>3. SumsAgree(session', sale, clerk')
    BY <1>5, <1>16, <1>25, IdleIs DEF SumsAgree, TillLinks, Closing
  <2> QED BY <2>1, <2>2, <2>3
<1>27. /\ TillLinks(session', sale', clerk') /\ SalesAgree(session', sale')
       /\ SumsAgree(session', sale', clerk')
       /\ ReturnsFit(sale', return', clerk') /\ ReturnsAgree(sale', return')
       /\ SoldAll(sale') = SoldAll(sale)
  BY <1>15, <1>20, <1>21, <1>26, SaleChanged
<1>28. TillTypes'
  BY <1>6, <1>11, <1>14, <1>16, <1>20, <1>24 DEF TillTypes
<1>29. gl' \in [Accounts -> Int]
  <2>1. Cents(acc.value) \in Int
    BY <1>11, CentsInt
  <2>2. -Cents(acc.value) \in Int
    BY <2>1
  <2> QED BY <1>5, <1>6, <2>2, TillPosts
<1>30. /\ OnHand(acc.stock) + InTransit(acc.stock) = OnHand(stock) + InTransit(stock) + q
       /\ \A v \in Warehouses : /\ acc.stock.inv[v].transit = stock.inv[v].transit
                                /\ acc.stock.inv[v].reserved = stock.inv[v].reserved
       /\ OnHand(acc.stock) \in Nat /\ InTransit(acc.stock) \in Nat
  BY <1>5, <1>9, <1>11, TillAssumption, ShelfShift
<1>31. StockCore'
  BY <1>5, <1>6, <1>11, <1>29, <1>30, StockMoved
<1>32. (GoodsNow(stock, adjusted) + SoldLess(sale, return) = OnHand(opening) + InTransit(opening))'
  <2>1. adjusted' = adjusted /\ opening' = opening
    BY <1>6 DEF StockApart
  <2>2. /\ OnHand(stock) \in Nat /\ InTransit(stock) \in Nat /\ SumLines(adjusted) \in Int
        /\ SoldAll(sale) \in Nat /\ BroughtAll(return) \in Nat
    BY <1>5, GoodsAre
  <2>3. PICK a, b, z, d, e, g, h :
          /\ a = OnHand(stock) /\ b = InTransit(stock) /\ z = SumLines(adjusted)
          /\ d = SoldAll(sale) /\ e = BroughtAll(return)
          /\ g = OnHand(acc.stock) /\ h = InTransit(acc.stock)
    OBVIOUS
  <2>4. /\ a \in Nat /\ b \in Nat /\ z \in Int /\ d \in Nat /\ e \in Nat /\ g \in Nat /\ h \in Nat
        /\ g + h = a + b + q
    BY <1>30, <2>2, <2>3
  <2>5. ((g + h) - z) + (d - (e + q)) = ((a + b) - z) + (d - e)
    BY <1>9, <2>4
  <2>6. GoodsNow(stock', adjusted') = (g + h) - z /\ SoldLess(sale', return') = d - (e + q)
    BY <1>6, <1>14, <1>27, <2>1, <2>3 DEF GoodsNow, SoldLess
  <2>7. GoodsNow(stock, adjusted) = (a + b) - z /\ SoldLess(sale, return) = d - e
    BY <2>3 DEF GoodsNow, SoldLess
  <2> QED BY <2>1, <2>5, <2>6, <2>7 DEF TillInv
<1> QED BY <1>27, <1>28, <1>31, <1>32 DEF TillInv

(***************************************************************************)
(* The tills: their inductive invariant                                    *)
(***************************************************************************)
\* Before the first session there is nothing to agree with.
LEMMA TillInitHolds ==
  ASSUME PosInit
  PROVE  TillInv
<1>1. /\ Init /\ session = <<>> /\ sale = <<>> /\ return = <<>>
      /\ clerk = [c \in Clerks |-> NotBusy] /\ mixed = FALSE
  BY DEF PosInit
<1>2. StockInv
  BY <1>1, InitHolds
<1>3. StockCore /\ GoodsNow(stock, adjusted) = OnHand(opening) + InTransit(opening)
  BY <1>2 DEF StockInv
<1>4. stock \in Stocks
  BY <1>3 DEF StockCore, Types
<1>5. \A c \in Clerks : clerk[c] = NotBusy /\ ~Closing(clerk[c])
                        /\ clerk[c].at # "summed" /\ clerk[c].at # "returning"
  BY <1>1, IdleIs
<1>6. /\ session \in Seq(SessionRows) /\ sale \in Seq(SaleRows(Len(stock.layers)))
      /\ return \in Seq(ReturnRows) /\ Len(session) = 0 /\ Len(sale) = 0 /\ Len(return) = 0
  BY <1>1
<1>7. TillTypes
  <2>1. clerk \in [Clerks -> ClerkRows]
    BY <1>1, IdleIs
  <2> QED BY <1>1, <1>4, <1>6, <2>1 DEF TillTypes
<1>8. 1..0 = {}
  OBVIOUS
<1>9. /\ \A i \in 1..Len(session) : FALSE
      /\ \A s \in 1..Len(sale) : FALSE
      /\ \A r \in 1..Len(return) : FALSE
  BY <1>6, <1>8
<1>10. /\ TillLinks(session, sale, clerk) /\ SalesAgree(session, sale)
       /\ SumsAgree(session, sale, clerk)
  BY <1>5, <1>9 DEF TillLinks, SalesAgree, SumsAgree
<1>11. ReturnsFit(sale, return, clerk) /\ ReturnsAgree(sale, return)
  BY <1>5, <1>9 DEF ReturnsFit, ReturnsAgree
<1>12. SoldLess(sale, return) = 0
  <2>1. SoldAll(sale) = 0
    BY <1>6, <1>8, SumNone DEF SoldAll
  <2>2. BroughtAll(return) = 0
    BY <1>6, <1>8, SumNone DEF BroughtAll
  <2> QED BY <2>1, <2>2 DEF SoldLess
<1>13. OnHand(stock) \in Nat /\ InTransit(stock) \in Nat /\ SumLines(adjusted) \in Int
  BY <1>3, <1>7, GoodsAre
<1>14. GoodsNow(stock, adjusted) + SoldLess(sale, return) = GoodsNow(stock, adjusted)
  <2>1. GoodsNow(stock, adjusted) \in Int
    BY <1>13 DEF GoodsNow
  <2> QED BY <1>12, <2>1
<1> QED BY <1>3, <1>7, <1>10, <1>11, <1>14 DEF TillInv

\* Every step keeps it.
LEMMA TillInvStep == TillInv /\ [PosNext]_<<vars, posVars>> => TillInv'
<1> SUFFICES ASSUME TillInv, [PosNext]_<<vars, posVars>> PROVE TillInv'
  OBVIOUS
<1>1. CASE OpenSession
  BY <1>1, OpenSessionKeeps
<1>2. CASE \E i \in DOMAIN session : Hold(i)
  BY <1>2, HoldKeeps
<1>3. CASE \E i \in DOMAIN session : \E f \in SaleForms : Sell(i, f)
  BY <1>3, SellKeeps
<1>4. CASE \E s \in DOMAIN sale : CancelHeld(s)
  BY <1>4, CancelHeldKeeps
<1>5. CASE \E c \in Clerks : \E i \in DOMAIN session, gap \in Gaps : CloseRead(c, i, gap)
  BY <1>5, CloseReadKeeps
<1>6. CASE \E c \in Clerks : CloseSum(c)
  BY <1>6, CloseSumKeeps
<1>7. CASE \E c \in Clerks : CloseWrite(c)
  BY <1>7, CloseWriteKeeps
<1>8. CASE \E c \in Clerks : ReturnWrite(c)
  BY <1>8, ReturnWriteKeeps
<1>9. CASE \E c \in Clerks : \E s \in DOMAIN sale, f \in ReturnForms : ReturnRead(c, s, f)
  BY <1>9, ReturnReadKeeps
<1>10. CASE StockStep
  BY <1>10, StockStepKeeps
<1>11. CASE UNCHANGED <<vars, posVars>>
  BY <1>11, TillStutters
<1> QED BY <1>1, <1>2, <1>3, <1>4, <1>5, <1>6, <1>7, <1>8, <1>9, <1>10, <1>11 DEF PosNext

\* The inductive invariant of the tills over the stock.
THEOREM TillInvariant == PosSpec => []TillInv
<1>1. PosInit => TillInv
  BY TillInitHolds
<1> QED BY <1>1, TillInvStep, PTL DEF PosSpec

\* The goods of the shop: what is on hand and on its way is what there was, the
\* counts, less what was sold, plus what was returned, and the reservations of
\* orders stay covered, for all tills, sales, returns and shipments.
THEOREM TillGoods == PosSpec => []ShopStock
<1>1. TillInv => ShopStock
  <2> SUFFICES ASSUME TillInv PROVE ShopStock
    OBVIOUS
  <2>1. StockCore /\ TillTypes
    BY DEF TillInv
  <2>2. PICK a, b, c, d, e, g :
          /\ a = OnHand(stock) /\ b = InTransit(stock) /\ c = SumLines(adjusted)
          /\ d = SoldAll(sale) /\ e = BroughtAll(return)
          /\ g = OnHand(opening) + InTransit(opening)
    OBVIOUS
  <2>3. a \in Nat /\ b \in Nat /\ c \in Int /\ d \in Nat /\ e \in Nat
    BY <2>1, <2>2, GoodsAre
  <2>4. ((a + b) - c) + (d - e) = g
    BY <2>2 DEF TillInv, GoodsNow, SoldLess
  <2>5. SoldNet = d - e
    <3>1. SumOver(Paid, Pieces) = d
      BY <2>1, <2>2, PaidSums
    <3>2. SumOver(DOMAIN return, LAMBDA r : Brought(return[r])) = e
      BY <2>1, <2>2, ReturnSums
    <3> QED BY <3>1, <3>2 DEF SoldNet
  <2>6. a + b = g + (c - (d - e))
    BY <2>3, <2>4
  <2>7. OnHand(stock) + InTransit(stock)
          = OnHand(opening) + InTransit(opening) + SumLines(adjusted) - SoldNet
    BY <2>2, <2>5, <2>6, Zenon
  <2>8. ReservationsCovered
    BY <2>1, ReservationsAre
  <2> QED BY <2>7, <2>8 DEF ShopStock
<1> QED BY <1>1, TillInvariant, PTL

\* The total of a session is the sum of its paid orders, unless one of them
\* committed while a closing waited with its sums.
THEOREM TillSessions == PosSpec => []SessionSales
<1>1. TillInv => SessionSales
  <2> SUFFICES ASSUME TillInv PROVE SessionSales
    OBVIOUS
  <2>1. TillTypes /\ SalesAgree(session, sale)
    BY DEF TillInv
  <2>2. DOMAIN session = 1..Len(session)
    BY <2>1, Elements DEF TillTypes
  <2> SUFFICES ASSUME NEW i \in DOMAIN session, ~session[i].late
               PROVE  session[i].sales = Price * SumOver(PaidIn(i), Pieces)
    BY DEF SessionSales
  <2>3. session[i].sales = Price * SoldAt(sale, i)
    BY <2>1, <2>2 DEF SalesAgree
  <2>4. SumOver(PaidIn(i), Pieces) = SoldAt(sale, i)
    BY <2>1, PaidSums
  <2> QED BY <2>3, <2>4
<1> QED BY <1>1, TillInvariant, PTL

\* No more of a line comes back than was sold, over all the returns of a sale
\* that neither overlap nor name a line twice.
THEOREM TillReturns == PosSpec => []ReturnsWithinSale
<1>1. TillInv => ReturnsWithinSale
  <2> SUFFICES ASSUME TillInv PROVE ReturnsWithinSale
    OBVIOUS
  <2>1. TillTypes /\ ReturnsAgree(sale, return)
    BY DEF TillInv
  <2>2. /\ DOMAIN return = 1..Len(return) /\ DOMAIN sale = 1..Len(sale)
        /\ \A s \in 1..Len(sale) : sale[s] \in SaleRows(Len(stock.layers))
    BY <2>1, Elements DEF TillTypes
  <2> SUFFICES ASSUME NEW s \in Paid,
                      \A r \in DOMAIN return : return[r].sale = s => ~return[r].late /\ ~Repeating(r),
                      NEW l \in DOMAIN sale[s].lines
               PROVE  Returned(s, l) <= sale[s].lines[l]
    BY DEF ReturnsWithinSale
  <2>3. s \in 1..Len(sale) /\ sale[s].status = "paid"
    BY <2>2 DEF Paid
  <2>4. l \in 1..Len(sale[s].lines)
    <3>1. sale[s].lines \in Seq(Nat \ {0})
      BY <2>2, <2>3 DEF SaleRows
    <3> QED BY <3>1, Elements
  <2>5. Orderly(return, s)
    BY <2>2 DEF Orderly, Repeating, Twice
  <2>6. NamedBy(return, s, l, Len(return)) <= sale[s].lines[l]
    BY <2>1, <2>3, <2>4, <2>5 DEF ReturnsAgree
  <2>7. Returned(s, l) = NamedBy(return, s, l, Len(return))
    BY <2>1, ReturnSums
  <2> QED BY <2>6, <2>7
<1> QED BY <1>1, TillInvariant, PTL
(***************************************************************************)
(* The tills: the layers, the shelf and the account                        *)
(***************************************************************************)
\* What the rows of the sales still have of layer j, the lines of the sales,
\* and the pieces that were counted.
TakenBy(sa, j)     == [s \in 1..Len(sa) |-> Weight(sa[s].taken, Of(j))]
Outstanding(sa, j) == SumFunctionOnSet(TakenBy(sa, j), 1..Len(sa))
LinesOf(sa)        == [s \in 1..Len(sa) |-> Len(sa[s].lines)]
LineCount(sa)      == SumFunctionOnSet(LinesOf(sa), 1..Len(sa))
Size(d)            == AtLeast(d, -d)
SizesOf(adj)       == [i \in 1..Len(adj) |-> Size(adj[i])]
Sizes(adj)         == SumFunctionOnSet(SizesOf(adj), 1..Len(adj))

\* A sale's rows, and its lines.
LEMMA TakenIs ==
  ASSUME NEW n \in Nat, NEW row \in SaleRows(n), NEW j
  PROVE  /\ row.taken \in Seq(Takings(n)) /\ Len(row.lines) \in Nat
         /\ Weight(row.taken, Of(j)) \in Nat
         /\ j \notin 1..n => Weight(row.taken, Of(j)) = 0
<1>1. PICK s : s = row.taken
  OBVIOUS
<1>2. s \in Seq(Takings(n)) /\ row.lines \in Seq(Nat \ {0})
  BY <1>1 DEF SaleRows
<1>3. Len(row.lines) \in Nat
  BY <1>2, Elements
<1>4. Takings(n) \subseteq Taking
  BY DEF Takings, Taking
<1>5. s \in Seq(Taking)
  BY <1>2, <1>4, Wider
<1>6. PICK k, g : k = Len(s) /\ g = Of(j)
  OBVIOUS
<1>7. PICK u : u = [i \in 1..k |-> g[s[i]]]
  OBVIOUS
<1>8. /\ k \in Nat /\ \A i \in 1..k : s[i] \in Takings(n) /\ s[i] \in Taking
  <2>1. k \in Nat /\ \A i \in 1..k : s[i] \in Takings(n)
    BY <1>2, <1>6, Elements
  <2> QED BY <1>4, <2>1
<1>9. (\A r \in Taking : g[r] \in Int) /\ \A i \in 1..k : u[i] = g[s[i]] /\ u[i] \in Nat
  BY <1>6, <1>7, <1>8, OfIs
<1>10. /\ Weight(s, g) = SumFunctionOnSet(u, 1..k)
       /\ (\A i \in 1..k : u[i] \in Nat) => Weight(s, g) \in Nat
  BY <1>5, <1>6, <1>9, WeightIs
<1>11. j \notin 1..n => Weight(s, g) = 0
  <2> SUFFICES ASSUME j \notin 1..n PROVE Weight(s, g) = 0
    OBVIOUS
  <2>1. \A i \in 1..k : u[i] = 0
    <3> SUFFICES ASSUME NEW i \in 1..k PROVE u[i] = 0
      OBVIOUS
    <3>1. s[i].layer # j
      BY <1>8 DEF Takings
    <3>2. g[s[i]] = IF s[i].layer = j THEN s[i].qty ELSE 0
      BY <1>6, <1>8, OfIs
    <3> QED BY <1>9, <3>1, <3>2
  <2>2. IsFiniteSet(1..k)
    BY <1>8, Finite
  <2>3. SumFunctionOnSet(u, 1..k) = 0
    BY <2>1, <2>2, SumNothing
  <2> QED BY <1>10, <2>3
<1> QED BY <1>1, <1>2, <1>3, <1>6, <1>9, <1>10, <1>11

\* What the sales have of a layer, and their lines, are not negative.
LEMMA OutstandingNat ==
  ASSUME NEW n \in Nat, NEW sa \in Seq(SaleRows(n)), NEW j
  PROVE  Outstanding(sa, j) \in Nat /\ LineCount(sa) \in Nat
<1>1. PICK D, u, v : D = 1..Len(sa) /\ u = TakenBy(sa, j) /\ v = LinesOf(sa)
  OBVIOUS
<1>2. IsFiniteSet(D) /\ \A s \in D : sa[s] \in SaleRows(n)
  BY <1>1, Elements
<1>3. \A s \in D : u[s] \in Nat /\ v[s] \in Nat
  BY <1>1, <1>2, TakenIs DEF TakenBy, LinesOf
<1>4. SumFunctionOnSet(u, D) \in Nat /\ SumFunctionOnSet(v, D) \in Nat
  BY <1>2, <1>3, SumNat
<1> QED BY <1>1, <1>4 DEF Outstanding, LineCount

\* A new sale adds its own.
LEMMA OutstandingMore ==
  ASSUME NEW n \in Nat, NEW sa \in Seq(SaleRows(n)), NEW row \in SaleRows(n), NEW j
  PROVE  /\ Outstanding(Append(sa, row), j) = Outstanding(sa, j) + Weight(row.taken, Of(j))
         /\ LineCount(Append(sa, row)) = LineCount(sa) + Len(row.lines)
<1>1. PICK m, x : m = Len(sa) /\ x = Append(sa, row)
  OBVIOUS
<1>2. /\ m \in Nat /\ Len(x) = m + 1 /\ x[m + 1] = row
      /\ \A s \in 1..m : x[s] = sa[s] /\ sa[s] \in SaleRows(n)
  BY <1>1, Elements, Appended
<1>3. PICK u, w, a, b : /\ u = TakenBy(sa, j) /\ w = TakenBy(x, j)
                        /\ a = LinesOf(sa) /\ b = LinesOf(x)
  OBVIOUS
<1>4. m + 1 \in 1..(m + 1) /\ \A s \in 1..m : s \in 1..(m + 1)
  BY <1>2
<1>5. PICK e, f : e = Weight(row.taken, Of(j)) /\ f = Len(row.lines)
  OBVIOUS
<1>6. m \in Nat
  BY <1>2
<1>7. \A s \in 1..m : u[s] = Weight(sa[s].taken, Of(j)) /\ a[s] = Len(sa[s].lines)
  BY <1>1, <1>3 DEF TakenBy, LinesOf
<1>8. \A s \in 1..(m + 1) : w[s] = Weight(x[s].taken, Of(j)) /\ b[s] = Len(x[s].lines)
  BY <1>2, <1>3 DEF TakenBy, LinesOf
<1>9. e \in Int /\ f \in Int /\ \A s \in 1..m : u[s] \in Int /\ a[s] \in Int
  <2>1. e \in Nat /\ f \in Nat
    BY <1>5, TakenIs
  <2>2. \A s \in 1..m : u[s] \in Nat /\ a[s] \in Nat
    BY <1>2, <1>7, TakenIs
  <2> QED BY <2>1, <2>2
<1>10. w[m + 1] = e /\ b[m + 1] = f
  BY <1>2, <1>4, <1>5, <1>8
<1>11. \A s \in 1..m : w[s] = u[s] /\ b[s] = a[s]
  BY <1>2, <1>4, <1>7, <1>8
<1>12. e \in Int /\ w[m + 1] = e /\ \A s \in 1..m : u[s] \in Int /\ w[s] = u[s]
  BY <1>9, <1>10, <1>11
<1>13. f \in Int /\ b[m + 1] = f /\ \A s \in 1..m : a[s] \in Int /\ b[s] = a[s]
  BY <1>9, <1>10, <1>11
<1>14. SumFunctionOnSet(w, 1..(m + 1)) = SumFunctionOnSet(u, 1..m) + e
  BY <1>6, <1>12, SumAppended
<1>15. SumFunctionOnSet(b, 1..(m + 1)) = SumFunctionOnSet(a, 1..m) + f
  BY <1>6, <1>13, SumAppended
<1> QED BY <1>1, <1>2, <1>3, <1>5, <1>14, <1>15 DEF Outstanding, LineCount

\* A sale whose rows change has more or less of the layer.
LEMMA OutstandingChanged ==
  ASSUME NEW n \in Nat, NEW sa \in Seq(SaleRows(n)), NEW x \in Seq(SaleRows(n)),
         Len(x) = Len(sa), NEW s \in 1..Len(sa), \A i \in 1..Len(sa) : i # s => x[i] = sa[i],
         x[s].lines = sa[s].lines, NEW j
  PROVE  /\ Outstanding(x, j)
              = Outstanding(sa, j) + Weight(x[s].taken, Of(j)) - Weight(sa[s].taken, Of(j))
         /\ LineCount(x) = LineCount(sa)
<1>1. PICK D : D = 1..Len(sa)
  OBVIOUS
<1>2. IsFiniteSet(D) /\ \A i \in D : sa[i] \in SaleRows(n) /\ x[i] \in SaleRows(n)
  BY <1>1, Elements
<1>3. PICK u, w, a, b : /\ u = TakenBy(sa, j) /\ w = TakenBy(x, j)
                        /\ a = LinesOf(sa) /\ b = LinesOf(x)
  OBVIOUS
<1>4. \A i \in D : u[i] = Weight(sa[i].taken, Of(j)) /\ w[i] = Weight(x[i].taken, Of(j))
  BY <1>1, <1>3 DEF TakenBy
<1>5. \A i \in D : u[i] \in Int /\ w[i] \in Int
  <2>1. \A i \in D : u[i] \in Nat /\ w[i] \in Nat
    BY <1>2, <1>4, TakenIs
  <2> QED BY <2>1
<1>6. \A i \in D \ {s} : u[i] = w[i]
  BY <1>1, <1>4
<1>7. SumFunctionOnSet(w, D) = SumFunctionOnSet(u, D) + w[s] - u[s]
  <2>1. IsFiniteSet(D) /\ s \in D
    BY <1>1, <1>2
  <2> QED BY <1>5, <1>6, <2>1, SumMove
<1>8. \A i \in D : a[i] = b[i]
  BY <1>1, <1>3 DEF LinesOf
<1>9. SumFunctionOnSet(a, D) = SumFunctionOnSet(b, D)
  BY <1>2, <1>8, SumSame
<1>10. s \in D
  BY <1>1
<1> QED BY <1>1, <1>3, <1>7, <1>9, <1>4, <1>10 DEF Outstanding, LineCount

\* The size of what was counted grows with each count.
LEMMA SizesMore ==
  ASSUME NEW adj \in Seq(Int), NEW d \in Int
  PROVE  /\ Sizes(adj) \in Nat /\ Sizes(Append(adj, d)) = Sizes(adj) + Size(d)
         /\ Size(d) \in Nat
         /\ Len(adj) \in Nat /\ Len(Append(adj, d)) = Len(adj) + 1
<1>1. PICK m, x : m = Len(adj) /\ x = Append(adj, d)
  OBVIOUS
<1>2. /\ m \in Nat /\ Len(x) = m + 1 /\ x[m + 1] = d
      /\ \A i \in 1..m : x[i] = adj[i] /\ adj[i] \in Int
  BY <1>1, Elements, Appended
<1>3. PICK u, w, e : u = SizesOf(adj) /\ w = SizesOf(x) /\ e = Size(d)
  OBVIOUS
<1>4. m + 1 \in 1..(m + 1) /\ IsFiniteSet(1..m) /\ \A i \in 1..m : i \in 1..(m + 1)
  BY <1>2, Finite
<1>5. \A z \in Int : Size(z) \in Nat
  BY DEF Size, AtLeast
<1>6. e \in Nat /\ w[m + 1] = e /\ \A i \in 1..m : u[i] \in Nat /\ w[i] = u[i]
  BY <1>1, <1>2, <1>3, <1>4, <1>5 DEF SizesOf
<1>7. SumFunctionOnSet(w, 1..(m + 1)) = SumFunctionOnSet(u, 1..m) + e
  <2>1. e \in Int /\ \A i \in 1..m : u[i] \in Int
    BY <1>6
  <2> QED BY <1>2, <1>6, <2>1, SumAppended
<1>8. SumFunctionOnSet(u, 1..m) \in Nat
  BY <1>4, <1>6, SumNat
<1> QED BY <1>1, <1>2, <1>3, <1>6, <1>7, <1>8 DEF Sizes

\* What the property is conditioned on, and how far the account may be off.
Clean(ret) == \A r \in 1..Len(ret) : ~ret[r].partly
Entered(sa, ret) ==
  /\ \A s \in 1..Len(sa) : sa[s].status = "paid" => sa[s].entered
  /\ \A r \in 1..Len(ret) : ret[r].entered
Rounds(sa, ret, adj) == 100 * (LineCount(sa) + Len(ret) + Len(adj)) + Sizes(adj)

\* What an opening layer lacks at least, the sales' rows have; and these are of
\* layers of the shop.
LayersAgree(st, sa) ==
  /\ Len(opening.layers) <= Len(st.layers)
  /\ \A j \in 1..Len(opening.layers) :
       st.layers[j].left + Outstanding(sa, j) <= opening.layers[j].left
  /\ \A s \in 1..Len(sa) : OwnRows(st, sa[s].taken)

\* The layers follow the shelf, and the account follows the layers.
Level(st, t)       == Holds(t, "pieces") - Holds(st, "pieces") = t.inv[Shop].qty - st.inv[Shop].qty
Near(st, t, by, e) == 2 * ((Holds(t, "value") - Holds(st, "value")) - by) \in (-e)..e

BooksAgree(st, sa, ret, adj, g, mix) ==
  Clean(ret) =>
    /\ Holds(st, "pieces") <= st.inv[Shop].qty
    /\ mix \/ Level(opening, st)
    /\ mix \/ ~Entered(sa, ret) \/ Near(opening, st, g, Rounds(sa, ret, adj))

Subledger ==
  LayersAgree(stock, sale) /\ BooksAgree(stock, sale, return, adjusted, gl[Shop], mixed)

\* Two moves make one, and their roundings add up.
LEMMA Moves2 ==
  ASSUME NEW st \in Stocks, NEW t \in Stocks, opening \in Stocks
  PROVE  /\ Level(opening, st) /\ Level(st, t) => Level(opening, t)
         /\ \A g, h \in Int, d, e, r \in Nat :
              Near(opening, st, g, d) /\ Near(st, t, h - g, e) /\ d + e <= r => Near(opening, t, h, r)
<1>1. PICK a, b, c, x, y, z :
        /\ a = Holds(opening, "pieces") /\ b = Holds(st, "pieces") /\ c = Holds(t, "pieces")
        /\ x = opening.inv[Shop].qty /\ y = st.inv[Shop].qty /\ z = t.inv[Shop].qty
  OBVIOUS
<1>2. {a, b, c, x, y, z} \subseteq Int
  <2>1. a \in Nat /\ b \in Nat /\ c \in Nat
    BY <1>1, HoldsAre
  <2>2. x \in Nat /\ y \in Nat /\ z \in Nat
    BY <1>1, TillAssumption, RowFacts
  <2> QED BY <2>1, <2>2
<1>3. Level(opening, st) /\ Level(st, t) => Level(opening, t)
  <2>1. (b - a = y - x) /\ (c - b = z - y) => (c - a = z - x)
    BY <1>2
  <2> QED BY <1>1, <2>1 DEF Level
<1>4. ASSUME NEW g \in Int, NEW h \in Int, NEW d \in Nat, NEW e \in Nat, NEW r \in Nat,
             Near(opening, st, g, d), Near(st, t, h - g, e), d + e <= r
      PROVE  Near(opening, t, h, r)
  <2>1. PICK u, v, w : u = Holds(opening, "value") /\ v = Holds(st, "value") /\ w = Holds(t, "value")
    OBVIOUS
  <2>2. u \in Nat /\ v \in Nat /\ w \in Nat
    BY <2>1, HoldsAre
  <2>3. 2 * ((v - u) - g) \in (-d)..d /\ 2 * ((w - v) - (h - g)) \in (-e)..e
    BY <1>4, <2>1 DEF Near
  <2>4. 2 * ((w - u) - h) \in (-r)..r
    BY <1>4, <2>2, <2>3
  <2> QED BY <2>1, <2>4 DEF Near
<1> QED BY <1>3, <1>4

\* A step keeps the books if it moves layers, shelf and account alike.
LEMMA BooksKept ==
  ASSUME NEW st \in Stocks, NEW t \in Stocks, opening \in Stocks,
         NEW sa, NEW sb, NEW ret, NEW reb, NEW adj, NEW adk, NEW g \in Int, NEW h \in Int,
         NEW mix \in BOOLEAN, NEW nix \in BOOLEAN, NEW e \in Nat,
         Rounds(sa, ret, adj) \in Nat, Rounds(sb, reb, adk) \in Nat,
         Rounds(sa, ret, adj) + e <= Rounds(sb, reb, adk),
         BooksAgree(st, sa, ret, adj, g, mix), Clean(reb) => Clean(ret),
         Clean(reb) => Holds(t, "pieces") <= t.inv[Shop].qty,
         Clean(reb) => nix \/ (~mix /\ Level(st, t)),
         Clean(reb) => nix \/ ~Entered(sb, reb) \/ (Entered(sa, ret) /\ Near(st, t, h - g, e))
  PROVE  BooksAgree(t, sb, reb, adk, h, nix)
<1> SUFFICES ASSUME Clean(reb)
             PROVE  /\ Holds(t, "pieces") <= t.inv[Shop].qty
                    /\ nix \/ Level(opening, t)
                    /\ nix \/ ~Entered(sb, reb) \/ Near(opening, t, h, Rounds(sb, reb, adk))
  BY DEF BooksAgree
<1>1. PICK d, r : d = Rounds(sa, ret, adj) /\ r = Rounds(sb, reb, adk)
  OBVIOUS
<1>2. d \in Nat /\ r \in Nat /\ d + e <= r
  BY <1>1
<1>3. (mix \/ Level(opening, st)) /\ (mix \/ ~Entered(sa, ret) \/ Near(opening, st, g, d))
  BY <1>1 DEF BooksAgree
<1>4. nix \/ Level(opening, t)
  BY <1>3, Moves2
<1>5. nix \/ ~Entered(sb, reb) \/ Near(opening, t, h, r)
  BY <1>2, <1>3, Moves2
<1> QED BY <1>1, <1>4, <1>5

\* How many roundings there are at most.
LEMMA RoundsAre ==
  ASSUME NEW n \in Nat, NEW sa \in Seq(SaleRows(n)), NEW ret \in Seq(ReturnRows), NEW adj \in Seq(Int)
  PROVE  /\ Rounds(sa, ret, adj) \in Nat
         /\ \A row \in SaleRows(n) :
              Rounds(Append(sa, row), ret, adj) = Rounds(sa, ret, adj) + 100 * Len(row.lines)
         /\ \A row \in ReturnRows :
              Rounds(sa, Append(ret, row), adj) = Rounds(sa, ret, adj) + 100
         /\ \A d \in Int : /\ Size(d) \in Nat
                           /\ Rounds(sa, ret, Append(adj, d)) = Rounds(sa, ret, adj) + (100 + Size(d))
<1>1. PICK a, b, c, s : a = LineCount(sa) /\ b = Len(ret) /\ c = Len(adj) /\ s = Sizes(adj)
  OBVIOUS
<1>2. a \in Nat /\ b \in Nat /\ c \in Nat /\ s \in Nat
  <2>1. a \in Nat
    BY <1>1, OutstandingNat
  <2>2. b \in Nat /\ c \in Nat
    BY <1>1, Elements
  <2>3. s \in Nat
    <3>1. 0 \in Int
      OBVIOUS
    <3> QED BY <1>1, <3>1, SizesMore
  <2> QED BY <2>1, <2>2, <2>3
<1>3. Rounds(sa, ret, adj) = 100 * (a + b + c) + s
  BY <1>1 DEF Rounds
<1>4. ASSUME NEW row \in SaleRows(n)
      PROVE  Rounds(Append(sa, row), ret, adj) = Rounds(sa, ret, adj) + 100 * Len(row.lines)
  <2>1. PICK k : k = Len(row.lines)
    OBVIOUS
  <2>2. k \in Nat /\ LineCount(Append(sa, row)) = a + k
    BY <1>1, <2>1, TakenIs, OutstandingMore
  <2>3. Rounds(Append(sa, row), ret, adj) = 100 * ((a + k) + b + c) + s
    BY <1>1, <2>2 DEF Rounds
  <2>4. 100 * ((a + k) + b + c) + s = (100 * (a + b + c) + s) + 100 * k
    BY <1>2, <2>2
  <2> QED BY <1>3, <2>1, <2>3, <2>4
<1>5. ASSUME NEW row \in ReturnRows
      PROVE  Rounds(sa, Append(ret, row), adj) = Rounds(sa, ret, adj) + 100
  <2>1. Len(Append(ret, row)) = b + 1
    BY <1>1, Appended
  <2>2. Rounds(sa, Append(ret, row), adj) = 100 * (a + (b + 1) + c) + s
    BY <1>1, <2>1 DEF Rounds
  <2> QED BY <1>2, <1>3, <2>2
<1>6. ASSUME NEW d \in Int
      PROVE  /\ Size(d) \in Nat
             /\ Rounds(sa, ret, Append(adj, d)) = Rounds(sa, ret, adj) + (100 + Size(d))
  <2>1. PICK k : k = Size(d)
    OBVIOUS
  <2>2. k \in Nat /\ Len(Append(adj, d)) = c + 1 /\ Sizes(Append(adj, d)) = s + k
    BY <1>1, <2>1, SizesMore
  <2>3. Rounds(sa, ret, Append(adj, d)) = 100 * (a + b + (c + 1)) + (s + k)
    BY <1>1, <2>2 DEF Rounds
  <2> QED BY <1>2, <1>3, <2>1, <2>2, <2>3
<1>7. Rounds(sa, ret, adj) \in Nat
  BY <1>2, <1>3
<1> QED BY <1>4, <1>5, <1>6, <1>7

\* What a row that is added to the tables does to the conditions.
LEMMA ConditionsMore ==
  ASSUME NEW n \in Nat, NEW sa \in Seq(SaleRows(n)), NEW ret \in Seq(ReturnRows)
  PROVE  /\ \A row \in SaleRows(n) :
              Entered(Append(sa, row), ret)
                => Entered(sa, ret) /\ (row.status = "paid" => row.entered)
         /\ \A row \in ReturnRows :
              /\ Clean(Append(ret, row)) => Clean(ret) /\ ~row.partly
              /\ Entered(sa, Append(ret, row)) => Entered(sa, ret) /\ row.entered
<1>1. ASSUME NEW row \in SaleRows(n), Entered(Append(sa, row), ret)
      PROVE  Entered(sa, ret) /\ (row.status = "paid" => row.entered)
  <2>1. PICK m, x : m = Len(sa) /\ x = Append(sa, row)
    OBVIOUS
  <2>2. /\ m \in Nat /\ Len(x) = m + 1 /\ x[m + 1] = row /\ \A s \in 1..m : x[s] = sa[s]
    BY <2>1, Elements, Appended
  <2>3. m + 1 \in 1..(m + 1) /\ \A s \in 1..m : s \in 1..(m + 1)
    BY <2>2
  <2> QED BY <1>1, <2>1, <2>2, <2>3 DEF Entered
<1>2. ASSUME NEW row \in ReturnRows
      PROVE  /\ Clean(Append(ret, row)) => Clean(ret) /\ ~row.partly
             /\ Entered(sa, Append(ret, row)) => Entered(sa, ret) /\ row.entered
  <2>1. PICK m, x : m = Len(ret) /\ x = Append(ret, row)
    OBVIOUS
  <2>2. /\ m \in Nat /\ Len(x) = m + 1 /\ x[m + 1] = row /\ \A s \in 1..m : x[s] = ret[s]
    BY <2>1, Elements, Appended
  <2>3. m + 1 \in 1..(m + 1) /\ \A s \in 1..m : s \in 1..(m + 1)
    BY <2>2
  <2>4. Clean(x) => Clean(ret) /\ ~row.partly
    BY <2>1, <2>2, <2>3 DEF Clean
  <2>5. Entered(sa, x) => Entered(sa, ret) /\ row.entered
    BY <2>1, <2>2, <2>3 DEF Entered
  <2> QED BY <2>1, <2>4, <2>5
<1> QED BY <1>1, <1>2

\* Layers that stay where they are, in front of new ones.
Stays(st, t) ==
  /\ Len(st.layers) <= Len(t.layers)
  /\ \A i \in 1..Len(st.layers) : t.layers[i].wh = st.layers[i].wh

\* Rows of the shop's layers stay so while layers are added anywhere.
LEMMA OwnStays ==
  ASSUME NEW st \in Stocks, NEW t \in Stocks, Stays(st, t),
         NEW row \in SaleRows(Len(st.layers)), OwnRows(st, row.taken)
  PROVE  OwnRows(t, row.taken)
<1> SUFFICES ASSUME NEW i \in 1..Len(t.layers), t.layers[i].wh # Shop
             PROVE  Weight(row.taken, Of(i)) = 0
  BY DEF OwnRows
<1>1. PICK n : n = Len(st.layers)
  OBVIOUS
<1>2. n \in Nat
  BY <1>1, HoldsAre
<1>3. CASE i \in 1..n
  <2>1. st.layers[i].wh # Shop
    BY <1>1, <1>3 DEF Stays
  <2> QED BY <1>1, <1>3, <2>1 DEF OwnRows
<1>4. CASE i \notin 1..n
  <2>1. row \in SaleRows(n)
    BY <1>1
  <2> QED BY <1>2, <1>4, <2>1, TakenIs
<1> QED BY <1>3, <1>4

\* A sale's goods flow from the layers to its rows.
LEMMA LayersSold ==
  ASSUME NEW st \in Stocks, NEW t \in Stocks, opening \in Stocks,
         NEW sa \in Seq(SaleRows(Len(st.layers))), LayersAgree(st, sa),
         NEW row \in SaleRows(Len(t.layers)), Flow(st, <<>>, t, row.taken)
  PROVE  LayersAgree(t, Append(sa, row))
<1>1. PICK n, m, k, x, p : /\ n = Len(st.layers) /\ m = Len(t.layers) /\ k = Len(sa)
                           /\ x = Append(sa, row) /\ p = Len(opening.layers)
  OBVIOUS
<1>2. /\ n \in Nat /\ m \in Nat /\ p \in Nat /\ n <= m /\ p <= n /\ Stays(st, t)
      /\ k \in Nat /\ \A s \in 1..k : sa[s] \in SaleRows(n)
  <2>1. n \in Nat /\ m \in Nat /\ p \in Nat
    BY <1>1, HoldsAre
  <2>2. n <= m /\ Stays(st, t)
    BY <1>1 DEF Flow, Stays
  <2>3. p <= n
    BY <1>1 DEF LayersAgree
  <2> QED BY <1>1, <2>1, <2>2, <2>3, Elements
<1>3. sa \in Seq(SaleRows(m)) /\ row \in SaleRows(m)
  BY <1>1, <1>2, RowsWider
<1>4. Len(x) = k + 1 /\ x[k + 1] = row /\ \A s \in 1..k : x[s] = sa[s]
  BY <1>1, <1>3, Appended
<1>5. ASSUME NEW j \in 1..p
      PROVE  t.layers[j].left + Outstanding(x, j) <= opening.layers[j].left
  <2>1. j \in 1..n
    BY <1>2
  <2>2. PICK a, b, o, w, q : /\ a = st.layers[j].left /\ b = t.layers[j].left
                             /\ o = Outstanding(sa, j) /\ w = Weight(row.taken, Of(j))
                             /\ q = opening.layers[j].left
    OBVIOUS
  <2>3. Outstanding(x, j) = o + w
    BY <1>1, <1>2, <1>3, <2>2, OutstandingMore
  <2>4. b + w = a
    <3>1. b + w = a + Weight(<<>>, Of(j))
      BY <1>1, <2>1, <2>2 DEF Flow
    <3>2. a \in Nat
      BY <1>1, <2>1, <2>2, HoldsAre DEF Layers
    <3> QED BY <3>1, <3>2, WeightNone
  <2>5. a + o <= q
    BY <1>1, <2>2 DEF LayersAgree
  <2>6. b \in Int /\ o \in Int /\ w \in Int
    <3>1. t.layers[j] \in Layers
      BY <1>1, <1>2, <2>1, HoldsAre
    <3>2. o \in Nat
      BY <1>1, <1>2, <2>2, OutstandingNat
    <3>3. w \in Nat
      BY <1>2, <1>3, <2>2, TakenIs
    <3> QED BY <2>2, <3>1, <3>2, <3>3 DEF Layers
  <2>7. b + (o + w) <= q
    BY <2>4, <2>5, <2>6
  <2> QED BY <2>2, <2>3, <2>7
<1>6. ASSUME NEW s \in 1..(k + 1) PROVE OwnRows(t, x[s].taken)
  <2>1. CASE s = k + 1
    <3>1. OwnRows(st, <<>>)
      BY WeightNone DEF OwnRows
    <3>2. OwnRows(t, row.taken)
      BY <3>1, FlowOwn
    <3> QED BY <1>4, <2>1, <3>2
  <2>2. CASE s \in 1..k
    <3>1. sa[s] \in SaleRows(Len(st.layers)) /\ OwnRows(st, sa[s].taken)
      BY <1>1, <1>2, <2>2 DEF LayersAgree
    <3>2. OwnRows(t, sa[s].taken)
      BY <1>2, <3>1, OwnStays
    <3> QED BY <1>4, <2>2, <3>2
  <2> QED BY <1>2, <2>1, <2>2
<1>7. p <= m
  BY <1>2
<1> QED BY <1>1, <1>4, <1>5, <1>6, <1>7 DEF LayersAgree

\* One row of the sales changes, and not in its lines.
OneChanges(sa, x, s) ==
  /\ Len(x) = Len(sa) /\ x[s].lines = sa[s].lines
  /\ \A i \in 1..Len(sa) : i # s => x[i] = sa[i]

\* A return's goods flow from the rows of its sale to the layers.
LEMMA LayersReturned ==
  ASSUME NEW st \in Stocks, NEW t \in Stocks, opening \in Stocks,
         NEW sa \in Seq(SaleRows(Len(st.layers))), LayersAgree(st, sa),
         NEW x \in Seq(SaleRows(Len(t.layers))), NEW s \in 1..Len(sa), OneChanges(sa, x, s),
         Flow(st, sa[s].taken, t, x[s].taken)
  PROVE  LayersAgree(t, x)
<1>1. PICK n, m, k, p : /\ n = Len(st.layers) /\ m = Len(t.layers) /\ k = Len(sa)
                        /\ p = Len(opening.layers)
  OBVIOUS
<1>2. /\ Len(x) = Len(sa) /\ x[s].lines = sa[s].lines
      /\ \A i \in 1..Len(sa) : i # s => x[i] = sa[i]
  BY DEF OneChanges
<1>3. /\ n \in Nat /\ m \in Nat /\ p \in Nat /\ n <= m /\ p <= n /\ Stays(st, t)
      /\ k \in Nat /\ \A i \in 1..k : sa[i] \in SaleRows(n)
  <2>1. n \in Nat /\ m \in Nat /\ p \in Nat
    BY <1>1, HoldsAre
  <2>2. n <= m /\ Stays(st, t)
    BY <1>1 DEF Flow, Stays
  <2>3. p <= n
    BY <1>1 DEF LayersAgree
  <2> QED BY <1>1, <2>1, <2>2, <2>3, Elements
<1>4. sa \in Seq(SaleRows(m)) /\ x \in Seq(SaleRows(m))
  BY <1>1, <1>3, RowsWider
<1>5. /\ \A i \in 1..k : sa[i] \in SaleRows(m)
      /\ \A i \in 1..k : x[i] \in SaleRows(m)
  BY <1>1, <1>2, <1>4, Elements
<1>6. ASSUME NEW j \in 1..p
      PROVE  t.layers[j].left + Outstanding(x, j) <= opening.layers[j].left
  <2>1. j \in 1..n /\ j \in 1..m
    BY <1>3
  <2>2. PICK a, b, o, v, w, q : /\ a = st.layers[j].left /\ b = t.layers[j].left
                                /\ o = Outstanding(sa, j) /\ v = Weight(sa[s].taken, Of(j))
                                /\ w = Weight(x[s].taken, Of(j))
                                /\ q = opening.layers[j].left
    OBVIOUS
  <2>3. Outstanding(x, j) = o + w - v
    <3>1. Outstanding(x, j)
            = Outstanding(sa, j) + Weight(x[s].taken, Of(j)) - Weight(sa[s].taken, Of(j))
      BY <1>2, <1>3, <1>4, OutstandingChanged
    <3> QED BY <2>2, <3>1
  <2>4. b + w = a + v
    BY <1>1, <2>1, <2>2 DEF Flow
  <2>5. a + o <= q
    BY <1>1, <2>2 DEF LayersAgree
  <2>6. a \in Int /\ b \in Int /\ o \in Int /\ v \in Int /\ w \in Int
    <3>1. t.layers[j] \in Layers /\ st.layers[j] \in Layers
      BY <1>1, <2>1, HoldsAre
    <3>2. o \in Nat
      BY <1>3, <1>4, <2>2, OutstandingNat
    <3>3. v \in Nat /\ w \in Nat
      BY <1>1, <1>3, <1>5, <2>2, TakenIs
    <3> QED BY <2>2, <3>1, <3>2, <3>3 DEF Layers
  <2>7. b + (o + w - v) = a + o
    BY <2>4, <2>6
  <2> QED BY <2>2, <2>3, <2>5, <2>7
<1>7. ASSUME NEW i \in 1..k PROVE OwnRows(t, x[i].taken)
  <2>1. sa[i] \in SaleRows(Len(st.layers)) /\ OwnRows(st, sa[i].taken)
    BY <1>1, <1>3 DEF LayersAgree
  <2>2. CASE i = s
    BY <2>1, <2>2, FlowOwn
  <2>3. CASE i # s
    <3>1. OwnRows(t, sa[i].taken)
      BY <1>3, <2>1, OwnStays
    <3> QED BY <1>1, <1>2, <2>3, <3>1
  <2> QED BY <2>2, <2>3
<1>8. p <= m
  BY <1>3
<1> QED BY <1>1, <1>2, <1>6, <1>7, <1>8 DEF LayersAgree

\* A count takes from the layers, or makes one.
LEMMA LayersCounted ==
  ASSUME NEW st \in Stocks, NEW t \in Stocks, opening \in Stocks,
         NEW sa \in Seq(SaleRows(Len(st.layers))), LayersAgree(st, sa), Stays(st, t),
         \A i \in 1..Len(st.layers) : t.layers[i].left <= st.layers[i].left
  PROVE  LayersAgree(t, sa)
<1>1. PICK n, m, k, p : /\ n = Len(st.layers) /\ m = Len(t.layers) /\ k = Len(sa)
                        /\ p = Len(opening.layers)
  OBVIOUS
<1>2. /\ n \in Nat /\ m \in Nat /\ p \in Nat /\ n <= m /\ p <= n
      /\ \A i \in 1..k : sa[i] \in SaleRows(n)
  <2>1. n \in Nat /\ m \in Nat /\ p \in Nat
    BY <1>1, HoldsAre
  <2>2. n <= m
    BY <1>1 DEF Stays
  <2>3. p <= n
    BY <1>1 DEF LayersAgree
  <2> QED BY <1>1, <2>1, <2>2, <2>3, Elements
<1>3. ASSUME NEW j \in 1..p
      PROVE  t.layers[j].left + Outstanding(sa, j) <= opening.layers[j].left
  <2>1. j \in 1..n /\ j \in 1..m
    BY <1>2
  <2>2. PICK a, b, o, q : /\ a = st.layers[j].left /\ b = t.layers[j].left
                          /\ o = Outstanding(sa, j) /\ q = opening.layers[j].left
    OBVIOUS
  <2>3. a + o <= q /\ b <= a
    BY <1>1, <2>1, <2>2 DEF LayersAgree
  <2>4. a \in Int /\ b \in Int /\ o \in Int /\ q \in Int
    <3>1. t.layers[j] \in Layers /\ st.layers[j] \in Layers /\ opening.layers[j] \in Layers
      BY <1>1, <2>1, HoldsAre
    <3>2. o \in Nat
      BY <1>1, <1>2, <2>2, OutstandingNat
    <3> QED BY <2>2, <3>1, <3>2 DEF Layers
  <2>5. b + o <= q
    BY <2>3, <2>4
  <2> QED BY <2>2, <2>5
<1>4. ASSUME NEW i \in 1..k PROVE OwnRows(t, sa[i].taken)
  <2>1. sa[i] \in SaleRows(Len(st.layers)) /\ OwnRows(st, sa[i].taken)
    BY <1>1, <1>2 DEF LayersAgree
  <2> QED BY <2>1, OwnStays
<1>5. p <= m
  BY <1>2
<1> QED BY <1>1, <1>3, <1>4, <1>5 DEF LayersAgree

\* What the layers, the shelf and the account are after a step.
LEMMA SubledgerNext ==
  ASSUME opening' = opening, LayersAgree(stock', sale'),
         BooksAgree(stock', sale', return', adjusted', gl'[Shop], mixed')
  PROVE  Subledger'
<1>1. LayersAgree(stock, sale)'
  BY DEF LayersAgree
<1>2. BooksAgree(stock, sale, return, adjusted, gl[Shop], mixed)'
  BY DEF BooksAgree, Level, Near
<1> QED BY <1>1, <1>2 DEF Subledger

\* A step that touches none of them keeps them.
LEMMA SubledgerSame ==
  ASSUME Subledger, UNCHANGED <<opening, stock, sale, return, adjusted, gl, mixed>>
  PROVE  Subledger'
<1>1. LayersAgree(stock', sale') /\ BooksAgree(stock', sale', return', adjusted', gl'[Shop], mixed')
  BY DEF Subledger
<1> QED BY <1>1, SubledgerNext

\* Layers and a shelf that stay are level, and no account has to move.
LEMMA StaysLevel ==
  ASSUME NEW st \in Stocks, NEW t \in Stocks, t.layers = st.layers,
         t.inv[Shop].qty = st.inv[Shop].qty, NEW g \in Int, NEW e \in Nat
  PROVE  /\ Level(st, t) /\ Near(st, t, g - g, e) /\ Stays(st, t) /\ Flow(st, <<>>, t, <<>>)
         /\ \A m : Holds(t, m) = Holds(st, m)
<1>1. Flow(st, <<>>, t, <<>>) /\ \A m : Holds(t, m) = Holds(st, m)
  BY FlowNone
<1>2. PICK p, v, y : p = Holds(st, "pieces") /\ v = Holds(st, "value") /\ y = st.inv[Shop].qty
  OBVIOUS
<1>3. p \in Nat /\ v \in Nat /\ y \in Nat /\ Len(st.layers) \in Nat
  BY <1>2, TillAssumption, HoldsAre, RowFacts
<1>4. Level(st, t)
  BY <1>1, <1>2, <1>3 DEF Level
<1>5. Near(st, t, g - g, e)
  <2>1. 2 * ((v - v) - (g - g)) \in (-e)..e
    BY <1>3
  <2> QED BY <1>1, <1>2, <2>1 DEF Near
<1>6. Stays(st, t)
  BY <1>3 DEF Stays
<1> QED BY <1>1, <1>4, <1>5, <1>6

\* The types of what Subledger is of.
LEMMA SubledgerTypes ==
  ASSUME TillInv
  PROVE  /\ stock \in Stocks /\ opening \in Stocks /\ sale \in Seq(SaleRows(Len(stock.layers)))
         /\ return \in Seq(ReturnRows) /\ adjusted \in Seq(Int) /\ mixed \in BOOLEAN
         /\ Len(stock.layers) \in Nat /\ Shop \in Warehouses /\ Shop \in Accounts
         /\ gl \in [Accounts -> Int] /\ gl[Shop] \in Int
<1>1. Shop \in Warehouses /\ Shop \in Accounts
  BY TillAssumption, AccountFacts
<1>2. stock \in Stocks /\ opening \in Stocks /\ adjusted \in Seq(Int) /\ gl \in [Accounts -> Int]
  BY DEF TillInv, StockCore, Types
<1>3. /\ sale \in Seq(SaleRows(Len(stock.layers))) /\ return \in Seq(ReturnRows) /\ mixed \in BOOLEAN
  BY DEF TillInv, TillTypes
<1>4. Len(stock.layers) \in Nat
  BY <1>2, HoldsAre
<1>5. gl[Shop] \in Int
  BY <1>1, <1>2
<1> QED BY <1>1, <1>2, <1>3, <1>4, <1>5

\* Hold keeps Subledger: an order on hold took nothing.
LEMMA HoldSubledger ==
  ASSUME TillInv, Subledger, NEW i \in DOMAIN session, Hold(i)
  PROVE  Subledger'
<1> DEFINE row == [status |-> "hold", session |-> i, lines |-> <<>>, account |-> "none",
                   unit |-> 0, taken |-> <<>>, entered |-> FALSE]
           n == Len(stock.layers)
<1>1. /\ sale' = Append(sale, row)
      /\ UNCHANGED <<opening, return, stock, adjusted, gl, mixed>>
  BY DEF Hold, BooksApart, StockApart
<1>2. /\ stock \in Stocks /\ opening \in Stocks /\ sale \in Seq(SaleRows(n))
      /\ return \in Seq(ReturnRows) /\ adjusted \in Seq(Int) /\ mixed \in BOOLEAN
      /\ n \in Nat /\ gl[Shop] \in Int
  BY SubledgerTypes
<1>3. i \in Nat \ {0}
  <2>1. DOMAIN session = 1..Len(session) /\ Len(session) \in Nat
    BY Elements DEF TillInv, TillTypes
  <2> QED BY <2>1
<1>4. row \in SaleRows(n) /\ row.taken = <<>> /\ Len(row.lines) = 0 /\ row.status # "paid"
  <2>1. <<>> \in Seq(Nat \ {0}) /\ <<>> \in Seq(Takings(n)) /\ Len(<<>>) = 0
    OBVIOUS
  <2>2. row \in SaleRows(n)
    BY <1>3, <2>1 DEF SaleRows
  <2> QED BY <2>1, <2>2
<1> HIDE DEF row
<1>5. PICK g, e : g = gl[Shop] /\ e = 0
  OBVIOUS
<1>6. g \in Int /\ e \in Nat
  BY <1>2, <1>5
<1>7. /\ Level(stock, stock) /\ Near(stock, stock, g - g, e) /\ Flow(stock, <<>>, stock, <<>>)
  BY <1>2, <1>6, StaysLevel
<1>8. LayersAgree(stock, sale')
  BY <1>1, <1>2, <1>4, <1>7, LayersSold DEF Subledger
<1>9. /\ Rounds(sale, return, adjusted) \in Nat /\ Rounds(sale', return, adjusted) \in Nat
      /\ Rounds(sale, return, adjusted) + e <= Rounds(sale', return, adjusted)
  <2>1. PICK a, b : a = Rounds(sale, return, adjusted) /\ b = Rounds(sale', return, adjusted)
    OBVIOUS
  <2>2. a \in Nat /\ \A r \in SaleRows(n) :
          Rounds(Append(sale, r), return, adjusted) = a + 100 * Len(r.lines)
    <3>1. PICK k : k = n
      OBVIOUS
    <3>2. k \in Nat /\ sale \in Seq(SaleRows(k))
      BY <1>2, <3>1
    <3>3. /\ Rounds(sale, return, adjusted) \in Nat
          /\ \A r \in SaleRows(k) : Rounds(Append(sale, r), return, adjusted)
                                      = Rounds(sale, return, adjusted) + 100 * Len(r.lines)
      BY <1>2, <3>2, RoundsAre
    <3> QED BY <2>1, <3>1, <3>3
  <2>3. b = a + 100 * 0
    BY <1>1, <1>4, <2>1, <2>2
  <2>4. b = a
    BY <2>2, <2>3
  <2> QED BY <1>5, <2>1, <2>2, <2>4
<1>10. Entered(sale', return) => Entered(sale, return)
  BY <1>1, <1>2, <1>4, ConditionsMore
<1>11. BooksAgree(stock, sale', return, adjusted, g, mixed)
  <2>1. BooksAgree(stock, sale, return, adjusted, g, mixed)
    BY <1>5 DEF Subledger
  <2>2. Clean(return) => Holds(stock, "pieces") <= stock.inv[Shop].qty
    BY <2>1 DEF BooksAgree
  <2>3. Clean(return) => mixed \/ (~mixed /\ Level(stock, stock))
    BY <1>7
  <2>4. Clean(return) => \/ mixed \/ ~Entered(sale', return)
                         \/ Entered(sale, return) /\ Near(stock, stock, g - g, e)
    BY <1>7, <1>10
  <2> QED BY <1>2, <1>6, <1>9, <2>1, <2>2, <2>3, <2>4, BooksKept
<1> QED BY <1>1, <1>5, <1>8, <1>11, SubledgerNext

\* CancelHeld keeps Subledger: an order on hold took nothing.
LEMMA CancelHeldSubledger ==
  ASSUME TillInv, Subledger, NEW s \in DOMAIN sale, CancelHeld(s)
  PROVE  Subledger'
<1> DEFINE n == Len(stock.layers)
           row == [sale[s] EXCEPT !.status = "deleted"]
<1>1. /\ sale[s].status = "hold"
      /\ UNCHANGED <<opening, return, stock, adjusted, gl, mixed>>
  BY DEF CancelHeld, BooksApart, StockApart
<1>2. /\ stock \in Stocks /\ opening \in Stocks /\ sale \in Seq(SaleRows(n))
      /\ n \in Nat /\ s \in 1..Len(sale) /\ sale[s] \in SaleRows(n)
  <2>1. stock \in Stocks /\ opening \in Stocks /\ sale \in Seq(SaleRows(n)) /\ n \in Nat
    BY SubledgerTypes
  <2> QED BY <2>1, Elements
<1>3. sale' = [sale EXCEPT ![s] = row]
  BY <1>2 DEF CancelHeld
<1>4. /\ row \in SaleRows(n) /\ row.lines = sale[s].lines /\ row.taken = sale[s].taken
      /\ row.entered = sale[s].entered /\ row.status # "paid"
  BY <1>2 DEF SaleRows
<1> HIDE DEF row
<1>5. /\ sale' \in Seq(SaleRows(n)) /\ Len(sale') = Len(sale)
      /\ \A j \in 1..Len(sale) : sale'[j] = IF j = s THEN row ELSE sale[j]
  BY <1>2, <1>3, <1>4, ExceptSeq
<1>6. sale'[s].lines = sale[s].lines /\ sale'[s].taken = sale[s].taken
      /\ \A j \in 1..Len(sale) : j # s => sale'[j] = sale[j]
  BY <1>2, <1>4, <1>5
<1>7. LayersAgree(stock, sale')
  <2>1. Flow(stock, sale[s].taken, stock, sale'[s].taken)
    BY <1>2, <1>6, FlowNone
  <2>2. OneChanges(sale, sale', s)
    BY <1>5, <1>6 DEF OneChanges
  <2> QED BY <1>2, <1>5, <2>1, <2>2, LayersReturned DEF Subledger
<1>8. Rounds(sale', return, adjusted) = Rounds(sale, return, adjusted)
  <2>1. LineCount(sale') = LineCount(sale)
    BY <1>2, <1>5, <1>6, OutstandingChanged
  <2> QED BY <2>1 DEF Rounds
<1>9. Entered(sale', return) => Entered(sale, return)
  BY <1>1, <1>5, <1>6 DEF Entered
<1>10. BooksAgree(stock, sale', return, adjusted, gl[Shop], mixed)
  BY <1>8, <1>9 DEF Subledger, BooksAgree
<1> QED BY <1>1, <1>7, <1>10, SubledgerNext

\* What a posting does to the shop's account.
LEMMA TillPosted ==
  ASSUME gl \in [Accounts -> Int], NEW source, NEW id, NEW account, NEW amount, NEW cost \in Int,
         PostTill(source, id, account, amount, cost)
  PROVE  /\ gl'[Shop] \in Int
         /\ Entry(source, id) \notin posted => gl'[Shop] = gl[Shop] - cost
<1>1. Shop \in Accounts
  BY TillAssumption, AccountFacts
<1>2. IF Entry(source, id) \in posted THEN gl' = gl ELSE gl' = [gl EXCEPT ![Shop] = @ - cost]
  BY DEF PostTill
<1>3. [gl EXCEPT ![Shop] = @ - cost][Shop] = gl[Shop] - cost /\ gl[Shop] \in Int
  BY <1>1
<1> QED BY <1>2, <1>3

\* Sell keeps Subledger: the layers lose what the sale takes, and the account
\* what it costs.
LEMMA SellSubledger ==
  ASSUME TillInv, Subledger, NEW i \in DOMAIN session, NEW f \in SaleForms, Sell(i, f)
  PROVE  Subledger'
<1>1. PICK lines, acc, q, entered :
        /\ lines = f.lines /\ acc = SoldLines(stock, mixed, lines) /\ q = SumLines(lines)
        /\ entered = (Entry("pos-order", Len(sale) + 1) \notin posted)
  OBVIOUS
<1> DEFINE row == [status |-> "paid", session |-> i, lines |-> lines, account |-> f.account,
                   unit |-> acc.unit, taken |-> acc.taken, entered |-> entered]
           m == Len(acc.stock.layers)
<1>2. /\ stock \in Stocks /\ opening \in Stocks /\ sale \in Seq(SaleRows(Len(stock.layers)))
      /\ return \in Seq(ReturnRows) /\ adjusted \in Seq(Int) /\ mixed \in BOOLEAN
      /\ gl \in [Accounts -> Int] /\ gl[Shop] \in Int /\ Len(stock.layers) \in Nat
      /\ Shop \in Warehouses
  BY SubledgerTypes
<1>3. i \in Nat \ {0}
  <2>1. DOMAIN session = 1..Len(session) /\ Len(session) \in Nat
    BY Elements DEF TillInv, TillTypes
  <2> QED BY <2>1
<1>4. lines \in Seq(Nat \ {0}) /\ f.account \in {"cash", "bank"} /\ Len(lines) \in Nat
  BY <1>1, TillAssumption, Elements
<1>5. q \in Nat /\ entered \in BOOLEAN
  <2>1. /\ q = SumFunctionOnSet(lines, 1..Len(lines))
        /\ \A k \in 0..Len(lines) : SumFunctionOnSet(lines, 1..k) \in Nat
    BY <1>1, <1>4, LinesFacts
  <2>2. Len(lines) \in 0..Len(lines)
    BY <1>4
  <2>3. q \in Nat
    BY <2>1, <2>2
  <2> QED BY <1>1, <2>3
<1>6. acc \in SaleAcc /\ SoldUpTo(stock, q, acc) /\ SoldFlows(stock, mixed, Len(lines), q, acc)
  BY <1>1, <1>2, <1>4, SoldIs
<1>7. /\ acc.ok /\ stock' = acc.stock /\ mixed' = acc.mixed
      /\ UNCHANGED <<opening, return, adjusted>>
      /\ sale' = Append(sale, row)
      /\ PostTill("pos-order", Len(sale) + 1, f.account, Price * SumLines(f.lines), acc.cost)
  BY <1>1 DEF Sell, SoldLines, StockApart
<1>8. /\ acc.stock \in Stocks /\ Shift(stock, acc.stock, q, {Shop}, {}, {}, {})
      /\ acc.cost \in Int /\ acc.unit \in Nat /\ acc.mixed \in BOOLEAN
      /\ acc.taken \in Seq(Takings(m)) /\ m \in Nat /\ Len(stock.layers) <= m
  <2>1. /\ acc.stock \in Stocks /\ Shift(stock, acc.stock, q, {Shop}, {}, {}, {})
        /\ acc.cost \in Int /\ acc.unit \in Nat /\ acc.mixed \in BOOLEAN
        /\ acc.taken \in Seq(Takings(m))
    BY <1>6, <1>7 DEF SaleAcc, SoldUpTo
  <2>2. m \in Nat
    BY <2>1, HoldsAre
  <2> QED BY <2>1, <2>2 DEF Shift, Kept
<1>9. /\ row \in SaleRows(m) /\ row.taken = acc.taken /\ row.lines = lines
      /\ row.status = "paid" /\ (row.entered <=> entered)
  <2>1. row \in SaleRows(m)
    BY <1>3, <1>4, <1>5, <1>8 DEF SaleRows
  <2> QED BY <2>1
<1> HIDE DEF row
<1>10. sale \in Seq(SaleRows(m))
  BY <1>2, <1>8, RowsWider
<1>11. /\ Flow(stock, <<>>, acc.stock, acc.taken) /\ (mixed => acc.mixed)
       /\ Holds(acc.stock, "pieces") \in {0, Holds(stock, "pieces") - q}
       /\ \/ acc.mixed
          \/ /\ Holds(acc.stock, "pieces") = Holds(stock, "pieces") - q
             /\ 2 * ((Holds(acc.stock, "value") + acc.cost) - Holds(stock, "value"))
                  \in (-(100 * Len(lines)))..(100 * Len(lines))
  BY <1>6, <1>7 DEF SoldFlows
<1>12. LayersAgree(acc.stock, sale')
  <2>1. Flow(stock, <<>>, acc.stock, row.taken)
    BY <1>9, <1>11
  <2> QED BY <1>2, <1>7, <1>8, <1>9, <2>1, LayersSold DEF Subledger
<1>13. PICK g, h, e : g = gl[Shop] /\ h = gl'[Shop] /\ e = 100 * Len(lines)
  OBVIOUS
<1>14. g \in Int /\ h \in Int /\ e \in Nat /\ (entered => h = g - acc.cost)
  <2>1. h \in Int /\ (entered => h = g - acc.cost)
    BY <1>1, <1>2, <1>7, <1>8, <1>13, TillPosted
  <2>2. e \in Nat
    BY <1>4, <1>13
  <2> QED BY <1>2, <1>13, <2>1, <2>2
<1>15. PICK p, v, u, w, y, z, x :
         /\ p = Holds(stock, "pieces") /\ v = Holds(stock, "value")
         /\ u = Holds(acc.stock, "pieces") /\ w = Holds(acc.stock, "value")
         /\ y = stock.inv[Shop].qty /\ z = acc.stock.inv[Shop].qty /\ x = acc.cost
  OBVIOUS
<1>16. /\ p \in Nat /\ v \in Nat /\ u \in Nat /\ w \in Nat /\ y \in Nat /\ z \in Nat /\ x \in Int
       /\ z = y - q
  <2>1. p \in Nat /\ v \in Nat /\ u \in Nat /\ w \in Nat
    BY <1>2, <1>8, <1>15, HoldsAre
  <2>2. y \in Nat /\ z \in Nat
    BY <1>2, <1>8, <1>15, RowFacts
  <2>3. z = y - Amount(q, Shop, {Shop}) + Amount(q, Shop, {})
    BY <1>2, <1>8, <1>15 DEF Shift
  <2>4. z = y - q
    BY <1>5, <2>2, <2>3 DEF Amount
  <2> QED BY <1>8, <1>15, <2>1, <2>2, <2>4
<1>17. Level(stock, acc.stock) \/ acc.mixed
  <2>1. acc.mixed \/ u = p - q
    BY <1>11, <1>15
  <2>2. u = p - q => u - p = z - y
    BY <1>5, <1>16
  <2> QED BY <1>15, <2>1, <2>2 DEF Level
<1>18. acc.mixed \/ ~entered \/ Near(stock, acc.stock, h - g, e)
  <2> SUFFICES ASSUME ~acc.mixed, entered PROVE Near(stock, acc.stock, h - g, e)
    OBVIOUS
  <2>1. 2 * ((w + x) - v) \in (-e)..e
    BY <1>11, <1>13, <1>15
  <2>2. h = g - x
    BY <1>14, <1>15
  <2>3. 2 * ((w - v) - (h - g)) \in (-e)..e
    BY <1>14, <1>16, <2>1, <2>2
  <2> QED BY <1>15, <2>3 DEF Near
<1>19. /\ Rounds(sale, return, adjusted) \in Nat /\ Rounds(sale', return, adjusted) \in Nat
       /\ Rounds(sale, return, adjusted) + e <= Rounds(sale', return, adjusted)
  <2>1. PICK a, b : a = Rounds(sale, return, adjusted) /\ b = Rounds(sale', return, adjusted)
    OBVIOUS
  <2>2. PICK k : k = m
    OBVIOUS
  <2>3. /\ k \in Nat /\ sale \in Seq(SaleRows(k)) /\ row \in SaleRows(k)
        /\ return \in Seq(ReturnRows) /\ adjusted \in Seq(Int)
    BY <1>2, <1>8, <1>9, <1>10, <2>2
  <2>4. /\ Rounds(sale, return, adjusted) \in Nat
        /\ Rounds(Append(sale, row), return, adjusted)
             = Rounds(sale, return, adjusted) + 100 * Len(row.lines)
    BY <2>3, RoundsAre
  <2>5. a \in Nat /\ b = a + 100 * Len(row.lines)
    BY <1>7, <2>1, <2>4
  <2>6. b = a + e
    BY <1>9, <1>13, <2>5
  <2> QED BY <1>14, <2>1, <2>5, <2>6
<1>20. Entered(sale', return) => Entered(sale, return) /\ entered
  BY <1>2, <1>7, <1>8, <1>9, <1>10, ConditionsMore
<1>21. BooksAgree(acc.stock, sale', return, adjusted, h, acc.mixed)
  <2>1. BooksAgree(stock, sale, return, adjusted, g, mixed)
    BY <1>13 DEF Subledger
  <2>2. Clean(return) => Holds(acc.stock, "pieces") <= acc.stock.inv[Shop].qty
    <3>1. Clean(return) => p <= y
      BY <1>15, <2>1 DEF BooksAgree
    <3>2. u \in {0, p - q}
      BY <1>11, <1>15
    <3>3. p <= y => u <= z
      BY <1>5, <1>16, <3>2
    <3> QED BY <1>15, <3>1, <3>3
  <2>3. Clean(return) => acc.mixed \/ (~mixed /\ Level(stock, acc.stock))
    BY <1>11, <1>17
  <2>4. Clean(return) => \/ acc.mixed \/ ~Entered(sale', return)
                         \/ Entered(sale, return) /\ Near(stock, acc.stock, h - g, e)
    BY <1>18, <1>20
  <2>5. PICK t, nix, sb : t = acc.stock /\ nix = acc.mixed /\ sb = sale'
    OBVIOUS
  <2>6. /\ stock \in Stocks /\ t \in Stocks /\ opening \in Stocks
        /\ mixed \in BOOLEAN /\ nix \in BOOLEAN /\ g \in Int /\ h \in Int /\ e \in Nat
    BY <1>2, <1>8, <1>14, <2>5
  <2>7. /\ Rounds(sale, return, adjusted) \in Nat /\ Rounds(sb, return, adjusted) \in Nat
        /\ Rounds(sale, return, adjusted) + e <= Rounds(sb, return, adjusted)
    BY <1>19, <2>5
  <2>8. /\ Clean(return) => Clean(return)
        /\ Clean(return) => Holds(t, "pieces") <= t.inv[Shop].qty
        /\ Clean(return) => nix \/ (~mixed /\ Level(stock, t))
        /\ Clean(return) => \/ nix \/ ~Entered(sb, return)
                            \/ Entered(sale, return) /\ Near(stock, t, h - g, e)
    BY <2>2, <2>3, <2>4, <2>5
  <2>9. BooksAgree(t, sb, return, adjusted, h, nix)
    BY <2>1, <2>6, <2>7, <2>8, BooksKept
  <2> QED BY <2>5, <2>9
<1> QED BY <1>7, <1>12, <1>13, <1>21, SubledgerNext

\* ReturnWrite keeps Subledger: the layers gain what comes back, and the
\* account what it is worth.
LEMMA ReturnWriteSubledger ==
  ASSUME TillInv, Subledger, NEW c \in Clerks, ReturnWrite(c)
  PROVE  Subledger'
<1>1. PICK k, s, n : k = clerk[c] /\ s = k.sale /\ n = Len(stock.layers)
  OBVIOUS
<1>2. PICK unit, taken, acc : /\ unit = sale[s].unit /\ taken = sale[s].taken
                              /\ acc = BackItems(stock, unit, taken, mixed, k.items)
  OBVIOUS
<1>3. PICK q, late, entered :
        /\ q = Brought(k)
        /\ late = \E r \in DOMAIN return : r > k.seen /\ return[r].sale = k.sale
        /\ entered = (Entry("pos-return", FirstReturn + Len(return)) \notin posted)
  OBVIOUS
<1> DEFINE row == [sale |-> k.sale, items |-> k.items, cash |-> k.cash, session |-> k.session,
                   partly |-> acc.partly, late |-> late, entered |-> entered]
           left == [sale[s] EXCEPT !.taken = acc.rows]
           m == Len(acc.stock.layers)
<1>4. /\ stock \in Stocks /\ opening \in Stocks /\ sale \in Seq(SaleRows(n))
      /\ return \in Seq(ReturnRows) /\ adjusted \in Seq(Int) /\ mixed \in BOOLEAN
      /\ gl \in [Accounts -> Int] /\ gl[Shop] \in Int /\ n \in Nat /\ Shop \in Warehouses
  BY <1>1, SubledgerTypes
<1>5. /\ k.at = "returning" /\ stock' = acc.stock /\ mixed' = acc.mixed
      /\ UNCHANGED <<opening, adjusted>>
      /\ sale' = [sale EXCEPT ![k.sale].taken = acc.rows]
      /\ return' = Append(return, row)
      /\ PostTill("pos-return", FirstReturn + Len(return), "cash", -Refund(k), -Cents(acc.value))
  <2>1. acc = BackItems(stock, sale[k.sale].unit, sale[k.sale].taken, mixed, k.items)
    BY <1>1, <1>2, Zenon
  <2>2. /\ k.at = "returning" /\ stock' = acc.stock /\ mixed' = acc.mixed /\ StockApart
        /\ sale' = [sale EXCEPT ![k.sale].taken = acc.rows]
        /\ PostTill("pos-return", FirstReturn + Len(return), "cash", -Refund(k), -Cents(acc.value))
    BY <1>1, <2>1, Zenon DEF ReturnWrite
  <2>3. return' = Append(return, row)
    BY <1>1, <1>3, <2>1, Zenon DEF ReturnWrite
  <2>4. UNCHANGED <<opening, adjusted>>
    BY <2>2 DEF StockApart
  <2> QED BY <2>2, <2>3, <2>4, Zenon
<1>6. k \in Returning /\ s \in 1..Len(sale) /\ sale[s] \in SaleRows(n)
  <2>1. k \in Returning /\ s \in 1..Len(sale)
    <3>1. clerk \in [Clerks -> ClerkRows] /\ TillLinks(session, sale, clerk)
      BY DEF TillInv, TillTypes
    <3> QED BY <1>1, <1>5, <3>1, ClerkFacts DEF TillLinks
  <2> QED BY <1>4, <2>1, Elements
<1>7. k.items \in Seq(Items) /\ q \in Nat /\ late \in BOOLEAN /\ entered \in BOOLEAN
  <2>1. k.items \in Seq(Items)
    BY <1>6 DEF Returning
  <2> QED BY <1>3, <2>1, ItemsAre
<1>8. acc \in BackAcc /\ BackUpTo(stock, q, acc) /\ BackFlows(stock, taken, mixed, q, acc)
  <2>1. unit \in Nat /\ taken \in Seq(Takings(Len(stock.layers)))
    BY <1>1, <1>2, <1>6 DEF SaleRows
  <2> QED BY <1>2, <1>3, <1>4, <1>7, <2>1, BackIs
<1>9. /\ acc.stock \in Stocks /\ Shift(stock, acc.stock, q, {}, {Shop}, {}, {})
      /\ acc.value \in Nat /\ acc.mixed \in BOOLEAN /\ acc.partly \in BOOLEAN
      /\ acc.rows \in Seq(Takings(m)) /\ m \in Nat /\ n <= m
  <2>1. /\ acc.stock \in Stocks /\ Shift(stock, acc.stock, q, {}, {Shop}, {}, {})
        /\ acc.value \in Nat /\ acc.mixed \in BOOLEAN /\ acc.partly \in BOOLEAN
        /\ acc.rows \in Seq(Takings(m))
    BY <1>8 DEF BackAcc, BackUpTo
  <2>2. m \in Nat
    BY <2>1, HoldsAre
  <2> QED BY <1>1, <2>1, <2>2 DEF Shift, Kept
<1>10. row \in ReturnRows /\ (row.partly <=> acc.partly) /\ (row.entered <=> entered)
  <2>1. row \in ReturnRows
    BY <1>6, <1>7, <1>9 DEF Returning, ReturnRows
  <2> QED BY <2>1
<1> HIDE DEF row
<1>11. /\ left \in SaleRows(m) /\ left.lines = sale[s].lines /\ left.taken = acc.rows
       /\ left.status = sale[s].status /\ (left.entered <=> sale[s].entered)
  <2>1. sale[s] \in SaleRows(m)
    BY <1>4, <1>6, <1>9, RowsWider
  <2> QED BY <1>9, <2>1 DEF SaleRows
<1>12. sale' = [sale EXCEPT ![s] = left]
  BY <1>1, <1>4, <1>5, <1>6
<1>13. sale \in Seq(SaleRows(m))
  BY <1>4, <1>9, RowsWider
<1> HIDE DEF left
<1>14. /\ sale' \in Seq(SaleRows(m)) /\ Len(sale') = Len(sale)
       /\ \A j \in 1..Len(sale) : sale'[j] = IF j = s THEN left ELSE sale[j]
  BY <1>6, <1>11, <1>12, <1>13, ExceptSeq
<1>15. /\ sale'[s].lines = sale[s].lines /\ sale'[s].taken = acc.rows
       /\ \A j \in 1..Len(sale) : j # s => sale'[j] = sale[j]
  BY <1>6, <1>11, <1>14
<1>16. /\ Flow(stock, taken, acc.stock, acc.rows) /\ (mixed => acc.mixed)
       /\ \/ acc.partly
          \/ /\ Holds(acc.stock, "pieces") <= Holds(stock, "pieces") + q
             /\ \/ acc.mixed
                \/ /\ Holds(acc.stock, "pieces") = Holds(stock, "pieces") + q
                   /\ Holds(acc.stock, "value") = Holds(stock, "value") + acc.value
  <2>1. OwnRows(stock, taken)
    BY <1>2, <1>6 DEF Subledger, LayersAgree
  <2> QED BY <1>8, <2>1 DEF BackFlows
<1>17. LayersAgree(acc.stock, sale')
  <2>1. Flow(stock, sale[s].taken, acc.stock, sale'[s].taken)
    BY <1>2, <1>15, <1>16
  <2>2. LayersAgree(stock, sale) /\ sale \in Seq(SaleRows(Len(stock.layers)))
        /\ sale' \in Seq(SaleRows(Len(acc.stock.layers)))
    BY <1>1, <1>4, <1>14 DEF Subledger
  <2>3. PICK t, x : t = acc.stock /\ x = sale'
    OBVIOUS
  <2>4. /\ stock \in Stocks /\ t \in Stocks /\ opening \in Stocks
        /\ x \in Seq(SaleRows(Len(t.layers))) /\ s \in 1..Len(sale)
    BY <1>4, <1>6, <1>9, <2>2, <2>3
  <2>5. OneChanges(sale, x, s) /\ Flow(stock, sale[s].taken, t, x[s].taken)
    BY <1>14, <1>15, <2>1, <2>3 DEF OneChanges
  <2>6. LayersAgree(t, x)
    BY <2>2, <2>4, <2>5, LayersReturned
  <2> QED BY <2>3, <2>6
<1>18. PICK g, h, e, x : g = gl[Shop] /\ h = gl'[Shop] /\ e = 100 /\ x = Cents(acc.value)
  OBVIOUS
<1>19. PICK p, v, u, w, y, z, a :
         /\ p = Holds(stock, "pieces") /\ v = Holds(stock, "value")
         /\ u = Holds(acc.stock, "pieces") /\ w = Holds(acc.stock, "value")
         /\ y = stock.inv[Shop].qty /\ z = acc.stock.inv[Shop].qty /\ a = acc.value
  OBVIOUS
<1>20. x \in Nat /\ a \in Nat /\ 2 * (x - a) \in (-e)..e /\ e \in Nat
  <2>1. x \in Nat /\ 2 * (x - a) \in (-100)..100 /\ a \in Nat
    BY <1>9, <1>18, <1>19, CentsClose
  <2>2. e = 100
    BY <1>18
  <2> QED BY <2>1, <2>2
<1>21. g \in Int /\ h \in Int /\ (entered => h = g - (-x))
  <2>1. -x \in Int /\ PostTill("pos-return", FirstReturn + Len(return), "cash", -Refund(k), -x)
    BY <1>5, <1>18, <1>20
  <2> QED BY <1>3, <1>4, <1>18, <2>1, TillPosted
<1>22. /\ p \in Nat /\ v \in Nat /\ u \in Nat /\ w \in Nat /\ y \in Nat /\ z \in Nat
       /\ z = y + q
  <2>1. p \in Nat /\ v \in Nat /\ u \in Nat /\ w \in Nat
    BY <1>4, <1>9, <1>19, HoldsAre
  <2>2. y \in Nat /\ z \in Nat
    BY <1>4, <1>9, <1>19, RowFacts
  <2>3. z = y - Amount(q, Shop, {}) + Amount(q, Shop, {Shop})
    BY <1>4, <1>9, <1>19 DEF Shift
  <2>4. z = y + q
    BY <1>7, <2>2, <2>3 DEF Amount
  <2> QED BY <2>1, <2>2, <2>4
<1>23. acc.partly \/ acc.mixed \/ Level(stock, acc.stock)
  <2>1. acc.partly \/ acc.mixed \/ u = p + q
    BY <1>16, <1>19
  <2>2. u = p + q => u - p = z - y
    BY <1>7, <1>22
  <2> QED BY <1>19, <2>1, <2>2 DEF Level
<1>24. acc.partly \/ acc.mixed \/ ~entered \/ Near(stock, acc.stock, h - g, e)
  <2> SUFFICES ASSUME ~acc.partly, ~acc.mixed, entered PROVE Near(stock, acc.stock, h - g, e)
    OBVIOUS
  <2>1. w = v + a
    BY <1>16, <1>19
  <2>2. h = g - (-x)
    BY <1>21
  <2>3. 2 * ((w - v) - (h - g)) \in (-e)..e
    BY <1>20, <1>21, <1>22, <2>1, <2>2
  <2> QED BY <1>19, <2>3 DEF Near
<1>25. /\ Rounds(sale, return, adjusted) \in Nat /\ Rounds(sale', return', adjusted) \in Nat
       /\ Rounds(sale, return, adjusted) + e <= Rounds(sale', return', adjusted)
  <2>1. PICK d, b : d = Rounds(sale, return, adjusted) /\ b = Rounds(sale, return', adjusted)
    OBVIOUS
  <2>2. d \in Nat /\ b = d + 100
    BY <1>4, <1>5, <1>10, <2>1, RoundsAre
  <2>3. Rounds(sale', return', adjusted) = b
    <3>1. LineCount(sale') = LineCount(sale)
      BY <1>6, <1>9, <1>13, <1>14, <1>15, OutstandingChanged
    <3> QED BY <2>1, <3>1 DEF Rounds
  <2> QED BY <1>18, <2>1, <2>2, <2>3
<1>26. Entered(sale', return') => Entered(sale, return) /\ entered
  <2>1. Entered(sale', return') => Entered(sale, return')
    BY <1>6, <1>11, <1>14 DEF Entered
  <2> QED BY <1>4, <1>5, <1>10, <2>1, ConditionsMore
<1>27. Clean(return') => Clean(return) /\ ~acc.partly
  BY <1>4, <1>5, <1>10, ConditionsMore
<1>28. BooksAgree(acc.stock, sale', return', adjusted, h, acc.mixed)
  <2>1. BooksAgree(stock, sale, return, adjusted, g, mixed)
    BY <1>18 DEF Subledger
  <2>2. Clean(return') => Holds(acc.stock, "pieces") <= acc.stock.inv[Shop].qty
    <3>1. Clean(return) => p <= y
      BY <1>19, <2>1 DEF BooksAgree
    <3>2. acc.partly \/ u <= p + q
      BY <1>16, <1>19
    <3>3. p <= y /\ u <= p + q => u <= z
      BY <1>7, <1>22
    <3> QED BY <1>19, <1>27, <3>1, <3>2, <3>3
  <2>3. Clean(return') => acc.mixed \/ (~mixed /\ Level(stock, acc.stock))
    BY <1>16, <1>23, <1>27
  <2>4. Clean(return') => \/ acc.mixed \/ ~Entered(sale', return')
                          \/ Entered(sale, return) /\ Near(stock, acc.stock, h - g, e)
    BY <1>24, <1>26, <1>27
  <2>5. Clean(return') => Clean(return)
    BY <1>27
  <2>6. PICK t, nix, sb, reb : t = acc.stock /\ nix = acc.mixed /\ sb = sale' /\ reb = return'
    OBVIOUS
  <2>7. /\ stock \in Stocks /\ t \in Stocks /\ opening \in Stocks
        /\ mixed \in BOOLEAN /\ nix \in BOOLEAN /\ g \in Int /\ h \in Int /\ e \in Nat
    BY <1>4, <1>9, <1>20, <1>21, <2>6
  <2>8. /\ Rounds(sale, return, adjusted) \in Nat /\ Rounds(sb, reb, adjusted) \in Nat
        /\ Rounds(sale, return, adjusted) + e <= Rounds(sb, reb, adjusted)
    BY <1>25, <2>6
  <2>9. /\ Clean(reb) => Clean(return)
        /\ Clean(reb) => Holds(t, "pieces") <= t.inv[Shop].qty
        /\ Clean(reb) => nix \/ (~mixed /\ Level(stock, t))
        /\ Clean(reb) => \/ nix \/ ~Entered(sb, reb)
                         \/ Entered(sale, return) /\ Near(stock, t, h - g, e)
    BY <2>2, <2>3, <2>4, <2>5, <2>6
  <2>10. BooksAgree(t, sb, reb, adjusted, h, nix)
    BY <2>1, <2>7, <2>8, <2>9, BooksKept
  <2> QED BY <2>6, <2>10
<1> QED BY <1>5, <1>17, <1>18, <1>28, SubledgerNext

\* Layers that stay or lose, in front of new ones.
Shrinks(st, t) ==
  Stays(st, t) /\ \A i \in 1..Len(st.layers) : t.layers[i].left <= st.layers[i].left

\* A count that finds more: one new layer, if the product has layers.
LEMMA CountRaised ==
  ASSUME NEW st \in Stocks, NEW a \in Warehouses, NEW d \in Nat \ {0}, NEW cost \in Nat,
         NEW t \in Stocks, t = SetQty(Grown(st, a, d, cost), a, st.inv[a].qty + d)
  PROVE  /\ Shrinks(st, t)
         /\ Holds(t, "pieces") = Holds(st, "pieces") + (IF Layered(st) /\ a = Shop THEN d ELSE 0)
         /\ Holds(t, "value")
              = Holds(st, "value") + (IF Layered(st) /\ a = Shop THEN d * cost ELSE 0)
<1>1. PICK raised, n : raised = UpdateCost(st, a, d, cost, 1) /\ n = Len(st.layers)
  OBVIOUS
<1>2. raised \in Stocks /\ raised.layers = st.layers
  <2>1. 1 \in Nat \ {0}
    OBVIOUS
  <2> QED BY <1>1, <2>1, UpdateCostKeeps
<1>3. /\ n \in Nat /\ \A i \in 1..n : st.layers[i] \in Layers
      /\ Holds(st, "pieces") \in Nat /\ Holds(st, "value") \in Nat
  BY <1>1, HoldsAre
<1>4. CASE ~Layered(st)
  <2>1. t.layers = st.layers
    BY <1>1, <1>2, <1>4 DEF Grown, SetQty, Stocks
  <2>2. \A m : Holds(t, m) = Holds(st, m)
    BY <2>1, FlowNone
  <2>3. Shrinks(st, t)
    BY <1>1, <1>3, <2>1 DEF Shrinks, Stays, Layers
  <2> QED BY <1>3, <1>4, <2>2, <2>3
<1>5. CASE Layered(st)
  <2>1. PICK rows, g, l : /\ rows = <<[qty |-> d, cost |-> cost]>>
                          /\ g = CreateLayers(raised, a, rows, <<>>)
                          /\ l = t.layers[n + 1]
    OBVIOUS
  <2>2. rows \in Seq(Parts) /\ Len(rows) = 1 /\ rows[1].qty = d /\ rows[1].cost = cost
    <3>1. [qty |-> d, cost |-> cost] \in Parts
      BY DEF Parts
    <3> QED BY <2>1, <3>1
  <2>3. /\ g \in Stocks /\ Len(g.layers) = n + 1
        /\ \A i \in 1..n : g.layers[i] = st.layers[i]
    <3>1. /\ g \in Stocks /\ Len(g.layers) = Len(raised.layers) + Len(rows)
          /\ \A i \in 1..Len(raised.layers) : g.layers[i] = raised.layers[i]
      BY <1>2, <2>1, <2>2, CreateIs
    <3> QED BY <1>1, <1>2, <2>2, <3>1
  <2>4. t.layers = g.layers
    BY <1>1, <1>5, <2>1, <2>3 DEF Grown, SetQty, Stocks
  <2>5. l.wh = a /\ l.left = d /\ l.cost = cost
    <3>1. PICK more : more = [i \in DOMAIN rows |->
                                [wh |-> a, left |-> rows[i].qty, cost |-> rows[i].cost, doc |-> <<>>]]
      OBVIOUS
    <3>2. Len(more) = 1 /\ more[1] = [wh |-> a, left |-> d, cost |-> cost, doc |-> <<>>]
      BY <2>2, <3>1
    <3>3. g.layers = st.layers \o more
      BY <1>2, <2>1, <3>1 DEF CreateLayers, Stocks
    <3>4. PICK ys, S : ys = st.layers /\ S = Layers
      OBVIOUS
    <3>5. more \in Seq(S)
      <4>1. more[1] \in S
        BY <3>2, <3>4 DEF Layers
      <4> QED BY <2>2, <3>1, <3>2, <4>1
    <3>6. ys \in Seq(S) /\ Len(ys) = n
      BY <1>1, <3>4 DEF Stocks
    <3>7. (ys \o more)[n + 1] = more[1]
      <4>1. \A i \in 1..(Len(ys) + Len(more)) :
              (ys \o more)[i] = IF i <= Len(ys) THEN ys[i] ELSE more[i - Len(ys)]
        BY <3>5, <3>6, ConcatProperties
      <4>2. PICK k, z : k = n + 1 /\ z = ys \o more
        OBVIOUS
      <4>3. Len(ys) = n /\ Len(more) = 1 /\ n \in Nat
        BY <1>3, <3>2, <3>6
      <4>4. k \in 1..(Len(ys) + Len(more)) /\ ~(k <= Len(ys)) /\ k - Len(ys) = 1
        BY <4>2, <4>3
      <4>5. z[k] = more[1]
        BY <4>1, <4>2, <4>4
      <4> QED BY <4>2, <4>5
    <3>8. g.layers[n + 1] = more[1]
      BY <3>3, <3>4, <3>7
    <3> QED BY <2>1, <2>4, <3>2, <3>8
  <2>6. /\ Len(t.layers) = Len(st.layers) + 1
        /\ \A i \in 1..Len(st.layers) : t.layers[i] = st.layers[i]
        /\ l = t.layers[Len(st.layers) + 1]
    BY <1>1, <2>1, <2>3, <2>4
  <2>7. \A m : Holds(t, m) = Holds(st, m) + l.left * Pay(m, l)
    BY <2>6, HoldsOneMore
  <2>8. /\ Pay("pieces", l) = (IF a = Shop THEN 1 ELSE 0)
        /\ Pay("value", l) = (IF a = Shop THEN cost ELSE 0)
    BY <2>5 DEF Pay
  <2>9. Shrinks(st, t)
    BY <1>1, <1>3, <2>3, <2>6, SMTT(30) DEF Shrinks, Stays, Layers
  <2>10. CASE a = Shop
    <3>1. Holds(t, "pieces") = Holds(st, "pieces") + d * 1
      BY <2>5, <2>7, <2>8, <2>10
    <3>2. Holds(t, "value") = Holds(st, "value") + d * cost
      BY <2>5, <2>7, <2>8, <2>10
    <3> QED BY <1>5, <2>9, <2>10, <3>1, <3>2
  <2>11. CASE a # Shop
    <3>1. Holds(t, "pieces") = Holds(st, "pieces") + d * 0
      BY <2>5, <2>7, <2>8, <2>11
    <3>2. Holds(t, "value") = Holds(st, "value") + d * 0
      BY <2>5, <2>7, <2>8, <2>11
    <3> QED BY <1>3, <2>9, <2>11, <3>1, <3>2
  <2> QED BY <2>10, <2>11
<1> QED BY <1>4, <1>5

\* A count that finds less: the layers lose it, if the product has layers.
LEMMA CountIssued ==
  ASSUME NEW st \in Stocks, NEW a \in Warehouses, NEW d \in Nat \ {0}, NEW cost \in Nat,
         Issue(st, a, d, cost).ok, NEW t \in Stocks,
         t = SetQty(Issue(st, a, d, cost).stock, a, st.inv[a].qty - d)
  PROVE  /\ Shrinks(st, t) /\ Issue(st, a, d, cost).value \in Nat
         /\ Holds(t, "pieces") = Holds(st, "pieces") - (IF Layered(st) /\ a = Shop THEN d ELSE 0)
         /\ Holds(t, "value")
              = Holds(st, "value")
                  - (IF Layered(st) /\ a = Shop THEN Issue(st, a, d, cost).value ELSE 0)
<1>1. PICK issue, n, g : /\ issue = Issue(st, a, d, cost) /\ n = Len(st.layers)
                         /\ g = issue.stock
  OBVIOUS
<1>2. issue.value \in Nat /\ g \in Stocks /\ issue.ok
  <2>1. d \in Nat
    OBVIOUS
  <2> QED BY <1>1, <2>1, IssueIs
<1>3. /\ n \in Nat /\ \A i \in 1..n : st.layers[i] \in Layers
      /\ Holds(st, "pieces") \in Nat /\ Holds(st, "value") \in Nat
  BY <1>1, HoldsAre
<1>4. t.layers = g.layers
  BY <1>1, <1>2 DEF SetQty, Stocks
<1>5. CASE ~Layered(st)
  <2>1. t.layers = st.layers
    BY <1>1, <1>4, <1>5 DEF Issue
  <2>2. \A m : Holds(t, m) = Holds(st, m)
    BY <2>1, FlowNone
  <2>3. Shrinks(st, t)
    BY <1>1, <1>3, <2>1, SMTT(30) DEF Shrinks, Stays, Layers
  <2> QED BY <1>1, <1>2, <1>3, <1>5, <2>2, <2>3
<1>6. CASE Layered(st)
  <2>1. PICK take : take = Take(st, a, d)
    OBVIOUS
  <2>2. /\ issue.ok = CanConsume(st, a, d) /\ g = Consume(st, take)
        /\ issue.value = Value(Consumptions(st, take))
    BY <1>1, <1>6, <2>1 DEF Issue
  <2>3. d \in Nat /\ d <= LayerStock(st, a) /\ t.layers = Consume(st, take).layers
    BY <1>2, <1>4, <2>2 DEF CanConsume
  <2>4. /\ Len(t.layers) = n
        /\ \A i \in 1..n : /\ take[i] \in Nat /\ t.layers[i].left = st.layers[i].left - take[i]
                           /\ t.layers[i].wh = st.layers[i].wh
        /\ Holds(t, "pieces") = Holds(st, "pieces") - (IF a = Shop THEN d ELSE 0)
        /\ Holds(t, "value") = Holds(st, "value")
             - (IF a = Shop THEN Value(Consumptions(st, take)) ELSE 0)
    BY <1>1, <2>1, <2>3, LayersTaken
  <2>5. Shrinks(st, t)
    <3>1. Stays(st, t)
      BY <1>1, <1>3, <2>4 DEF Stays
    <3>2. ASSUME NEW i \in 1..n PROVE t.layers[i].left <= st.layers[i].left
      <4>1. st.layers[i].left \in Nat
        BY <1>3 DEF Layers
      <4>2. take[i] \in Nat /\ t.layers[i].left = st.layers[i].left - take[i]
        BY <2>4
      <4> QED BY <4>1, <4>2
    <3> QED BY <1>1, <3>1, <3>2 DEF Shrinks
  <2> QED BY <1>1, <1>2, <1>6, <2>2, <2>4, <2>5
<1> QED BY <1>5, <1>6

\* A step of the stock keeps Subledger if layers, shelf and account move alike.
LEMMA SubledgerMoved ==
  ASSUME TillInv, Subledger, UNCHANGED <<opening, sale, return>>, stock' \in Stocks,
         Shrinks(stock, stock'), NEW e \in Nat, Rounds(sale, return, adjusted') \in Nat,
         Rounds(sale, return, adjusted) \in Nat,
         Rounds(sale, return, adjusted) + e <= Rounds(sale, return, adjusted'),
         gl'[Shop] \in Int, mixed' \in BOOLEAN,
         Holds(stock, "pieces") <= stock.inv[Shop].qty
           => Holds(stock', "pieces") <= stock'.inv[Shop].qty,
         mixed' \/ (~mixed /\ Level(stock, stock') /\ Near(stock, stock', gl'[Shop] - gl[Shop], e))
  PROVE  Subledger'
<1>1. PICK t, nix, adk, g, h : /\ t = stock' /\ nix = mixed' /\ adk = adjusted'
                               /\ g = gl[Shop] /\ h = gl'[Shop]
  OBVIOUS
<1>2. /\ stock \in Stocks /\ opening \in Stocks /\ sale \in Seq(SaleRows(Len(stock.layers)))
      /\ mixed \in BOOLEAN /\ g \in Int
  BY <1>1, SubledgerTypes
<1>3. t \in Stocks /\ nix \in BOOLEAN /\ h \in Int
  BY <1>1
<1>4. LayersAgree(t, sale)
  <2>1. Stays(stock, t) /\ \A i \in 1..Len(stock.layers) : t.layers[i].left <= stock.layers[i].left
    BY <1>1 DEF Shrinks
  <2> QED BY <1>2, <1>3, <2>1, LayersCounted DEF Subledger
<1>5. BooksAgree(t, sale, return, adk, h, nix)
  <2>1. BooksAgree(stock, sale, return, adjusted, g, mixed)
    BY <1>1 DEF Subledger
  <2>2. /\ Rounds(sale, return, adjusted) \in Nat /\ Rounds(sale, return, adk) \in Nat
        /\ Rounds(sale, return, adjusted) + e <= Rounds(sale, return, adk)
    BY <1>1
  <2>3. nix \/ (~mixed /\ Level(stock, t) /\ Near(stock, t, h - g, e))
    BY <1>1
  <2>4. Clean(return) => Holds(t, "pieces") <= t.inv[Shop].qty
    BY <1>1, <2>1 DEF BooksAgree
  <2>5. /\ Clean(return) => Clean(return)
        /\ Clean(return) => nix \/ (~mixed /\ Level(stock, t))
        /\ Clean(return) => \/ nix \/ ~Entered(sale, return)
                            \/ Entered(sale, return) /\ Near(stock, t, h - g, e)
    BY <2>3
  <2> QED BY <1>2, <1>3, <2>1, <2>2, <2>4, <2>5, BooksKept
<1>6. LayersAgree(stock', sale') /\ BooksAgree(stock', sale', return', adjusted', gl'[Shop], mixed')
  BY <1>1, <1>4, <1>5
<1> QED BY <1>6, SubledgerNext

\* A shift on one shelf alone changes what is on hand.
LEMMA OnHandMoves ==
  ASSUME NEW st \in Stocks, NEW t \in Stocks, NEW d \in Nat \ {0}, NEW w \in Warehouses,
         Shift(st, t, d, {}, {w}, {}, {}) \/ Shift(st, t, d, {w}, {}, {}, {})
  PROVE  OnHand(t) # OnHand(st)
<1> DEFINE all(at) == SumFunctionOnSet([v \in Warehouses |-> Amount(d, v, at)], Warehouses)
<1>1. all({w}) = d /\ all({}) = 0
  <2>1. d \in Nat
    OBVIOUS
  <2> QED BY <2>1, SpotSum
<1>2. \A less, more, off, on : Shift(st, t, d, less, more, off, on) =>
        /\ OnHand(st) \in Nat /\ InTransit(st) \in Nat
        /\ OnHand(t) + all(less) = OnHand(st) + all(more)
        /\ InTransit(t) + all(off) = InTransit(st) + all(on)
  <2>1. d \in Nat
    OBVIOUS
  <2> QED BY <2>1, ShiftTotals
<1>3. OnHand(t) \in Nat
  <2>1. d \in Nat
    OBVIOUS
  <2> QED BY <2>1, ShelfShift
<1> HIDE DEF all
<1>4. OnHand(st) \in Nat /\ (OnHand(t) + 0 = OnHand(st) + d \/ OnHand(t) + d = OnHand(st) + 0)
  BY <1>1, <1>2
<1> QED BY <1>3, <1>4

\* What a count does to the shop's account.
LEMMA CountPosted ==
  ASSUME gl \in [Accounts -> Int], NEW w \in Warehouses, NEW v \in Int
  PROVE  /\ Post(w, "adjustment", v)
              => gl'[Shop] \in Int /\ gl'[Shop] = gl[Shop] + (IF w = Shop THEN v ELSE 0)
         /\ Post("adjustment", w, v)
              => gl'[Shop] \in Int /\ gl'[Shop] = gl[Shop] - (IF w = Shop THEN v ELSE 0)
<1>1. /\ Shop \in Accounts /\ w \in Accounts /\ "adjustment" \in Accounts
      /\ w # "adjustment" /\ Shop # "adjustment"
  BY TillAssumption, StockAssumption DEF Accounts
<1>2. gl[Shop] \in Int
  BY <1>1
<1>3. CASE w = Shop
  BY <1>1, <1>2, <1>3 DEF Post
<1>4. CASE w # Shop
  BY <1>1, <1>2, <1>4 DEF Post
<1> QED BY <1>3, <1>4

\* A count that finds more keeps Subledger.
LEMMA RaisedSubledger ==
  ASSUME TillInv, Subledger, UNCHANGED <<opening, sale, return>>, mixed' \in BOOLEAN,
         mixed' = (mixed \/ (OnHand(stock') # OnHand(stock) /\ ~Layered(stock))),
         stock' \in Stocks, NEW a \in Warehouses, NEW d \in Nat \ {0}, NEW cost \in Nat,
         stock' = SetQty(Grown(stock, a, d, cost), a, stock.inv[a].qty + d),
         Post(a, "adjustment", Cents(d * cost)), adjusted' = Append(adjusted, d)
  PROVE  Subledger'
<1>1. PICK t, g, h : t = stock' /\ g = gl[Shop] /\ h = gl'[Shop]
  OBVIOUS
<1>2. /\ stock \in Stocks /\ sale \in Seq(SaleRows(Len(stock.layers))) /\ return \in Seq(ReturnRows)
      /\ adjusted \in Seq(Int) /\ Len(stock.layers) \in Nat /\ Shop \in Warehouses
      /\ gl \in [Accounts -> Int] /\ g \in Int
  BY <1>1, SubledgerTypes
<1>3. PICK v, c : v = d * cost /\ c = Cents(v)
  OBVIOUS
<1>4. v \in Nat /\ c \in Nat /\ 2 * (c - v) \in (-100)..100
  <2>1. v \in Nat
    BY <1>3, Products
  <2> QED BY <1>3, <2>1, CentsClose
<1>5. h \in Int /\ h = g + (IF a = Shop THEN c ELSE 0)
  <2>1. Post(a, "adjustment", c)
    BY <1>3
  <2>2. c \in Int
    BY <1>4
  <2>3. gl'[Shop] \in Int /\ gl'[Shop] = gl[Shop] + (IF a = Shop THEN c ELSE 0)
    BY <1>2, <2>1, <2>2, CountPosted
  <2> QED BY <1>1, <2>3
<1>6. /\ t \in Stocks /\ t = SetQty(Grown(stock, a, d, cost), a, stock.inv[a].qty + d)
  BY <1>1
<1>7. /\ Shrinks(stock, t)
      /\ Holds(t, "pieces") = Holds(stock, "pieces") + (IF Layered(stock) /\ a = Shop THEN d ELSE 0)
      /\ Holds(t, "value") = Holds(stock, "value") + (IF Layered(stock) /\ a = Shop THEN v ELSE 0)
  <2>1. PICK s : s = stock
    OBVIOUS
  <2>2. s \in Stocks /\ t = SetQty(Grown(s, a, d, cost), a, s.inv[a].qty + d) /\ t \in Stocks
    BY <1>2, <1>6, <2>1
  <2>3. /\ Shrinks(s, t)
        /\ Holds(t, "pieces") = Holds(s, "pieces") + (IF Layered(s) /\ a = Shop THEN d ELSE 0)
        /\ Holds(t, "value")
             = Holds(s, "value") + (IF Layered(s) /\ a = Shop THEN d * cost ELSE 0)
    BY <2>2, CountRaised
  <2> QED BY <1>3, <2>1, <2>3
<1>8. Shift(stock, t, d, {}, {a}, {}, {})
  <2>1. stock \in Stocks
    BY <1>2
  <2>2. Shelved(stock, t, d, {}, {a})
    BY <1>6, <2>1, RaisedIs
  <2> QED BY <2>2 DEF Shelved
<1>9. PICK p, u, x, y, i, j : /\ p = Holds(stock, "pieces") /\ u = Holds(t, "pieces")
                              /\ x = Holds(stock, "value") /\ y = Holds(t, "value")
                              /\ i = stock.inv[Shop].qty /\ j = t.inv[Shop].qty
  OBVIOUS
<1>10. /\ p \in Nat /\ u \in Nat /\ x \in Nat /\ y \in Nat /\ i \in Nat /\ j \in Nat
       /\ j = i + (IF a = Shop THEN d ELSE 0)
  <2>1. p \in Nat /\ u \in Nat /\ x \in Nat /\ y \in Nat
    BY <1>2, <1>6, <1>9, HoldsAre
  <2>2. i \in Nat /\ j \in Nat
    BY <1>2, <1>6, <1>9, RowFacts
  <2>3. j = i - Amount(d, Shop, {}) + Amount(d, Shop, {a})
    BY <1>2, <1>8, <1>9 DEF Shift
  <2>4. j = i + (IF a = Shop THEN d ELSE 0)
    BY <2>2, <2>3 DEF Amount
  <2> QED BY <2>1, <2>2, <2>4
<1>11. p <= i => u <= j
  <2>1. u = p + (IF Layered(stock) /\ a = Shop THEN d ELSE 0)
    BY <1>7, <1>9
  <2>2. (IF Layered(stock) /\ a = Shop THEN d ELSE 0) <= (IF a = Shop THEN d ELSE 0)
    OBVIOUS
  <2> QED BY <1>10, <2>1, <2>2
<1>12. mixed' \/ (~mixed /\ Layered(stock))
  <2>1. OnHand(t) # OnHand(stock)
    BY <1>2, <1>6, <1>8, OnHandMoves
  <2>2. OnHand(stock') # OnHand(stock)
    BY <1>1, <2>1
  <2> QED BY <2>2
<1>13. PICK e : e = 100 + Size(d)
  OBVIOUS
<1>14. /\ e \in Nat /\ 100 <= e
       /\ Rounds(sale, return, adjusted) \in Nat /\ Rounds(sale, return, adjusted') \in Nat
       /\ Rounds(sale, return, adjusted) + e <= Rounds(sale, return, adjusted')
  <2>1. PICK n, b, s : n = Rounds(sale, return, adjusted) /\ b = Rounds(sale, return, adjusted')
                       /\ s = Size(d)
    OBVIOUS
  <2>2. n \in Nat /\ s \in Nat /\ b = n + (100 + s)
    BY <1>2, <2>1, RoundsAre
  <2> QED BY <1>13, <2>1, <2>2
<1>15. Layered(stock) => Level(stock, t) /\ Near(stock, t, h - g, e)
  <2> SUFFICES ASSUME Layered(stock) PROVE Level(stock, t) /\ Near(stock, t, h - g, e)
    OBVIOUS
  <2>1. u - p = j - i
    <3>1. u = p + (IF a = Shop THEN d ELSE 0)
      BY <1>7, <1>9
    <3> QED BY <1>10, <3>1
  <2>2. 2 * ((y - x) - (h - g)) \in (-e)..e
    <3>1. y = x + (IF a = Shop THEN v ELSE 0)
      BY <1>7, <1>9
    <3>2. CASE a = Shop
      BY <1>2, <1>4, <1>5, <1>10, <1>14, <3>1, <3>2
    <3>3. CASE a # Shop
      BY <1>2, <1>4, <1>5, <1>10, <1>14, <3>1, <3>3
    <3> QED BY <3>2, <3>3
  <2> QED BY <1>9, <2>1, <2>2 DEF Level, Near
<1>16. /\ Holds(stock, "pieces") <= stock.inv[Shop].qty
            => Holds(stock', "pieces") <= stock'.inv[Shop].qty
       /\ mixed' \/ (~mixed /\ Level(stock, stock') /\ Near(stock, stock', gl'[Shop] - gl[Shop], e))
       /\ Shrinks(stock, stock') /\ gl'[Shop] \in Int
  BY <1>1, <1>5, <1>7, <1>9, <1>11, <1>12, <1>15
<1> QED BY <1>14, <1>16, SubledgerMoved

\* A count that finds less keeps Subledger.
LEMMA IssuedSubledger ==
  ASSUME TillInv, Subledger, UNCHANGED <<opening, sale, return>>, mixed' \in BOOLEAN,
         mixed' = (mixed \/ (OnHand(stock') # OnHand(stock) /\ ~Layered(stock))),
         stock' \in Stocks, NEW a \in Warehouses, NEW d \in Nat \ {0}, NEW cost \in Nat,
         Issue(stock, a, d, cost).ok, Free(stock.inv[a]) - d >= 0,
         stock' = SetQty(Issue(stock, a, d, cost).stock, a, stock.inv[a].qty - d),
         NEW unit \in Nat, Layered(stock) => unit = HalfUp(Issue(stock, a, d, cost).value, d),
         Post("adjustment", a, Cents(d * unit)),
         NEW less \in Int, less = -d, adjusted' = Append(adjusted, less)
  PROVE  Subledger'
<1>1. PICK t, s, g, h : t = stock' /\ s = stock /\ g = gl[Shop] /\ h = gl'[Shop]
  OBVIOUS
<1>2. /\ s \in Stocks /\ sale \in Seq(SaleRows(Len(stock.layers))) /\ return \in Seq(ReturnRows)
      /\ adjusted \in Seq(Int) /\ Len(stock.layers) \in Nat /\ Shop \in Warehouses
      /\ gl \in [Accounts -> Int] /\ g \in Int
  BY <1>1, SubledgerTypes
<1>3. PICK issued, v, x, c :
        issued = Issue(s, a, d, cost) /\ v = issued.value /\ x = d * unit /\ c = Cents(x)
  OBVIOUS
<1>4. x \in Nat /\ c \in Nat /\ 2 * (c - x) \in (-100)..100
  <2>1. x \in Nat
    BY <1>3, Products
  <2> QED BY <1>3, <2>1, CentsClose
<1>5. h \in Int /\ h = g - (IF a = Shop THEN c ELSE 0)
  <2>1. Post("adjustment", a, c)
    BY <1>3
  <2>2. c \in Int
    BY <1>4
  <2>3. gl'[Shop] \in Int /\ gl'[Shop] = gl[Shop] - (IF a = Shop THEN c ELSE 0)
    BY <1>2, <2>1, <2>2, CountPosted
  <2> QED BY <1>1, <2>3
<1>6. /\ t \in Stocks /\ Issue(s, a, d, cost).ok /\ Free(s.inv[a]) - d >= 0
      /\ t = SetQty(Issue(s, a, d, cost).stock, a, s.inv[a].qty - d)
  BY <1>1
<1>7. /\ Shrinks(s, t) /\ v \in Nat
      /\ Holds(t, "pieces") = Holds(s, "pieces") - (IF Layered(s) /\ a = Shop THEN d ELSE 0)
      /\ Holds(t, "value") = Holds(s, "value") - (IF Layered(s) /\ a = Shop THEN v ELSE 0)
  <2>1. /\ Shrinks(s, t) /\ Issue(s, a, d, cost).value \in Nat
        /\ Holds(t, "pieces") = Holds(s, "pieces") - (IF Layered(s) /\ a = Shop THEN d ELSE 0)
        /\ Holds(t, "value")
             = Holds(s, "value")
                 - (IF Layered(s) /\ a = Shop THEN Issue(s, a, d, cost).value ELSE 0)
    BY <1>2, <1>6, CountIssued
  <2> QED BY <1>3, <2>1
<1>8. Shift(s, t, d, {a}, {}, {}, {})
  <2>1. s \in Stocks /\ d \in Nat
    BY <1>2
  <2>2. Shelved(s, t, d, {a}, {})
    BY <1>6, <2>1, IssuedIs
  <2> QED BY <2>2 DEF Shelved
<1>9. PICK p, u, w, y, i, j : /\ p = Holds(s, "pieces") /\ u = Holds(t, "pieces")
                              /\ w = Holds(s, "value") /\ y = Holds(t, "value")
                              /\ i = s.inv[Shop].qty /\ j = t.inv[Shop].qty
  OBVIOUS
<1>10. /\ p \in Nat /\ u \in Nat /\ w \in Nat /\ y \in Nat /\ i \in Nat /\ j \in Nat
       /\ j = i - (IF a = Shop THEN d ELSE 0)
  <2>1. p \in Nat /\ u \in Nat /\ w \in Nat /\ y \in Nat
    BY <1>2, <1>6, <1>9, HoldsAre
  <2>2. i \in Nat /\ j \in Nat
    BY <1>2, <1>6, <1>9, RowFacts
  <2>3. j = i - Amount(d, Shop, {a}) + Amount(d, Shop, {})
    BY <1>2, <1>8, <1>9 DEF Shift
  <2>4. j = i - (IF a = Shop THEN d ELSE 0)
    BY <2>2, <2>3 DEF Amount
  <2> QED BY <2>1, <2>2, <2>4
<1>11. p <= i => u <= j
  <2>1. CASE Layered(s)
    <3>1. u = p - (IF a = Shop THEN d ELSE 0)
      BY <1>7, <1>9, <2>1
    <3> QED BY <1>10, <3>1
  <2>2. CASE ~Layered(s)
    <3>1. p = 0
      BY <1>2, <1>9, <2>2, HoldsAre, NothingLayered
    <3>2. u = p - 0
      BY <1>7, <1>9, <2>2
    <3> QED BY <1>10, <3>1, <3>2
  <2> QED BY <2>1, <2>2
<1>12. mixed' \/ (~mixed /\ Layered(s))
  <2>1. OnHand(t) # OnHand(s)
    BY <1>2, <1>6, <1>8, OnHandMoves
  <2>2. OnHand(stock') # OnHand(stock)
    BY <1>1, <2>1
  <2> QED BY <1>1, <2>2
<1>13. PICK e : e = 100 + Size(less)
  OBVIOUS
<1>14. /\ e \in Nat /\ e = 100 + d
       /\ Rounds(sale, return, adjusted) \in Nat /\ Rounds(sale, return, adjusted') \in Nat
       /\ Rounds(sale, return, adjusted) + e <= Rounds(sale, return, adjusted')
  <2>1. PICK n, b, k : n = Rounds(sale, return, adjusted) /\ b = Rounds(sale, return, adjusted')
                       /\ k = Size(less)
    OBVIOUS
  <2>2. n \in Nat /\ k \in Nat /\ b = n + (100 + k)
    BY <1>2, <2>1, RoundsAre
  <2>3. k = d
    BY <2>1 DEF Size, AtLeast
  <2> QED BY <1>13, <2>1, <2>2, <2>3
<1>15. Layered(s) => Level(s, t) /\ Near(s, t, h - g, e)
  <2> SUFFICES ASSUME Layered(s) PROVE Level(s, t) /\ Near(s, t, h - g, e)
    OBVIOUS
  <2>1. u - p = j - i
    <3>1. u = p - (IF a = Shop THEN d ELSE 0)
      BY <1>7, <1>9
    <3> QED BY <1>10, <3>1
  <2>2. 2 * ((y - w) - (h - g)) \in (-e)..e
    <3>1. y = w - (IF a = Shop THEN v ELSE 0)
      BY <1>7, <1>9
    <3>2. 2 * (x - v) \in (-d)..d
      <4>1. unit = HalfUp(v, d)
        BY <1>1, <1>3
      <4>2. 2 * (d * HalfUp(v, d) - v) \in (-d)..d
        BY <1>7, HalfUpClose
      <4> QED BY <1>3, <4>1, <4>2
    <3>3. CASE a = Shop
      <4>1. y = w - v /\ h = g - c
        BY <1>5, <3>1, <3>3
      <4>2. w \in Int /\ v \in Int /\ g \in Int /\ c \in Int /\ x \in Int /\ d \in Nat
        BY <1>2, <1>4, <1>7, <1>10
      <4>3. (y - w) - (h - g) = c - v
        BY <4>1, <4>2
      <4>4. 2 * (c - v) = 2 * (c - x) + 2 * (x - v)
        BY <4>2
      <4>5. PICK k, l : k = 2 * (c - x) /\ l = 2 * (x - v)
        OBVIOUS
      <4>6. k \in (-100)..100 /\ l \in (-d)..d
        BY <1>4, <3>2, <4>5
      <4>7. k + l \in (-e)..e
        BY <1>14, <4>2, <4>6
      <4> QED BY <4>3, <4>4, <4>5, <4>7
    <3>4. CASE a # Shop
      <4>1. y = w - 0 /\ h = g - 0
        BY <1>5, <3>1, <3>4
      <4>2. w \in Int /\ g \in Int
        BY <1>2, <1>10
      <4>3. (y - w) - (h - g) = 0
        BY <4>1, <4>2
      <4>4. 2 * 0 \in (-e)..e
        BY <1>14
      <4> QED BY <4>3, <4>4
    <3> QED BY <3>3, <3>4
  <2> QED BY <1>9, <2>1, <2>2 DEF Level, Near
<1>16. /\ Holds(stock, "pieces") <= stock.inv[Shop].qty
            => Holds(stock', "pieces") <= stock'.inv[Shop].qty
       /\ mixed' \/ (~mixed /\ Level(stock, stock') /\ Near(stock, stock', gl'[Shop] - gl[Shop], e))
       /\ Shrinks(stock, stock') /\ gl'[Shop] \in Int
  <2>1. /\ p = Holds(stock, "pieces") /\ u = Holds(stock', "pieces")
        /\ i = stock.inv[Shop].qty /\ j = stock'.inv[Shop].qty
    BY <1>1, <1>9
  <2>2. Layered(stock) => Level(stock, stock') /\ Near(stock, stock', gl'[Shop] - gl[Shop], e)
    BY <1>1, <1>15
  <2>3. mixed' \/ (~mixed /\ Layered(stock))
    BY <1>1, <1>12
  <2>4. Shrinks(stock, stock') /\ gl'[Shop] \in Int
    BY <1>1, <1>5, <1>7
  <2> QED BY <1>11, <2>1, <2>2, <2>3, <2>4
<1> QED BY <1>14, <1>16, SubledgerMoved

\* A count keeps Subledger.
LEMMA AdjustSubledger ==
  ASSUME TillInv, Subledger, UNCHANGED <<sale, return>>, mixed' \in BOOLEAN, stock' \in Stocks,
         mixed' = (mixed \/ (OnHand(stock') # OnHand(stock) /\ ~Layered(stock))),
         NEW c \in Counts, Adjust(c)
  PROVE  Subledger'
<1> DEFINE w == c.wh
           inv == stock.inv[w]
           d == c.qty - inv.qty
           cost == IF inv.avg > 0 THEN inv.avg ELSE stock.price
           grown == IF Layered(stock)
                    THEN CreateLayers(UpdateCost(stock, w, d, cost, 1), w,
                                      <<[qty |-> d, cost |-> cost]>>, <<>>)
                    ELSE UpdateCost(stock, w, d, cost, 1)
           issue == Issue(stock, w, -d, cost)
           unit == IF Layered(stock) THEN HalfUp(issue.value, -d) ELSE cost
<1>1. /\ opening' = opening /\ adjusted' = Append(adjusted, d)
      /\ \/ /\ d > 0
            /\ stock' = [grown EXCEPT !.inv[w].qty = c.qty]
            /\ Post(w, "adjustment", Cents(d * cost))
         \/ /\ d < 0 /\ Free(inv) + d >= 0 /\ issue.ok
            /\ stock' = [issue.stock EXCEPT !.inv[w].qty = c.qty]
            /\ Post("adjustment", w, Cents(-d * unit))
  BY DEF Adjust
<1>2. stock \in Stocks /\ w \in Warehouses /\ c.qty \in Nat
  BY CountFacts, SubledgerTypes
<1>3. inv.qty \in Nat /\ inv.avg \in Nat /\ inv.reserved \in Nat /\ stock.price \in Nat
  BY <1>2, RowFacts
<1>4. d \in Int /\ cost \in Nat /\ c.qty = inv.qty + d
  BY <1>2, <1>3
<1> HIDE DEF w, inv, d, cost, grown, issue, unit
<1>5. CASE d > 0 /\ stock' = [grown EXCEPT !.inv[w].qty = c.qty]
                 /\ Post(w, "adjustment", Cents(d * cost))
  <2>0. d > 0
    BY <1>5
  <2>1. d \in Nat \ {0}
    BY <1>4, <2>0
  <2>2. PICK m, k, a : m = d /\ k = cost /\ a = w
    OBVIOUS
  <2>3. stock' = SetQty(Grown(stock, a, m, k), a, stock.inv[a].qty + m)
    <3>1. grown = Grown(stock, w, d, cost)
      BY DEF grown, Grown
    <3>2. stock' = SetQty(Grown(stock, w, d, cost), w, stock.inv[w].qty + d)
      BY <1>4, <1>5, <3>1 DEF SetQty, inv
    <3> QED BY <2>2, <3>2
  <2>4. m \in Nat \ {0} /\ k \in Nat /\ a \in Warehouses
    BY <1>2, <1>4, <2>1, <2>2
  <2>5. Post(a, "adjustment", Cents(m * k)) /\ adjusted' = Append(adjusted, m)
    BY <1>1, <1>5, <2>2
  <2>6. UNCHANGED <<opening, sale, return>>
    BY <1>1
  <2> QED BY <2>3, <2>4, <2>5, <2>6, RaisedSubledger
<1>6. CASE d < 0 /\ Free(inv) + d >= 0 /\ issue.ok
                 /\ stock' = [issue.stock EXCEPT !.inv[w].qty = c.qty]
                 /\ Post("adjustment", w, Cents(-d * unit))
  <2>1. PICK m, k, a, e, u : m = -d /\ k = cost /\ a = w /\ e = d /\ u = unit
    OBVIOUS
  <2>2. /\ m \in Nat \ {0} /\ k \in Nat /\ a \in Warehouses /\ e \in Int /\ e = -m
        /\ c.qty = inv.qty - m
    <3>1. d < 0
      BY <1>6
    <3>2. d \in Int /\ c.qty = inv.qty + d
      BY <1>4
    <3>3. PICK x : x = inv.qty
      OBVIOUS
    <3>4. e \in Int /\ e < 0 /\ m = -e /\ x \in Nat /\ c.qty = x + e
      BY <1>3, <2>1, <3>1, <3>2, <3>3
    <3>5. m \in Nat \ {0} /\ e = -m /\ c.qty = x - m
      BY <3>4
    <3> QED BY <1>2, <1>4, <2>1, <3>3, <3>4, <3>5
  <2>3. /\ Issue(stock, a, m, k).ok
        /\ stock' = SetQty(Issue(stock, a, m, k).stock, a, stock.inv[a].qty - m)
    <3>1. issue = Issue(stock, a, m, k)
      BY <2>1 DEF issue
    <3>2. issue.ok /\ stock' = [issue.stock EXCEPT !.inv[w].qty = c.qty]
      BY <1>6
    <3>3. c.qty = stock.inv[a].qty - m
      BY <2>1, <2>2 DEF inv
    <3> QED BY <2>1, <3>1, <3>2, <3>3 DEF SetQty
  <2>4. Free(stock.inv[a]) - m >= 0
    <3>0. Free(inv) + d >= 0
      BY <1>6
    <3>1. Free(inv) \in Int /\ Free(inv) + d >= 0
      BY <1>3, <3>0 DEF Free
    <3>2. PICK x : x = Free(inv)
      OBVIOUS
    <3>3. x \in Int /\ x + e >= 0
      BY <2>1, <3>1, <3>2
    <3>4. x - m >= 0
      BY <2>2, <3>3
    <3> QED BY <2>1, <3>2, <3>4 DEF inv
  <2>5. u = IF Layered(stock) THEN HalfUp(Issue(stock, a, m, k).value, m) ELSE k
    BY <2>1 DEF unit, issue
  <2>6. u \in Nat
    <3>1. Issue(stock, a, m, k).value \in Nat
      <4>1. m \in Nat
        BY <2>2
      <4> QED BY <1>2, <2>2, <4>1, IssueIs
    <3>2. HalfUp(Issue(stock, a, m, k).value, m) \in Nat
      BY <2>2, <3>1, HalfUpNat
    <3> QED BY <2>2, <2>5, <3>2
  <2>7. Post("adjustment", a, Cents(m * u))
    <3>1. Post("adjustment", w, Cents(-d * unit))
      BY <1>6
    <3>2. -e * u = m * u
      <4>1. e \in Int /\ u \in Int /\ m = -e
        BY <1>4, <2>1, <2>6
      <4> QED BY <4>1, NegatedProduct
    <3> QED BY <2>1, <3>1, <3>2
  <2>8. adjusted' = Append(adjusted, e) /\ UNCHANGED <<opening, sale, return>>
    BY <1>1, <2>1
  <2>9. Layered(stock) => u = HalfUp(Issue(stock, a, m, k).value, m)
    BY <2>5
  <2> QED BY <2>2, <2>3, <2>4, <2>6, <2>7, <2>8, <2>9, IssuedSubledger
<1> QED BY <1>1, <1>5, <1>6, Zenon

\* A step that leaves layers, shelf and account keeps Subledger.
LEMMA QuietSubledger ==
  ASSUME TillInv, Subledger, UNCHANGED <<opening, sale, return, adjusted, gl>>,
         mixed' \in BOOLEAN,
         mixed' = (mixed \/ (OnHand(stock') # OnHand(stock) /\ ~Layered(stock))),
         stock' \in Stocks, stock'.layers = stock.layers,
         stock'.inv[Shop].qty = stock.inv[Shop].qty
  PROVE  Subledger'
<1>1. PICK t, s, g, e : t = stock' /\ s = stock /\ g = gl[Shop] /\ e = 0
  OBVIOUS
<1>2. /\ s \in Stocks /\ sale \in Seq(SaleRows(Len(stock.layers))) /\ return \in Seq(ReturnRows)
      /\ adjusted \in Seq(Int) /\ Len(stock.layers) \in Nat /\ g \in Int
  BY <1>1, SubledgerTypes
<1>3. t \in Stocks /\ t.layers = s.layers /\ t.inv[Shop].qty = s.inv[Shop].qty /\ e \in Nat
  BY <1>1
<1>4. /\ Level(s, t) /\ Near(s, t, g - g, e) /\ Stays(s, t)
      /\ Holds(t, "pieces") = Holds(s, "pieces")
  BY <1>2, <1>3, StaysLevel
<1>5. Shrinks(s, t)
  <2>1. \A i \in 1..Len(s.layers) : s.layers[i].left \in Nat
    BY <1>2, HoldsAre DEF Layers
  <2>2. \A i \in 1..Len(s.layers) : t.layers[i].left <= s.layers[i].left
    BY <1>3, <2>1
  <2> QED BY <1>4, <2>2 DEF Shrinks
<1>6. /\ Rounds(sale, return, adjusted) \in Nat /\ Rounds(sale, return, adjusted') \in Nat
      /\ Rounds(sale, return, adjusted) + e <= Rounds(sale, return, adjusted')
  <2>1. PICK n : n = Rounds(sale, return, adjusted)
    OBVIOUS
  <2>2. n \in Nat
    BY <1>2, <2>1, RoundsAre
  <2>3. n + e <= n
    BY <1>1, <2>2
  <2> QED BY <2>1, <2>2, <2>3
<1>7. /\ Holds(stock, "pieces") <= stock.inv[Shop].qty
           => Holds(stock', "pieces") <= stock'.inv[Shop].qty
      /\ mixed' \/ (~mixed /\ Level(stock, stock') /\ Near(stock, stock', gl'[Shop] - gl[Shop], e))
      /\ Shrinks(stock, stock') /\ gl'[Shop] \in Int
  BY <1>1, <1>2, <1>3, <1>4, <1>5
<1> QED BY <1>3, <1>6, <1>7, SubledgerMoved

\* A reservation is no goods.
LEMMA ReservedQuiet ==
  ASSUME NEW st \in Stocks, NEW w, NEW r
  PROVE  LET t == [st EXCEPT !.inv[w].reserved = r]
         IN t.layers = st.layers /\ t.inv[Shop].qty = st.inv[Shop].qty
<1>1. Shop \in Warehouses /\ st.inv[Shop] \in Row
  BY TillAssumption, RowFacts
<1> QED BY <1>1 DEF Stocks, Row

\* Where nothing is shipped or transferred between warehouses.
NoTransport == ShipmentForms \cup TransferForms = {}

\* A step of the stock is a count then, or no goods move.
LEMMA UntransportedSteps ==
  ASSUME StockCore, NoTransport, Next
  PROVE  \/ \E c \in Counts : Adjust(c)
         \/ /\ UNCHANGED <<opening, adjusted, gl>>
            /\ stock'.layers = stock.layers /\ stock'.inv[Shop].qty = stock.inv[Shop].qty
<1> DEFINE Quiet == /\ UNCHANGED <<opening, adjusted, gl>>
                    /\ stock'.layers = stock.layers /\ stock'.inv[Shop].qty = stock.inv[Shop].qty
<1>1. stock \in Stocks /\ RowsAgree
  BY DEF StockCore, Types
<1>2. ASSUME NEW s \in Shipments PROVE ship[s].status \notin {"pending", "dispatched"}
  <2>1. RowAgrees(ship[s])
    BY <1>1 DEF RowsAgree
  <2> QED BY <2>1 DEF RowAgrees, NoTransport
<1>3. ASSUME NEW s \in Shipments, \/ CreateShipment(s) \/ Dispatch(s) \/ Confirm(s)
                                  \/ CancelRead(s) \/ CancelWrite(s)
      PROVE  Quiet
  <2>1. ~CreateShipment(s)
    BY DEF CreateShipment, NoTransport
  <2>2. ~Dispatch(s) /\ ~Confirm(s)
    BY <1>2 DEF Dispatch, Confirm, Underway
  <2> QED BY <1>3, <2>1, <2>2 DEF CancelRead, CancelWrite, OthersUnchanged
<1>4. ASSUME NEW t \in Transfers, TransferLookup(t) \/ TransferMove(t)
      PROVE  Quiet
  <2>1. ~TransferMove(t)
    BY DEF TransferMove, NoTransport
  <2> QED BY <1>4, <2>1 DEF TransferLookup
<1>5. ASSUME NEW o \in Orders, CreateOrder(o) \/ CancelOrder(o)
      PROVE  Quiet
  <2>1. CASE CreateOrder(o)
    <3>1. PICK f \in OrderForms : stock' = [stock EXCEPT !.inv[f.wh].reserved = @ + f.qty]
      BY <2>1 DEF CreateOrder
    <3>2. PICK w, r : w = f.wh /\ r = stock.inv[f.wh].reserved + f.qty
      OBVIOUS
    <3>3. stock' = [stock EXCEPT !.inv[w].reserved = r]
      BY <1>1, <3>1, <3>2, CountFacts DEF Stocks
    <3> QED BY <1>1, <2>1, <3>3, ReservedQuiet DEF CreateOrder
  <2>2. CASE CancelOrder(o)
    <3>1. PICK f : /\ f = order[o].form
                   /\ stock' = [stock EXCEPT !.inv[f.wh].reserved = AtLeast(0, @ - f.qty)]
      BY <2>2 DEF CancelOrder
    <3>2. PICK w, r : w = f.wh /\ r = AtLeast(0, stock.inv[f.wh].reserved - f.qty)
      OBVIOUS
    <3>3. f \in OrderForms
      BY <2>2, <3>1 DEF CancelOrder, StockCore, OrdersAgree
    <3>4. stock' = [stock EXCEPT !.inv[w].reserved = r]
      BY <1>1, <3>1, <3>2, <3>3, CountFacts DEF Stocks
    <3> QED BY <1>1, <2>2, <3>4, ReservedQuiet DEF CancelOrder
  <2> QED BY <1>5, <2>1, <2>2
<1>6. CASE NextDay
  BY <1>6 DEF NextDay
<1> HIDE DEF Quiet
<1> QED BY <1>3, <1>4, <1>5, <1>6 DEF Next, Quiet

\* A step of the stock keeps Subledger then.
LEMMA StockSubledger ==
  ASSUME TillInv, Subledger, NoTransport, StockStep
  PROVE  Subledger'
<1>1. /\ StockCore /\ Next /\ UNCHANGED <<session, sale, return, clerk>>
      /\ mixed' = (mixed \/ (OnHand(stock') # OnHand(stock) /\ ~Layered(stock)))
  BY DEF StockStep, TillInv
<1>2. mixed' \in BOOLEAN
  BY <1>1, SubledgerTypes
<1>3. stock' \in Stocks
  <2>1. StockCore'
    BY <1>1, StepKeeps DEF Keeps
  <2> QED BY <2>1 DEF StockCore, Types
<1>4. CASE \E c \in Counts : Adjust(c)
  <2>1. PICK c \in Counts : Adjust(c)
    BY <1>4
  <2>2. UNCHANGED <<sale, return>>
    BY <1>1
  <2> QED BY <1>1, <1>2, <1>3, <2>1, <2>2, AdjustSubledger
<1>5. CASE /\ UNCHANGED <<opening, adjusted, gl>>
           /\ stock'.layers = stock.layers /\ stock'.inv[Shop].qty = stock.inv[Shop].qty
  <2>1. UNCHANGED <<opening, sale, return, adjusted, gl>>
    BY <1>1, <1>5
  <2> QED BY <1>1, <1>2, <1>3, <1>5, <2>1, QuietSubledger
<1> QED BY <1>1, <1>4, <1>5, UntransportedSteps

\* What SubledgerAgrees says of the shop's layers at the start.
LEMMA SubledgerInit ==
  ASSUME PosInit
  PROVE  Subledger
<1>1. /\ stock \in Openings /\ opening = stock /\ adjusted = <<>> /\ gl = [a \in Accounts |-> 0]
      /\ sale = <<>> /\ return = <<>> /\ mixed = FALSE
  BY DEF PosInit, Init
<1>2. PICK st, g, e : st = stock /\ g = gl[Shop] /\ e = Rounds(sale, return, adjusted)
  OBVIOUS
<1>3. st \in Stocks /\ opening = st
  <2>1. TillInv
    BY TillInitHolds
  <2> QED BY <1>1, <1>2, <2>1, SubledgerTypes
<1>4. /\ Len(st.layers) \in Nat /\ \A i \in 1..Len(st.layers) : st.layers[i] \in Layers
      /\ Holds(st, "pieces") = LayerStock(st, Shop)
  BY <1>3, HoldsAre
<1>5. 1..Len(sale) = {}
  BY <1>1
<1>6. \A j : Outstanding(sale, j) = 0
  BY <1>5, SumNone DEF Outstanding
<1>7. LayersAgree(stock, sale)
  <2>1. ASSUME NEW j \in 1..Len(opening.layers)
        PROVE  stock.layers[j].left + Outstanding(sale, j) <= opening.layers[j].left
    <3>1. stock.layers[j].left \in Nat
      BY <1>2, <1>3, <1>4, <2>1 DEF Layers
    <3> QED BY <1>2, <1>3, <1>6, <3>1
  <2>2. Len(opening.layers) <= Len(stock.layers)
    BY <1>2, <1>3, <1>4
  <2> QED BY <1>5, <2>1, <2>2 DEF LayersAgree
<1>8. Holds(stock, "pieces") <= stock.inv[Shop].qty
  <2>1. LayerStock(stock, Shop) <= stock.inv[Shop].qty
    BY <1>1, TillAssumption, StockAssumption
  <2> QED BY <1>2, <1>4, <2>1
<1>9. g = 0 /\ e \in Nat
  <2>1. Shop \in Accounts
    BY TillAssumption, AccountFacts
  <2>2. 0 \in Nat /\ sale \in Seq(SaleRows(0)) /\ return \in Seq(ReturnRows) /\ adjusted \in Seq(Int)
    BY <1>1
  <2> QED BY <1>1, <1>2, <2>1, <2>2, RoundsAre
<1>10. Level(opening, stock) /\ Near(opening, stock, g, e)
  <2>1. g \in Int /\ g - g = g
    BY <1>9
  <2>2. Level(st, st) /\ Near(st, st, g - g, e)
    BY <1>3, <1>9, <2>1, StaysLevel
  <2> QED BY <1>2, <1>3, <2>1, <2>2
<1>11. BooksAgree(stock, sale, return, adjusted, gl[Shop], mixed)
  BY <1>2, <1>8, <1>10 DEF BooksAgree
<1> QED BY <1>7, <1>11 DEF Subledger

\* The other steps of the tills touch neither layers nor accounts.
LEMMA ApartSubledger ==
  ASSUME Subledger, UNCHANGED <<sale, return>>, BooksApart, StockApart
  PROVE  Subledger'
<1>1. UNCHANGED <<opening, stock, sale, return, adjusted, gl, mixed>>
  BY DEF BooksApart, StockApart
<1> QED BY <1>1, SubledgerSame

\* Every step keeps Subledger, where nothing is shipped or transferred.
LEMMA SubledgerStep ==
  TillInv /\ (NoTransport => Subledger) /\ [PosNext]_<<vars, posVars>> => (NoTransport => Subledger')
<1> SUFFICES ASSUME TillInv, NoTransport, Subledger, [PosNext]_<<vars, posVars>> PROVE Subledger'
  OBVIOUS
<1>1. CASE OpenSession
  BY <1>1, ApartSubledger DEF OpenSession
<1>2. CASE \E i \in DOMAIN session : Hold(i)
  BY <1>2, HoldSubledger
<1>3. CASE \E i \in DOMAIN session : \E f \in SaleForms : Sell(i, f)
  BY <1>3, SellSubledger
<1>4. CASE \E s \in DOMAIN sale : CancelHeld(s)
  BY <1>4, CancelHeldSubledger
<1>5. CASE \E c \in Clerks : \E i \in DOMAIN session, gap \in Gaps : CloseRead(c, i, gap)
  BY <1>5, ApartSubledger DEF CloseRead
<1>6. CASE \E c \in Clerks : CloseSum(c)
  BY <1>6, ApartSubledger DEF CloseSum
<1>7. CASE \E c \in Clerks : CloseWrite(c)
  <2>1. UNCHANGED <<opening, stock, sale, return, adjusted, gl, mixed>>
    BY <1>7 DEF CloseWrite, StockApart
  <2> QED BY <2>1, SubledgerSame
<1>8. CASE \E c \in Clerks : ReturnWrite(c)
  BY <1>8, ReturnWriteSubledger
<1>9. CASE \E c \in Clerks : \E s \in DOMAIN sale, f \in ReturnForms : ReturnRead(c, s, f)
  BY <1>9, ApartSubledger DEF ReturnRead
<1>10. CASE StockStep
  BY <1>10, StockSubledger
<1>11. CASE UNCHANGED <<vars, posVars>>
  <2>1. UNCHANGED <<opening, stock, sale, return, adjusted, gl, mixed>>
    BY <1>11 DEF vars, posVars
  <2> QED BY <2>1, SubledgerSame
<1> QED BY <1>1, <1>2, <1>3, <1>4, <1>5, <1>6, <1>7, <1>8, <1>9, <1>10, <1>11 DEF PosNext

\* What the invariant says is what the property does.
LEMMA SubledgerSays ==
  ASSUME TillInv, Subledger
  PROVE  SubledgerAgrees
<1> DEFINE entered == /\ \A s \in Paid : sale[s].entered
                      /\ \A r \in DOMAIN return : return[r].entered
           clean == \A r \in DOMAIN return : ~return[r].partly
           gained == Worth(stock) - Worth(opening)
<1>1. /\ stock \in Stocks /\ opening \in Stocks /\ sale \in Seq(SaleRows(Len(stock.layers)))
      /\ return \in Seq(ReturnRows) /\ adjusted \in Seq(Int) /\ Len(stock.layers) \in Nat
      /\ gl[Shop] \in Int /\ Shop \in Warehouses
  BY SubledgerTypes
<1>2. /\ DOMAIN sale = 1..Len(sale) /\ DOMAIN return = 1..Len(return)
      /\ DOMAIN adjusted = 1..Len(adjusted)
  BY <1>1, Elements
<1>3. clean = Clean(return)
  BY <1>2 DEF Clean
<1>4. entered => Entered(sale, return)
  BY <1>2 DEF Entered, Paid
<1>5. Roundings = Rounds(sale, return, adjusted)
  BY <1>2 DEF Roundings, Rounds, SumOver, LineCount, LinesOf, Sizes, SizesOf, Size
<1>6. /\ Holds(stock, "pieces") = LayerStock(stock, Shop) /\ Holds(stock, "value") = Worth(stock)
      /\ Holds(opening, "pieces") = LayerStock(opening, Shop)
      /\ Holds(opening, "value") = Worth(opening)
      /\ Worth(stock) \in Nat /\ Worth(opening) \in Nat
      /\ DOMAIN opening.layers = 1..Len(opening.layers)
  BY <1>1, HoldsAre
<1>7. \A j \in DOMAIN opening.layers : stock.layers[j].left <= opening.layers[j].left
  <2> SUFFICES ASSUME NEW j \in 1..Len(opening.layers)
               PROVE  stock.layers[j].left <= opening.layers[j].left
    BY <1>6
  <2>1. PICK a, o, b : /\ a = stock.layers[j].left /\ o = Outstanding(sale, j)
                       /\ b = opening.layers[j].left
    OBVIOUS
  <2>2. a + o <= b
    BY <2>1 DEF Subledger, LayersAgree
  <2>3. o \in Nat
    BY <1>1, <2>1, OutstandingNat
  <2>4. a \in Nat /\ b \in Nat
    <3>1. opening.layers[j] \in Layers
      BY <1>1, HoldsAre
    <3>2. stock.layers[j] \in Layers
      <4>1. Len(opening.layers) <= Len(stock.layers)
        BY DEF Subledger, LayersAgree
      <4>2. Len(opening.layers) \in Nat
        BY <1>1, HoldsAre
      <4>3. j \in 1..Len(stock.layers)
        BY <1>1, <4>1, <4>2
      <4> QED BY <1>1, <4>3, HoldsAre
    <3> QED BY <2>1, <3>1, <3>2 DEF Layers
  <2>5. a <= b
    BY <2>2, <2>3, <2>4
  <2> QED BY <2>1, <2>5
<1>8. ASSUME Clean(return)
      PROVE  /\ LayerStock(stock, Shop) <= stock.inv[Shop].qty
             /\ mixed \/ LayerStock(stock, Shop) - LayerStock(opening, Shop)
                           = stock.inv[Shop].qty - opening.inv[Shop].qty
             /\ mixed \/ ~entered \/ 2 * (gained - gl[Shop]) \in -Roundings..Roundings
  <2>1. /\ Holds(stock, "pieces") <= stock.inv[Shop].qty
        /\ mixed \/ Level(opening, stock)
        /\ mixed \/ ~Entered(sale, return)
                 \/ Near(opening, stock, gl[Shop], Rounds(sale, return, adjusted))
    BY <1>8 DEF Subledger, BooksAgree
  <2>2. LayerStock(stock, Shop) <= stock.inv[Shop].qty
    BY <1>6, <2>1
  <2>3. mixed \/ LayerStock(stock, Shop) - LayerStock(opening, Shop)
                   = stock.inv[Shop].qty - opening.inv[Shop].qty
    BY <1>6, <2>1 DEF Level
  <2>4. mixed \/ ~entered \/ Near(opening, stock, gl[Shop], Rounds(sale, return, adjusted))
    BY <1>4, <2>1
  <2>5. mixed \/ ~entered \/ 2 * (gained - gl[Shop]) \in -Roundings..Roundings
    <3> HIDE DEF entered
    <3>1. PICK r : r = Rounds(sale, return, adjusted)
      OBVIOUS
    <3>2. Near(opening, stock, gl[Shop], r) => 2 * (gained - gl[Shop]) \in (-r)..r
      BY <1>6 DEF Near
    <3> QED BY <1>5, <2>4, <3>1, <3>2
  <2> HIDE DEF entered, gained
  <2> QED BY <2>2, <2>3, <2>5
<1> QED BY <1>3, <1>7, <1>8 DEF SubledgerAgrees

\* The shop's layers, its shelf and its inventory account are the same goods,
\* for all tills, sales, returns and counts, where nothing is shipped or
\* transferred between warehouses.
THEOREM TillSubledger ==
  PosSpec => []((ShipmentForms \cup TransferForms = {}) => SubledgerAgrees)
<1> DEFINE Inv == TillInv /\ (NoTransport => Subledger)
<1>1. PosInit => Inv
  BY TillInitHolds, SubledgerInit
<1>2. Inv /\ [PosNext]_<<vars, posVars>> => Inv'
  BY TillInvStep, SubledgerStep DEF NoTransport
<1>3. Inv => ((ShipmentForms \cup TransferForms = {}) => SubledgerAgrees)
  BY SubledgerSays DEF NoTransport
<1> QED BY <1>1, <1>2, <1>3, PTL DEF PosSpec

=============================================================================
