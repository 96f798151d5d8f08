----------------------------- MODULE StockProofs -----------------------------
(***************************************************************************)
(* Stock, for any warehouses, forms, costs and bounds: that no row or      *)
(* layer goes below zero (StockTypes), that goods are neither made nor     *)
(* lost and transit is what was sent and not received (StockAccounted),    *)
(* that reservations and layers are covered by the shelf (StockCovers),    *)
(* and that the in-transit account is the value that is away               *)
(* (StockInTransit).                                                       *)
(*                                                                         *)
(* First what the helpers of Costing and Stock do to the sums; then one    *)
(* lemma for each action, with what it keeps of the inductive invariant    *)
(* StockInv, of which StockCore is the part that sales and returns keep as *)
(* well (PointOfSaleProofs); then the theorems.                            *)
(***************************************************************************)
EXTENDS Stock, Sums, SequenceTheorems, TLAPS

(***************************************************************************)
(* Costing                                                                 *)
(***************************************************************************)
Layers == [wh : Warehouses, left : Nat, cost : Nat, doc : {<<>>}]
Stocks == [inv : [Warehouses -> Row], price : Nat, layers : Seq(Layers)]
Parts  == [qty : Nat, cost : Nat]

\* A sequence has its elements from 1 on.
LEMMA Elements ==
  ASSUME NEW S, NEW s \in Seq(S)
  PROVE  /\ Len(s) \in Nat /\ DOMAIN s = 1..Len(s) /\ IsFiniteSet(DOMAIN s)
         /\ \A i \in 1..Len(s) : s[i] \in S
<1>1. Len(s) \in Nat /\ DOMAIN s = 1..Len(s)
  BY LenProperties
<1>2. IsFiniteSet(1..Len(s))
  BY <1>1, FS_Interval
<1> QED BY <1>1, <1>2, ElementOfSeq

\* A function on 1..n is a sequence of length n.
LEMMA FunctionIsSeq ==
  ASSUME NEW S, NEW n \in Nat, NEW s \in [1..n -> S]
  PROVE  s \in Seq(S) /\ Len(s) = n
<1>1. s \in Seq(S)
  BY SeqDef
<1>2. Len(s) \in Nat /\ DOMAIN s = 1..Len(s) /\ DOMAIN s = 1..n
  BY <1>1, LenProperties
<1>3. CASE n = 0
  BY <1>2, <1>3
<1>4. CASE n # 0
  BY <1>2, <1>4
<1> QED BY <1>1, <1>3, <1>4

\* Rounding keeps what is not negative.
LEMMA HalfUpNat == \A num \in Nat, den \in Nat \ {0} : HalfUp(num, den) \in Nat
<1> SUFFICES ASSUME NEW num \in Nat, NEW den \in Nat \ {0} PROVE HalfUp(num, den) \in Nat
  OBVIOUS
<1>1. 2 * num + den \in Nat /\ 2 * den \in Nat \ {0}
  OBVIOUS
<1>2. \A a \in Nat, b \in Nat \ {0} : a \div b \in Nat
  OBVIOUS
<1> QED BY <1>1, <1>2 DEF HalfUp

\* Products of naturals are naturals.
LEMMA Products == \A a, b \in Nat : a * b \in Nat
  OBVIOUS

\* A weighted average is not negative.
LEMMA NewCostNat ==
  ASSUME NEW q0 \in Nat, NEW c0 \in Nat, NEW q \in Nat \ {0}, NEW num \in Nat,
         NEW den \in Nat \ {0}
  PROVE  NewCost(q0, c0, q, num, den) \in Nat
<1>1. q0 + q \in Nat \ {0} /\ ~(q0 + q <= 0)
  OBVIOUS
<1> DEFINE a == q0 * c0 * den
           b == q * num
           d == (q0 + q) * den
<1>2. a \in Nat /\ b \in Nat
  BY Products
<1>3. d \in Nat \ {0}
  <2>1. \A x, y \in Nat \ {0} : x * y \in Nat \ {0}
    OBVIOUS
  <2> QED BY <1>1, <2>1
<1>4. NewCost(q0, c0, q, num, den) = HalfUp(a + b, d)
  BY <1>1 DEF NewCost
<1> HIDE DEF a, b, d
<1>5. a + b \in Nat
  BY <1>2
<1> QED BY <1>3, <1>4, <1>5, HalfUpNat

\* The quantities of a stock, without its costs.
SameGoods(st, t) ==
  \A v \in Warehouses :
    /\ t.inv[v].qty = st.inv[v].qty /\ t.inv[v].reserved = st.inv[v].reserved
    /\ t.inv[v].damaged = st.inv[v].damaged /\ t.inv[v].transit = st.inv[v].transit

\* update_cost writes costs, and no quantity and no layer.
LEMMA UpdateCostKeeps ==
  ASSUME NEW st \in Stocks, NEW w \in Warehouses, NEW q \in Nat \ {0}, NEW num \in Nat,
         NEW den \in Nat \ {0}
  PROVE  /\ UpdateCost(st, w, q, num, den) \in Stocks
         /\ UpdateCost(st, w, q, num, den).layers = st.layers
         /\ SameGoods(st, UpdateCost(st, w, q, num, den))
<1> DEFINE inv == st.inv
           held == [v \in Warehouses |-> inv[v].qty]
           all == SumFunctionOnSet(held, Warehouses)
           avg == NewCost(inv[w].qty, inv[w].avg, q, num, den)
           own == [inv EXCEPT ![w].avg = avg]
           new == NewCost(all, st.price, q, num, den)
           worth == [v \in Warehouses |-> own[v].qty * own[v].avg]
           total == SumFunctionOnSet(worth, Warehouses)
           price == IF all > 0 THEN HalfUp(total, all) ELSE HalfUp(num, den)
           flat == [v \in Warehouses |-> [inv[v] EXCEPT !.avg = new]]
           U == UpdateCost(st, w, q, num, den)
<1>0. IsFiniteSet(Warehouses)
  BY StockAssumption
<1>1. inv \in [Warehouses -> Row] /\ st.price \in Nat /\ st.layers \in Seq(Layers)
  BY DEF Stocks
<1>2. all \in Nat
  <2>1. \A v \in Warehouses : held[v] \in Nat
    BY <1>1 DEF Row
  <2> HIDE DEF held
  <2> QED BY <1>0, <2>1, SumNat
<1>3. avg \in Nat
  <2>1. inv[w].qty \in Nat /\ inv[w].avg \in Nat
    BY <1>1 DEF Row
  <2> QED BY <2>1, NewCostNat
<1>4. new \in Nat
  <2> HIDE DEF all
  <2> QED BY <1>1, <1>2, NewCostNat
<1>5. own \in [Warehouses -> Row] /\ \A v \in Warehouses :
        /\ own[v].qty = inv[v].qty /\ own[v].reserved = inv[v].reserved
        /\ own[v].damaged = inv[v].damaged /\ own[v].transit = inv[v].transit
  <2> HIDE DEF avg, inv
  <2> QED BY <1>1, <1>3 DEF Row
<1>6. total \in Nat
  <2>1. \A v \in Warehouses : worth[v] \in Nat
    <3> HIDE DEF own
    <3>1. \A v \in Warehouses : own[v].qty \in Nat /\ own[v].avg \in Nat
      BY <1>5 DEF Row
    <3> QED BY <3>1, Products
  <2> HIDE DEF worth
  <2> QED BY <1>0, <2>1, SumNat
<1>7. price \in Nat
  <2> HIDE DEF total, all
  <2> QED BY <1>2, <1>6, HalfUpNat
<1>8. flat \in [Warehouses -> Row] /\ \A v \in Warehouses :
        /\ flat[v].qty = inv[v].qty /\ flat[v].reserved = inv[v].reserved
        /\ flat[v].damaged = inv[v].damaged /\ flat[v].transit = inv[v].transit
  <2> HIDE DEF new, inv
  <2> QED BY <1>1, <1>4 DEF Row
<1>9. U = IF Policy = "global_wac" THEN [st EXCEPT !.price = new, !.inv = flat]
                                   ELSE [st EXCEPT !.inv = own, !.price = price]
  BY DEF UpdateCost, SumOver
<1> HIDE DEF own, flat, price, new, U, inv
<1>10. U \in Stocks /\ U.layers = st.layers /\ (U.inv = flat \/ U.inv = own)
  BY <1>1, <1>4, <1>5, <1>7, <1>8, <1>9 DEF Stocks
<1>11. SameGoods(st, U)
  BY <1>5, <1>8, <1>10 DEF SameGoods, inv
<1> QED BY <1>10, <1>11 DEF U

(***************************************************************************)
(* Layers                                                                  *)
(***************************************************************************)
\* One after the other gives what is asked for, each as much as it has.
Rest(have, asked) == AtLeast(0, AtMost(have, asked))

\* Giving in an order: x[m] is the m-th that gives, C[m] the first m of them.
IsOrder(n, D, x, C) ==
  /\ x \in [1..n -> D] /\ C \in [0..n -> SUBSET D] /\ C[0] = {}
  /\ \A m \in 1..n : C[m] = C[m - 1] \cup {x[m]} /\ x[m] \notin C[m - 1]

Gives(n, q, has, x, C, take) ==
  \A m \in 1..n : take[x[m]] = Rest(has[x[m]], q - SumFunctionOnSet(has, C[m - 1]))

GaveSoFar(m, q, has, x, C, take) ==
  /\ IsFiniteSet(C[m]) /\ \A i \in C[m] : take[i] \in Int
  /\ SumFunctionOnSet(take, C[m]) = AtMost(q, SumFunctionOnSet(has, C[m]))
  /\ m > 0 => take[x[m]] \in 0..has[x[m]]

\* One more layer in the order keeps what was said of those before it.
LEMMA GaveMore ==
  ASSUME NEW n \in Nat, NEW q \in Nat, NEW D, NEW has, \A i \in D : has[i] \in Nat,
         NEW x, NEW C, IsOrder(n, D, x, C), NEW take, Gives(n, q, has, x, C, take),
         NEW m \in 1..n, GaveSoFar(m - 1, q, has, x, C, take)
  PROVE  GaveSoFar(m, q, has, x, C, take)
<1>1. PICK B, e, r : /\ B = C[m - 1] /\ e = x[m]
                     /\ r = q - SumFunctionOnSet(has, B)
  OBVIOUS
<1>2. /\ IsFiniteSet(B) /\ \A i \in B : take[i] \in Int
      /\ SumFunctionOnSet(take, B) = AtMost(q, SumFunctionOnSet(has, B))
  BY <1>1 DEF GaveSoFar
<1>3. C[m] = B \cup {e} /\ e \notin B /\ e \in D /\ B \subseteq D
  <2>1. m - 1 \in 0..n
    OBVIOUS
  <2> QED BY <1>1, <2>1 DEF IsOrder
<1>4. take[e] = Rest(has[e], r)
  BY <1>1 DEF Gives
<1>5. \A i \in B \cup {e} : has[i] \in Nat
  BY <1>3
<1>6. PICK a, b, h : a = SumFunctionOnSet(has, B) /\ b = SumFunctionOnSet(take, B) /\ h = has[e]
  OBVIOUS
<1>7. a \in Nat /\ h \in Nat /\ b = AtMost(q, a) /\ r = q - a /\ take[e] = Rest(h, r)
  <2>1. \A i \in B : has[i] \in Nat
    BY <1>5
  <2>2. SumFunctionOnSet(has, B) \in Nat
    BY <1>2, <2>1, SumNat
  <2> QED BY <1>1, <1>2, <1>4, <1>5, <1>6, <2>2
<1>8. b + take[e] = AtMost(q, a + h) /\ take[e] \in 0..h
  BY <1>7 DEF Rest, AtLeast, AtMost
<1>9. \A i \in B \cup {e} : take[i] \in Int
  BY <1>2, <1>7, <1>8
<1>10. SumFunctionOnSet(take, B \cup {e}) = b + take[e]
  BY <1>2, <1>3, <1>6, <1>9, SumAdd
<1>11. SumFunctionOnSet(has, B \cup {e}) = a + h
  <2>1. \A i \in B \cup {e} : has[i] \in Int
    BY <1>5
  <2> QED BY <1>2, <1>3, <1>6, <2>1, SumAdd
<1>12. IsFiniteSet(B \cup {e})
  BY <1>2, FS_AddElement
<1> QED BY <1>1, <1>3, <1>6, <1>8, <1>9, <1>10, <1>11, <1>12 DEF GaveSoFar

\* Taking from layers in an order takes what is asked, or all there is, and from
\* each no more than it has.
LEMMA TakeInOrder ==
  ASSUME NEW n \in Nat, NEW q \in Nat, NEW D, NEW has, \A i \in D : has[i] \in Nat,
         NEW x, NEW C, IsOrder(n, D, x, C), NEW take, Gives(n, q, has, x, C, take)
  PROVE  /\ SumFunctionOnSet(take, C[n]) = AtMost(q, SumFunctionOnSet(has, C[n]))
         /\ \A m \in 1..n : take[x[m]] \in 0..has[x[m]]
<1> DEFINE P == {m \in 0..n : GaveSoFar(m, q, has, x, C, take)}
<1>1. 0 \in P
  <2>1. SumFunctionOnSet(take, {}) = 0 /\ SumFunctionOnSet(has, {}) = 0
    BY SumNone
  <2>2. C[0] = {}
    BY DEF IsOrder
  <2>3. GaveSoFar(0, q, has, x, C, take)
    BY <2>1, <2>2, FS_EmptySet DEF AtMost, GaveSoFar
  <2>4. 0 \in 0..n
    OBVIOUS
  <2> QED BY <2>3, <2>4
<1>2. ASSUME NEW m \in 1..n, m - 1 \in P PROVE m \in P
  <2>1. GaveSoFar(m - 1, q, has, x, C, take)
    BY <1>2
  <2>2. GaveSoFar(m, q, has, x, C, take)
    <3> HIDE DEF P
    <3> QED BY <2>1, GaveMore
  <2>3. m \in 0..n
    OBVIOUS
  <2> QED BY <2>2, <2>3
<1>3. \A m \in 0..n : m \in P
  <2> HIDE DEF P
  <2> QED BY <1>1, <1>2, UpTo
<1>4. \A m \in 0..n : GaveSoFar(m, q, has, x, C, take)
  BY <1>3
<1>5. n \in 0..n /\ \A m \in 1..n : m \in 0..n /\ m > 0
  OBVIOUS
<1> QED BY <1>4, <1>5 DEF GaveSoFar

\* Oldest first and newest first.
LEMMA TakeOldest ==
  ASSUME NEW n \in Nat, NEW q \in Nat, NEW has, \A i \in 1..n : has[i] \in Nat, NEW take,
         \A i \in 1..n : take[i] = Rest(has[i], q - SumFunctionOnSet(has, 1..(i - 1)))
  PROVE  /\ SumFunctionOnSet(take, 1..n) = AtMost(q, SumFunctionOnSet(has, 1..n))
         /\ \A i \in 1..n : take[i] \in 0..has[i]
<1> DEFINE D == 1..n
           x == [m \in 1..n |-> m]
           C == [m \in 0..n |-> 1..m]
<1>1. x \in [1..n -> D] /\ C \in [0..n -> SUBSET D] /\ C[0] = {}
  OBVIOUS
<1>2. \A m \in 1..n : C[m] = C[m - 1] \cup {x[m]} /\ x[m] \notin C[m - 1]
  OBVIOUS
<1>3. \A m \in 1..n : x[m] = m /\ C[m - 1] = 1..(m - 1)
  OBVIOUS
<1>4. C[n] = 1..n
  OBVIOUS
<1>5. \A i \in D : has[i] \in Nat
  OBVIOUS
<1> HIDE DEF D, x, C
<1>6. IsOrder(n, D, x, C)
  BY <1>1, <1>2 DEF IsOrder
<1>7. Gives(n, q, has, x, C, take)
  BY <1>3 DEF Gives
<1>8. /\ SumFunctionOnSet(take, C[n]) = AtMost(q, SumFunctionOnSet(has, C[n]))
      /\ \A m \in 1..n : take[x[m]] \in 0..has[x[m]]
  BY <1>5, <1>6, <1>7, TakeInOrder
<1> QED BY <1>3, <1>4, <1>8

\* So does taking the newest first.
LEMMA TakeNewest ==
  ASSUME NEW n \in Nat, NEW q \in Nat, NEW has, \A i \in 1..n : has[i] \in Nat, NEW take,
         \A i \in 1..n : take[i] = Rest(has[i], q - SumFunctionOnSet(has, (i + 1)..n))
  PROVE  /\ SumFunctionOnSet(take, 1..n) = AtMost(q, SumFunctionOnSet(has, 1..n))
         /\ \A i \in 1..n : take[i] \in 0..has[i]
<1> DEFINE D == 1..n
           x == [m \in 1..n |-> n + 1 - m]
           C == [m \in 0..n |-> (n + 1 - m)..n]
<1>1. x \in [1..n -> D] /\ C \in [0..n -> SUBSET D] /\ C[0] = {}
  OBVIOUS
<1>2. \A m \in 1..n : C[m] = C[m - 1] \cup {x[m]} /\ x[m] \notin C[m - 1]
  OBVIOUS
<1>3. \A m \in 1..n : /\ x[m] = n + 1 - m /\ C[m - 1] = (x[m] + 1)..n /\ x[m] \in 1..n
  OBVIOUS
<1>4. C[n] = 1..n
  OBVIOUS
<1>5. \A i \in 1..n : \E m \in 1..n : x[m] = i
  <2> SUFFICES ASSUME NEW i \in 1..n PROVE \E m \in 1..n : x[m] = i
    OBVIOUS
  <2>1. n + 1 - i \in 1..n /\ x[n + 1 - i] = i
    OBVIOUS
  <2> QED BY <2>1
<1>6. \A i \in D : has[i] \in Nat
  OBVIOUS
<1> HIDE DEF D, x, C
<1>7. IsOrder(n, D, x, C)
  BY <1>1, <1>2 DEF IsOrder
<1>8. Gives(n, q, has, x, C, take)
  BY <1>3 DEF Gives
<1>9. /\ SumFunctionOnSet(take, C[n]) = AtMost(q, SumFunctionOnSet(has, C[n]))
      /\ \A m \in 1..n : take[x[m]] \in 0..has[x[m]]
  BY <1>6, <1>7, <1>8, TakeInOrder
<1> QED BY <1>4, <1>5, <1>9

\* What Append does.
LEMMA Appended ==
  ASSUME NEW S, NEW s \in Seq(S), NEW e \in S
  PROVE  /\ Append(s, e) \in Seq(S) /\ Len(Append(s, e)) = Len(s) + 1
         /\ \A i \in 1..Len(s) : Append(s, e)[i] = s[i]
         /\ Append(s, e)[Len(s) + 1] = e
  BY AppendProperties

\* What the elements of a sequence weigh together.
Weight(s, g) == SumFunctionOnSet([i \in DOMAIN s |-> g[s[i]]], DOMAIN s)

\* An empty list weighs nothing.
LEMMA WeightNone == \A g : Weight(<<>>, g) = 0
<1>1. DOMAIN <<>> = {}
  OBVIOUS
<1> QED BY <1>1, SumNone DEF Weight

\* One more row adds its own weight.
LEMMA WeightAppended ==
  ASSUME NEW S, NEW s \in Seq(S), NEW e \in S, NEW g \in [S -> Int]
  PROVE  Weight(Append(s, e), g) = Weight(s, g) + g[e] /\ Weight(s, g) \in Int
<1> DEFINE t == Append(s, e)
           u == [i \in DOMAIN t |-> g[t[i]]]
           v == [i \in DOMAIN s |-> g[s[i]]]
           n == Len(s)
<1>1. /\ n \in Nat /\ DOMAIN s = 1..n /\ \A i \in 1..n : s[i] \in S
  BY Elements
<1>2. t \in Seq(S) /\ Len(t) = n + 1 /\ \A i \in 1..n : t[i] = s[i] /\ t[n + 1] = e
  BY Appended
<1>3. DOMAIN t = 1..(n + 1) /\ \A i \in 1..(n + 1) : t[i] \in S
  <2> HIDE DEF t, n
  <2> QED BY <1>2, Elements
<1>4. \A i \in 1..(n + 1) : u[i] \in Int
  BY <1>3
<1>5. \A i \in 1..n : u[i] = v[i]
  BY <1>1, <1>2, <1>3
<1>6. u[n + 1] = g[e]
  BY <1>1, <1>2, <1>3
<1>7. Weight(t, g) = SumFunctionOnSet(u, 1..(n + 1)) /\ Weight(s, g) = SumFunctionOnSet(v, 1..n)
  BY <1>1, <1>3 DEF Weight
<1> HIDE DEF t, u, v, n
<1>8. SumFunctionOnSet(u, 1..(n + 1)) = SumFunctionOnSet(u, 1..n) + u[n + 1]
  <2>1. n + 1 \in Nat \ {0} /\ (n + 1) - 1 = n
    BY <1>1
  <2>2. SumFunctionOnSet(u, 1..(n + 1)) = SumFunctionOnSet(u, 1..((n + 1) - 1)) + u[n + 1]
    BY <1>4, <2>1, SumUpTo
  <2> QED BY <2>1, <2>2
<1>9. SumFunctionOnSet(u, 1..n) = SumFunctionOnSet(v, 1..n) /\ SumFunctionOnSet(v, 1..n) \in Int
  <2>1. PICK D : D = 1..n
    OBVIOUS
  <2>2. IsFiniteSet(D) /\ \A i \in D : u[i] = v[i]
    BY <1>1, <1>5, <2>1, FS_Interval
  <2>3. \A i \in D : v[i] \in Int
    <3>1. \A i \in 1..n : i \in 1..(n + 1)
      BY <1>1
    <3> QED BY <1>4, <1>5, <2>1, <3>1
  <2>4. SumFunctionOnSet(u, D) = SumFunctionOnSet(v, D) /\ SumFunctionOnSet(v, D) \in Int
    BY <2>2, <2>3, SumSame, SumType
  <2> QED BY <2>1, <2>4
<1> QED BY <1>6, <1>7, <1>8, <1>9 DEF t

\* The numbers up to k are those up to k - 1, and k.
LEMMA PrefixOf ==
  ASSUME NEW k \in Nat \ {0}
  PROVE  1..k # {} /\ Latest(1..k) = k /\ (1..k) \ {Latest(1..k)} = 1..(k - 1)
<1>1. k - 1 \in Nat /\ (k - 1) + 1 = k /\ k \in 1..k
  OBVIOUS
<1>2. \A s \in SUBSET (1..((k - 1) + 1)) : (k - 1) + 1 \in s => Latest(s) = (k - 1) + 1
  BY <1>1, LatestIs
<1>3. Latest(1..k) = k
  BY <1>1, <1>2
<1>4. 1..k # {} /\ (1..k) \ {k} = 1..(k - 1)
  OBVIOUS
<1> QED BY <1>3, <1>4

\* Leaving out what is of nothing leaves out nothing.
LEMMA FilledKeeps ==
  ASSUME NEW R, NEW rows \in Seq(R), NEW g \in [R -> Int],
         \A r \in R : r.qty > 0 \/ g[r] = 0
  PROVE  Filled(rows) \in Seq(R) /\ Weight(Filled(rows), g) = Weight(rows, g)
<1> DEFINE n == Len(rows)
           A == Seq(R)
           Op(a, r) == IF r.qty > 0 THEN Append(a, r) ELSE a
           step == [p \in A \X (1..n) |-> Op(p[1], rows[p[2]])]
           Fills(f) == f = [s \in SUBSET (1..n) |->
                              IF s = {} THEN <<>>
                              ELSE Op(f[s \ {Latest(s)}], rows[Latest(s)])]
           f == CHOOSE f : Fills(f)
<1>1. n \in Nat /\ DOMAIN rows = 1..n /\ \A i \in 1..n : rows[i] \in R
  BY Elements
<1>2. <<>> \in A /\ \A a \in A, i \in 1..n : Op(a, rows[i]) \in A
  BY <1>1, Appended
<1>3. Filled(rows) = f[1..n]
  BY <1>1, Zenon DEF Filled, FoldLeft, MapThenFoldSet, Latest, Max
<1>4. step \in [A \X (1..n) -> A]
  <2> HIDE DEF Op, A
  <2> QED BY <1>2
<1>5. PICK h \in [SUBSET (1..n) -> A] : IsFold(h, <<>>, step, n)
  <2> HIDE DEF step, A
  <2> QED BY <1>1, <1>2, <1>4, FoldExists
<1>6. Fills(h)
  <2>1. ASSUME NEW s \in SUBSET (1..n), s # {}
        PROVE  h[s] = Op(h[s \ {Latest(s)}], rows[Latest(s)])
    <3>1. Latest(s) \in 1..n
      BY <1>1, <2>1, LatestIn
    <3>2. h[s \ {Latest(s)}] \in A
      BY <1>5
    <3>3. h[s] = step[<<h[s \ {Latest(s)}], Latest(s)>>]
      BY <1>5, <2>1 DEF IsFold
    <3> HIDE DEF A, Op
    <3> QED BY <3>1, <3>2, <3>3
  <2>2. h[{}] = <<>>
    <3>1. {} \in SUBSET (1..n)
      OBVIOUS
    <3> QED BY <1>5, <3>1 DEF IsFold
  <2> HIDE DEF Op
  <2> QED BY <1>5, <2>1, <2>2
<1>7. Fills(f)
  <2> HIDE DEF Fills
  <2> QED BY <1>6
<1>8. f[1..0] = <<>> /\ \A k \in 1..n : f[1..k] = Op(f[1..(k - 1)], rows[k])
  <2> HIDE DEF Op, f
  <2>1. f[1..0] = <<>>
    <3>1. 1..0 = {}
      OBVIOUS
    <3> QED BY <1>7, <3>1
  <2>2. ASSUME NEW k \in 1..n PROVE f[1..k] = Op(f[1..(k - 1)], rows[k])
    <3>1. k \in Nat \ {0} /\ 1..k \in SUBSET (1..n)
      BY <1>1
    <3>2. 1..k # {} /\ Latest(1..k) = k /\ (1..k) \ {Latest(1..k)} = 1..(k - 1)
      BY <3>1, PrefixOf
    <3> QED BY <1>7, <3>1, <3>2
  <2> QED BY <2>1, <2>2
<1> HIDE DEF f, Fills, step
<1> DEFINE v == [i \in 1..n |-> g[rows[i]]]
           P == {k \in 0..n : f[1..k] \in A /\ Weight(f[1..k], g) = SumFunctionOnSet(v, 1..k)}
<1>9. 0 \in P
  <2>1. SumFunctionOnSet(v, 1..0) = 0
    <3>1. 1..0 = {}
      OBVIOUS
    <3> QED BY <3>1, SumNone
  <2>2. 0 \in 0..n
    BY <1>1
  <2> HIDE DEF v, A
  <2> QED BY <1>2, <1>8, <2>1, <2>2, WeightNone
<1>10. ASSUME NEW k \in 1..n, k - 1 \in P PROVE k \in P
  <2>1. PICK a : a = f[1..(k - 1)]
    OBVIOUS
  <2>2. a \in A /\ Weight(a, g) = SumFunctionOnSet(v, 1..(k - 1))
    BY <1>10, <2>1
  <2>3. rows[k] \in R /\ f[1..k] = Op(a, rows[k])
    BY <1>1, <1>8, <2>1
  <2>4. Weight(a, g) \in Int /\ Weight(Append(a, rows[k]), g) = Weight(a, g) + g[rows[k]]
    BY <2>2, <2>3, WeightAppended
  <2>5. SumFunctionOnSet(v, 1..k) = SumFunctionOnSet(v, 1..(k - 1)) + v[k]
    <3>1. k \in Nat \ {0} /\ \A i \in 1..k : v[i] \in Int
      BY <1>1
    <3> HIDE DEF v
    <3> QED BY <3>1, SumUpTo
  <2>6. v[k] = g[rows[k]]
    OBVIOUS
  <2>7. rows[k].qty > 0 \/ g[rows[k]] = 0
    BY <2>3
  <2>8. Weight(f[1..k], g) = SumFunctionOnSet(v, 1..k)
    <3> HIDE DEF v
    <3> QED BY <2>2, <2>3, <2>4, <2>5, <2>6, <2>7
  <2>9. f[1..k] \in A
    <3> HIDE DEF Op
    <3>1. Op(a, rows[k]) \in A
      BY <1>2, <2>2
    <3> QED BY <2>3, <3>1
  <2>10. k \in 0..n
    BY <1>1
  <2> QED BY <2>8, <2>9, <2>10
<1>11. n \in P
  <2> HIDE DEF P
  <2>1. \A i \in 0..n : i \in P
    BY <1>1, <1>9, <1>10, UpTo
  <2>2. n \in 0..n
    BY <1>1
  <2> QED BY <2>1, <2>2
<1>12. Weight(rows, g) = SumFunctionOnSet(v, 1..n)
  BY <1>1 DEF Weight
<1> QED BY <1>3, <1>11, <1>12

\* What the layers of a stock have left in a warehouse, layer by layer.
Has(st, w) == [i \in DOMAIN st.layers |-> IF st.layers[i].wh = w THEN st.layers[i].left ELSE 0]

\* The layers of one warehouse sum to its layer stock.
LEMMA LayerFacts ==
  ASSUME NEW st \in Stocks, NEW w \in Warehouses
  PROVE  /\ Len(st.layers) \in Nat /\ DOMAIN st.layers = 1..Len(st.layers)
         /\ \A i \in 1..Len(st.layers) : /\ st.layers[i] \in Layers /\ Has(st, w)[i] \in Nat
                                         /\ Has(st, w)[i] <= st.layers[i].left
         /\ LayerStock(st, w) = SumFunctionOnSet(Has(st, w), 1..Len(st.layers))
         /\ LayerStock(st, w) \in Nat
<1> DEFINE n == Len(st.layers)
           D == 1..n
<1>1. st.layers \in Seq(Layers)
  BY DEF Stocks
<1>2. n \in Nat /\ DOMAIN st.layers = D /\ IsFiniteSet(D) /\ \A i \in D : st.layers[i] \in Layers
  BY <1>1, Elements
<1>3. \A i \in D : Has(st, w)[i] \in Nat /\ Has(st, w)[i] <= st.layers[i].left
  <2> HIDE DEF D, n
  <2> QED BY <1>2 DEF Has, Layers
<1>4. LayerStock(st, w) = SumFunctionOnSet(Has(st, w), D)
  BY <1>2 DEF LayerStock, SumOver, Has
<1>5. LayerStock(st, w) \in Nat
  <2> HIDE DEF D
  <2> QED BY <1>2, <1>3, <1>4, SumNat
<1> QED BY <1>2, <1>3, <1>4, <1>5

\* What goes before a layer is what the warehouse has in the layers before it.
LEMMA BeforeIs ==
  ASSUME NEW st \in Stocks, NEW w \in Warehouses, NEW E \in SUBSET (1..Len(st.layers))
  PROVE  SumFunctionOnSet([j \in DOMAIN st.layers |-> st.layers[j].left],
                          {j \in {i \in DOMAIN st.layers : st.layers[i].wh = w} : j \in E})
           = SumFunctionOnSet(Has(st, w), E)
<1> DEFINE left == [j \in DOMAIN st.layers |-> st.layers[j].left]
           R == {j \in {i \in DOMAIN st.layers : st.layers[i].wh = w} : j \in E}
           D == 1..Len(st.layers)
<1>1. /\ DOMAIN st.layers = D
      /\ \A i \in D : Has(st, w)[i] \in Nat
  BY LayerFacts
<1>2. IsFiniteSet(E) /\ R \in SUBSET E /\ IsFiniteSet(R)
  <2>1. IsFiniteSet(D)
    BY LayerFacts, FS_Interval
  <2>2. R \subseteq E /\ R \subseteq D /\ E \subseteq D
    BY <1>1
  <2> HIDE DEF D, R
  <2> QED BY <2>1, <2>2, FS_Subset
<1>3. \A j \in E : Has(st, w)[j] \in Int
  BY <1>1
<1>4. \A j \in E \ R : Has(st, w)[j] = 0
  BY <1>1 DEF Has
<1>5. \A j \in R : left[j] = Has(st, w)[j]
  BY <1>1 DEF Has
<1> HIDE DEF left, R
<1>6. SumFunctionOnSet(Has(st, w), E) = SumFunctionOnSet(Has(st, w), R)
  BY <1>2, <1>3, <1>4, SumSupport
<1>7. SumFunctionOnSet(left, R) = SumFunctionOnSet(Has(st, w), R)
  BY <1>2, <1>5, SumSame
<1> QED BY <1>6, <1>7 DEF left, R

\* consume_layers takes what is asked, as far as the warehouse has layers, and
\* from no layer more than it has left.
LEMMA TakeIs ==
  ASSUME NEW st \in Stocks, NEW w \in Warehouses, NEW q \in Nat
  PROVE  /\ DOMAIN Take(st, w, q) = 1..Len(st.layers)
         /\ \A i \in 1..Len(st.layers) : Take(st, w, q)[i] \in 0..Has(st, w)[i]
         /\ SumFunctionOnSet(Take(st, w, q), 1..Len(st.layers)) = AtMost(q, LayerStock(st, w))
<1> DEFINE ls == st.layers
           n == Len(ls)
           S == {i \in DOMAIN ls : ls[i].wh = w}
           left == [j \in DOMAIN ls |-> ls[j].left]
           first(i) == {j \in S : IF Method = "fifo" THEN j < i ELSE j > i}
           before(i) == SumFunctionOnSet(left, first(i))
           has == Has(st, w)
           take == Take(st, w, q)
<1>1. /\ n \in Nat /\ DOMAIN ls = 1..n
      /\ \A i \in 1..n : has[i] \in Nat
      /\ LayerStock(st, w) = SumFunctionOnSet(has, 1..n)
  BY LayerFacts
<1>2. take = [i \in DOMAIN ls |-> IF i \in S THEN AtLeast(0, AtMost(ls[i].left, q - before(i))) ELSE 0]
  BY DEF Take, TakeFrom
<1>3. \A i \in 1..n : IF i \in S THEN has[i] = ls[i].left ELSE has[i] = 0
  BY <1>1 DEF Has
<1>4. CASE Method = "fifo"
  <2>1. ASSUME NEW i \in 1..n PROVE before(i) = SumFunctionOnSet(has, 1..(i - 1))
    <3>1. 1..(i - 1) \in SUBSET (1..n)
      BY <1>1
    <3>2. first(i) = {j \in S : j \in 1..(i - 1)}
      BY <1>1, <1>4
    <3>3. SumFunctionOnSet(left, {j \in S : j \in 1..(i - 1)}) = SumFunctionOnSet(has, 1..(i - 1))
      BY <3>1, BeforeIs
    <3> QED BY <3>2, <3>3
  <2> HIDE DEF before, left, S, has, take
  <2>2. ASSUME NEW i \in 1..n
        PROVE  take[i] = Rest(has[i], q - SumFunctionOnSet(has, 1..(i - 1)))
    <3>1. PICK b : b = SumFunctionOnSet(has, 1..(i - 1))
      OBVIOUS
    <3>2. b \in Int
      <4>1. PICK D : D = 1..(i - 1)
        OBVIOUS
      <4>2. IsFiniteSet(D)
        <5>1. 1 \in Int /\ i - 1 \in Int
          BY <1>1
        <5>2. IsFiniteSet(1..(i - 1))
          BY <5>1, FS_Interval
        <5> QED BY <4>1, <5>2
      <4>3. \A j \in D : has[j] \in Int
        BY <4>1, <1>1
      <4>4. SumFunctionOnSet(has, D) \in Int
        BY <4>2, <4>3, SumType
      <4> QED BY <3>1, <4>1, <4>4
    <3>3. take[i] = IF i \in S THEN AtLeast(0, AtMost(ls[i].left, q - b)) ELSE 0
      BY <1>1, <1>2, <2>1, <3>1
    <3>4. has[i] \in Nat /\ (i \in S => has[i] = ls[i].left) /\ (i \notin S => has[i] = 0)
      BY <1>1, <1>3
    <3>5. Rest(has[i], q - b) = IF i \in S THEN AtLeast(0, AtMost(ls[i].left, q - b)) ELSE 0
      <4>1. i \in S => Rest(has[i], q - b) = AtLeast(0, AtMost(ls[i].left, q - b))
        BY <3>4 DEF Rest
      <4>2. Rest(0, q - b) = 0
        BY <3>2 DEF Rest, AtLeast, AtMost
      <4> QED BY <3>4, <4>1, <4>2
    <3> QED BY <3>1, <3>3, <3>5
  <2>3. /\ SumFunctionOnSet(take, 1..n) = AtMost(q, SumFunctionOnSet(has, 1..n))
        /\ \A i \in 1..n : take[i] \in 0..has[i]
    <3> HIDE DEF n
    <3> QED BY <1>1, <2>2, TakeOldest
  <2> QED BY <1>1, <1>2, <2>3 DEF has, take
<1>5. CASE Method = "lifo"
  <2>1. ASSUME NEW i \in 1..n PROVE before(i) = SumFunctionOnSet(has, (i + 1)..n)
    <3>1. (i + 1)..n \in SUBSET (1..n)
      BY <1>1
    <3>2. first(i) = {j \in S : j \in (i + 1)..n}
      BY <1>1, <1>5
    <3>3. SumFunctionOnSet(left, {j \in S : j \in (i + 1)..n}) = SumFunctionOnSet(has, (i + 1)..n)
      BY <3>1, BeforeIs
    <3> QED BY <3>2, <3>3
  <2> HIDE DEF before, left, S, has, take
  <2>2. ASSUME NEW i \in 1..n
        PROVE  take[i] = Rest(has[i], q - SumFunctionOnSet(has, (i + 1)..n))
    <3>1. PICK b : b = SumFunctionOnSet(has, (i + 1)..n)
      OBVIOUS
    <3>2. b \in Int
      <4>1. PICK D : D = (i + 1)..n
        OBVIOUS
      <4>2. IsFiniteSet(D)
        <5>1. i + 1 \in Int /\ n \in Int
          BY <1>1
        <5>2. IsFiniteSet((i + 1)..n)
          BY <5>1, FS_Interval
        <5> QED BY <4>1, <5>2
      <4>3. \A j \in D : has[j] \in Int
        BY <4>1, <1>1
      <4>4. SumFunctionOnSet(has, D) \in Int
        BY <4>2, <4>3, SumType
      <4> QED BY <3>1, <4>1, <4>4
    <3>3. take[i] = IF i \in S THEN AtLeast(0, AtMost(ls[i].left, q - b)) ELSE 0
      BY <1>1, <1>2, <2>1, <3>1
    <3>4. has[i] \in Nat /\ (i \in S => has[i] = ls[i].left) /\ (i \notin S => has[i] = 0)
      BY <1>1, <1>3
    <3>5. Rest(has[i], q - b) = IF i \in S THEN AtLeast(0, AtMost(ls[i].left, q - b)) ELSE 0
      <4>1. i \in S => Rest(has[i], q - b) = AtLeast(0, AtMost(ls[i].left, q - b))
        BY <3>4 DEF Rest
      <4>2. Rest(0, q - b) = 0
        BY <3>2 DEF Rest, AtLeast, AtMost
      <4> QED BY <3>4, <4>1, <4>2
    <3> QED BY <3>1, <3>3, <3>5
  <2>3. /\ SumFunctionOnSet(take, 1..n) = AtMost(q, SumFunctionOnSet(has, 1..n))
        /\ \A i \in 1..n : take[i] \in 0..has[i]
    <3> HIDE DEF n
    <3> QED BY <1>1, <2>2, TakeNewest
  <2> QED BY <1>1, <1>2, <2>3 DEF has, take
<1> QED BY <1>4, <1>5, CostingAssumption DEF CostingAssumption

\* The numbers up to n are finitely many.
LEMMA Finite == \A n \in Nat : IsFiniteSet(1..n)
<1> SUFFICES ASSUME NEW n \in Nat PROVE IsFiniteSet(1..n)
  OBVIOUS
<1> QED BY FS_Interval

\* What rows are of, together.
Qty == [r \in Parts |-> r.qty]
Content(rows) == Weight(rows, Qty)

\* What rows of quantity and cost hold.
LEMMA ContentIs ==
  ASSUME NEW rows \in Seq(Parts)
  PROVE  /\ Len(rows) \in Nat /\ DOMAIN rows = 1..Len(rows)
         /\ \A i \in 1..Len(rows) : rows[i] \in Parts
         /\ Content(rows) = SumFunctionOnSet([i \in DOMAIN rows |-> rows[i].qty], 1..Len(rows))
         /\ Content(rows) \in Nat
<1> DEFINE n == Len(rows)
           D == 1..n
           u == [i \in DOMAIN rows |-> Qty[rows[i]]]
           v == [i \in DOMAIN rows |-> rows[i].qty]
<1>1. n \in Nat /\ DOMAIN rows = D /\ IsFiniteSet(D) /\ \A i \in D : rows[i] \in Parts
  BY Elements
<1>2. \A i \in D : u[i] = v[i] /\ v[i] \in Nat
  <2> HIDE DEF D
  <2> QED BY <1>1 DEF Qty, Parts
<1>3. Content(rows) = SumFunctionOnSet(u, D)
  BY <1>1 DEF Content, Weight
<1> HIDE DEF u, v, D
<1>4. SumFunctionOnSet(u, D) = SumFunctionOnSet(v, D)
  BY <1>1, <1>2, SumSame
<1>5. SumFunctionOnSet(v, D) \in Nat
  BY <1>1, <1>2, SumNat
<1> QED BY <1>1, <1>3, <1>4, <1>5 DEF v, D

\* Consuming takes from the warehouse what is taken, and nothing elsewhere.
LEMMA ConsumeIs ==
  ASSUME NEW st \in Stocks, NEW w \in Warehouses, NEW take,
         \A i \in 1..Len(st.layers) : take[i] \in 0..Has(st, w)[i]
  PROVE  LET after == Consume(st, take)
             taken == SumFunctionOnSet(take, 1..Len(st.layers))
         IN /\ after \in Stocks /\ after.inv = st.inv /\ after.price = st.price
            /\ LayerStock(after, w) = LayerStock(st, w) - taken
            /\ \A v \in Warehouses : v # w => LayerStock(after, v) = LayerStock(st, v)
            /\ Layered(after) => Layered(st)
            /\ Len(after.layers) = Len(st.layers)
<1> DEFINE n == Len(st.layers)
           ls == [i \in DOMAIN st.layers |-> [st.layers[i] EXCEPT !.left = @ - take[i]]]
           after == Consume(st, take)
           taken == SumFunctionOnSet(take, 1..n)
<1>1. /\ n \in Nat /\ DOMAIN st.layers = 1..n /\ \A i \in 1..n : st.layers[i] \in Layers
      /\ \A v \in Warehouses, i \in 1..n : /\ Has(st, v)[i] \in Nat
                                           /\ Has(st, v)[i] <= st.layers[i].left
      /\ \A v \in Warehouses : /\ LayerStock(st, v) = SumFunctionOnSet(Has(st, v), 1..n)
                               /\ LayerStock(st, v) \in Nat
  BY LayerFacts
<1>2. \A i \in 1..n : /\ take[i] \in Nat /\ st.layers[i].left - take[i] \in Nat
                      /\ st.layers[i].wh # w => take[i] = 0
  <2> SUFFICES ASSUME NEW i \in 1..n
               PROVE  /\ take[i] \in Nat /\ st.layers[i].left - take[i] \in Nat
                      /\ st.layers[i].wh # w => take[i] = 0
    OBVIOUS
  <2>1. take[i] \in 0..Has(st, w)[i] /\ Has(st, w)[i] \in Nat
    BY <1>1
  <2>2. Has(st, w)[i] <= st.layers[i].left /\ st.layers[i].left \in Nat
    BY <1>1 DEF Layers
  <2>3. st.layers[i].wh # w => Has(st, w)[i] = 0
    BY <1>1 DEF Has
  <2> QED BY <2>1, <2>2, <2>3
<1>3. \A i \in 1..n : /\ ls[i] \in Layers /\ ls[i].wh = st.layers[i].wh
                      /\ ls[i].left = st.layers[i].left - take[i]
  BY <1>1, <1>2 DEF Layers
<1>4. ls \in Seq(Layers) /\ Len(ls) = n /\ DOMAIN ls = 1..n
  <2>1. ls \in [1..n -> Layers]
    BY <1>1, <1>3
  <2> HIDE DEF ls, n
  <2> QED BY <1>1, <2>1, FunctionIsSeq
<1>5. after = [st EXCEPT !.layers = ls]
  BY DEF Consume
<1> HIDE DEF ls
<1>6. after \in Stocks /\ after.inv = st.inv /\ after.price = st.price /\ after.layers = ls
  BY <1>4, <1>5 DEF Stocks
<1> HIDE DEF after
<1>7. \A v \in Warehouses : LayerStock(after, v) = SumFunctionOnSet(Has(after, v), 1..n)
  BY <1>4, <1>6, LayerFacts
<1>8. \A v \in Warehouses, i \in 1..n :
        Has(after, v)[i] = Has(st, v)[i] - (IF v = w THEN take[i] ELSE 0)
  <2> SUFFICES ASSUME NEW v \in Warehouses, NEW i \in 1..n
               PROVE  Has(after, v)[i] = Has(st, v)[i] - (IF v = w THEN take[i] ELSE 0)
    OBVIOUS
  <2>1. Has(after, v)[i] = IF ls[i].wh = v THEN ls[i].left ELSE 0
    BY <1>4, <1>6 DEF Has
  <2>2. Has(st, v)[i] = IF st.layers[i].wh = v THEN st.layers[i].left ELSE 0
    BY <1>1 DEF Has
  <2>3. st.layers[i].left \in Nat
    BY <1>1 DEF Layers
  <2> QED BY <1>2, <1>3, <2>1, <2>2, <2>3
<1>9. PICK D : D = 1..n
  OBVIOUS
<1>10. IsFiniteSet(D)
  BY <1>1, <1>9, Finite
<1>11. LayerStock(after, w) = LayerStock(st, w) - taken
  <2>1. \A i \in D : /\ Has(after, w)[i] \in Int /\ take[i] \in Int
                     /\ Has(st, w)[i] = Has(after, w)[i] + take[i]
    BY <1>1, <1>2, <1>8, <1>9
  <2>2. SumFunctionOnSet(Has(st, w), D) = SumFunctionOnSet(Has(after, w), D) + SumFunctionOnSet(take, D)
    BY <1>10, <2>1, SumPlus
  <2>3. SumFunctionOnSet(Has(after, w), D) \in Int /\ SumFunctionOnSet(take, D) \in Int
    BY <1>10, <2>1, SumType
  <2>4. /\ LayerStock(after, w) = SumFunctionOnSet(Has(after, w), D)
        /\ LayerStock(st, w) = SumFunctionOnSet(Has(st, w), D)
        /\ taken = SumFunctionOnSet(take, D)
    BY <1>1, <1>7, <1>9
  <2> HIDE DEF taken
  <2> QED BY <2>2, <2>3, <2>4
<1>12. ASSUME NEW v \in Warehouses, v # w PROVE LayerStock(after, v) = LayerStock(st, v)
  <2>1. \A i \in D : Has(after, v)[i] = Has(st, v)[i]
    BY <1>1, <1>8, <1>9, <1>12
  <2>2. SumFunctionOnSet(Has(after, v), D) = SumFunctionOnSet(Has(st, v), D)
    BY <1>10, <2>1, SumSame
  <2> QED BY <1>1, <1>7, <1>9, <2>2
<1>13. Layered(after) => Layered(st)
  <2>1. ASSUME NEW i \in 1..n, ls[i].left > 0 PROVE st.layers[i].left > 0
    <3>1. st.layers[i].left \in Nat /\ take[i] \in Nat
      BY <1>1, <1>2 DEF Layers
    <3> QED BY <1>3, <2>1, <3>1
  <2> QED BY <1>1, <1>4, <1>6, <2>1 DEF Layered
<1>14. Len(after.layers) = n
  <2> HIDE DEF n
  <2> QED BY <1>4, <1>6
<1> HIDE DEF taken
<1> QED BY <1>6, <1>11, <1>12, <1>13, <1>14 DEF after, taken

\* New layers add what they are of to their warehouse.
LEMMA CreateIs ==
  ASSUME NEW st \in Stocks, NEW w \in Warehouses, NEW rows \in Seq(Parts)
  PROVE  LET after == CreateLayers(st, w, rows, <<>>)
         IN /\ after \in Stocks /\ after.inv = st.inv /\ after.price = st.price
            /\ LayerStock(after, w) = LayerStock(st, w) + Content(rows)
            /\ \A v \in Warehouses : v # w => LayerStock(after, v) = LayerStock(st, v)
            /\ Len(after.layers) = Len(st.layers) + Len(rows)
            /\ \A i \in 1..Len(st.layers) : after.layers[i] = st.layers[i]
<1> DEFINE n == Len(st.layers)
           m == Len(rows)
           more == [i \in DOMAIN rows |->
                      [wh |-> w, left |-> rows[i].qty, cost |-> rows[i].cost, doc |-> <<>>]]
           ls == st.layers \o more
           after == CreateLayers(st, w, rows, <<>>)
<1>1. /\ n \in Nat /\ DOMAIN st.layers = 1..n /\ \A i \in 1..n : st.layers[i] \in Layers
      /\ \A v \in Warehouses, i \in 1..n : Has(st, v)[i] \in Nat
      /\ \A v \in Warehouses : /\ LayerStock(st, v) = SumFunctionOnSet(Has(st, v), 1..n)
                               /\ LayerStock(st, v) \in Nat
  BY LayerFacts
<1>2. /\ m \in Nat /\ DOMAIN rows = 1..m /\ \A i \in 1..m : rows[i] \in Parts
      /\ Content(rows) = SumFunctionOnSet([i \in DOMAIN rows |-> rows[i].qty], 1..m)
  BY ContentIs
<1>3. more \in [1..m -> Layers]
  BY <1>2 DEF Layers, Parts
<1>4. more \in Seq(Layers) /\ Len(more) = m
  <2> HIDE DEF more, m
  <2> QED BY <1>2, <1>3, FunctionIsSeq
<1>5. st.layers \in Seq(Layers)
  BY DEF Stocks
<1>6. /\ ls \in Seq(Layers) /\ Len(ls) = n + m
      /\ \A i \in 1..n : ls[i] = st.layers[i]
      /\ \A i \in 1..m : ls[n + i] = more[i]
  <2> HIDE DEF more
  <2>1. ls \in Seq(Layers) /\ Len(ls) = Len(st.layers) + Len(more)
    BY <1>4, <1>5, ConcatProperties
  <2>2. \A i \in 1..(Len(st.layers) + Len(more)) :
          ls[i] = IF i <= Len(st.layers) THEN st.layers[i] ELSE more[i - Len(st.layers)]
    BY <1>4, <1>5, ConcatProperties
  <2>3. \A i \in 1..n : ls[i] = st.layers[i]
    BY <1>1, <1>2, <1>4, <2>2
  <2>4. ASSUME NEW i \in 1..m PROVE ls[n + i] = more[i]
    <3>1. n + i \in 1..(n + m) /\ ~(n + i <= n) /\ (n + i) - n = i
      BY <1>1, <1>2
    <3> QED BY <1>4, <2>2, <3>1
  <2> QED BY <1>4, <2>1, <2>3, <2>4
<1>7. after = [st EXCEPT !.layers = ls]
  BY DEF CreateLayers
<1>8. \A i \in 1..m : more[i].wh = w /\ more[i].left = rows[i].qty
  BY <1>2
<1> HIDE DEF ls, more
<1>9. after \in Stocks /\ after.inv = st.inv /\ after.price = st.price /\ after.layers = ls
  BY <1>6, <1>7 DEF Stocks
<1> HIDE DEF after
<1>10. /\ DOMAIN ls = 1..(n + m)
       /\ \A v \in Warehouses : LayerStock(after, v) = SumFunctionOnSet(Has(after, v), 1..(n + m))
       /\ \A v \in Warehouses, i \in 1..(n + m) : Has(after, v)[i] \in Nat
  BY <1>6, <1>9, LayerFacts
<1>11. \A v \in Warehouses : \A i \in 1..n : Has(after, v)[i] = Has(st, v)[i]
  BY <1>1, <1>2, <1>6, <1>9, <1>10 DEF Has
<1>12. \A v \in Warehouses : \A i \in 1..m : Has(after, v)[n + i] = IF v = w THEN rows[i].qty ELSE 0
  <2> SUFFICES ASSUME NEW v \in Warehouses, NEW i \in 1..m
               PROVE  Has(after, v)[n + i] = IF v = w THEN rows[i].qty ELSE 0
    OBVIOUS
  <2>1. n + i \in 1..(n + m)
    BY <1>1, <1>2
  <2>2. Has(after, v)[n + i] = IF ls[n + i].wh = v THEN ls[n + i].left ELSE 0
    BY <1>9, <1>10, <2>1 DEF Has
  <2> QED BY <1>6, <1>8, <2>2
<1>13. ASSUME NEW v \in Warehouses, NEW add, \A i \in 1..m : add[i] = Has(after, v)[n + i]
       PROVE  LayerStock(after, v) = LayerStock(st, v) + SumFunctionOnSet(add, 1..m)
  <2>1. \A i \in 1..(n + m) : Has(after, v)[i] \in Int
    BY <1>10
  <2>2. SumFunctionOnSet(Has(after, v), 1..(n + m))
          = SumFunctionOnSet(Has(after, v), 1..n) + SumFunctionOnSet(add, 1..m)
    <3>1. n \in Nat /\ m \in Nat
      BY <1>1, <1>2
    <3>2. PICK k, l, h : k = n /\ l = m /\ h = Has(after, v)
      OBVIOUS
    <3>3. /\ k \in Nat /\ l \in Nat /\ \A i \in 1..(k + l) : h[i] \in Int
          /\ \A i \in 1..l : add[i] = h[k + i]
      BY <1>13, <2>1, <3>1, <3>2
    <3>4. SumFunctionOnSet(h, 1..(k + l)) = SumFunctionOnSet(h, 1..k) + SumFunctionOnSet(add, 1..l)
      BY <3>3, SumAfter
    <3> QED BY <3>2, <3>4
  <2>3. PICK D : D = 1..n
    OBVIOUS
  <2>4. IsFiniteSet(D)
    BY <1>1, <2>3, Finite
  <2>5. \A i \in D : Has(after, v)[i] = Has(st, v)[i]
    BY <1>11, <2>3
  <2>6. SumFunctionOnSet(Has(after, v), D) = SumFunctionOnSet(Has(st, v), D)
    BY <2>4, <2>5, SumSame
  <2> QED BY <1>1, <1>10, <2>2, <2>3, <2>6
<1>14. LayerStock(after, w) = LayerStock(st, w) + Content(rows)
  <2> DEFINE add == [i \in DOMAIN rows |-> rows[i].qty]
  <2>1. \A i \in 1..m : add[i] = Has(after, w)[n + i]
    BY <1>2, <1>12
  <2> HIDE DEF add
  <2>2. LayerStock(after, w) = LayerStock(st, w) + SumFunctionOnSet(add, 1..m)
    BY <1>13, <2>1
  <2> QED BY <1>2, <2>2 DEF add
<1>15. ASSUME NEW v \in Warehouses, v # w PROVE LayerStock(after, v) = LayerStock(st, v)
  <2> DEFINE add == [i \in DOMAIN rows |-> 0]
  <2>1. \A i \in 1..m : add[i] = Has(after, v)[n + i] /\ add[i] = 0
    BY <1>2, <1>12, <1>15
  <2> HIDE DEF add
  <2>2. LayerStock(after, v) = LayerStock(st, v) + SumFunctionOnSet(add, 1..m)
    BY <1>13, <2>1
  <2>3. SumFunctionOnSet(add, 1..m) = 0
    <3>1. PICK D : D = 1..m
      OBVIOUS
    <3>2. IsFiniteSet(D)
      BY <1>2, <3>1, Finite
    <3>3. {} \in SUBSET D /\ \A i \in D : add[i] \in Int /\ add[i] = 0
      BY <2>1, <3>1
    <3>4. SumFunctionOnSet(add, D) = SumFunctionOnSet(add, {})
      BY <3>2, <3>3, SumSupport
    <3> QED BY <3>1, <3>4, SumNone
  <2> QED BY <1>1, <2>2, <2>3
<1> QED BY <1>6, <1>9, <1>14, <1>15 DEF after

\* A product without an open layer has nothing in layers.
LEMMA NothingLayered ==
  ASSUME NEW st \in Stocks, ~Layered(st), NEW w \in Warehouses
  PROVE  LayerStock(st, w) = 0
<1>1. PICK D : D = 1..Len(st.layers)
  OBVIOUS
<1>2. /\ Len(st.layers) \in Nat /\ DOMAIN st.layers = D
      /\ \A i \in D : /\ Has(st, w)[i] \in Nat /\ Has(st, w)[i] <= st.layers[i].left
                      /\ st.layers[i] \in Layers
      /\ LayerStock(st, w) = SumFunctionOnSet(Has(st, w), D)
  BY <1>1, LayerFacts
<1>3. IsFiniteSet(D)
  BY <1>1, <1>2, Finite
<1>4. \A i \in D : Has(st, w)[i] = 0 /\ Has(st, w)[i] \in Int
  <2> SUFFICES ASSUME NEW i \in D PROVE Has(st, w)[i] = 0
    BY <1>2
  <2>1. ~(st.layers[i].left > 0)
    BY <1>2 DEF Layered
  <2>2. st.layers[i].left \in Nat
    BY <1>2 DEF Layers
  <2> QED BY <1>2, <2>1, <2>2
<1>5. SumFunctionOnSet(Has(st, w), D) = SumFunctionOnSet(Has(st, w), {})
  <2>1. {} \in SUBSET D
    OBVIOUS
  <2> QED BY <1>3, <1>4, <2>1, SumSupport
<1> QED BY <1>2, <1>5, SumNone

\* Rows are worth something.
LEMMA ValueNat ==
  ASSUME NEW rows \in Seq(Parts)
  PROVE  Value(rows) \in Nat
<1> DEFINE D == 1..Len(rows)
           u == [i \in DOMAIN rows |-> rows[i].qty * rows[i].cost]
<1>1. Len(rows) \in Nat /\ DOMAIN rows = D /\ IsFiniteSet(D) /\ \A i \in D : rows[i] \in Parts
  BY Elements
<1>2. \A i \in D : u[i] \in Nat
  <2> SUFFICES ASSUME NEW i \in D PROVE u[i] \in Nat
    OBVIOUS
  <2>1. rows[i].qty \in Nat /\ rows[i].cost \in Nat
    BY <1>1 DEF Parts
  <2>2. u[i] = rows[i].qty * rows[i].cost
    BY <1>1
  <2> QED BY <2>1, <2>2, Products
<1>3. Value(rows) = SumFunctionOnSet(u, D)
  BY <1>1 DEF Value, SumOver
<1> HIDE DEF u, D
<1> QED BY <1>1, <1>2, <1>3, SumNat

\* What was consumed is of what was taken.
LEMMA ConsumptionsAre ==
  ASSUME NEW st \in Stocks, NEW take, \A i \in 1..Len(st.layers) : take[i] \in Nat
  PROVE  /\ Consumptions(st, take) \in Seq(Parts)
         /\ Content(Consumptions(st, take)) = SumFunctionOnSet(take, 1..Len(st.layers))
<1> DEFINE n == Len(st.layers)
           rows == [i \in DOMAIN st.layers |-> [qty |-> take[i], cost |-> st.layers[i].cost]]
<1>1. st.layers \in Seq(Layers)
  BY DEF Stocks
<1>2. /\ n \in Nat /\ DOMAIN st.layers = 1..n /\ \A i \in 1..n : st.layers[i] \in Layers
  BY <1>1, Elements
<1>3. \A i \in 1..n : rows[i] \in Parts /\ rows[i].qty = take[i]
  BY <1>2 DEF Layers, Parts
<1>4. rows \in [1..n -> Parts]
  BY <1>2, <1>3
<1>5. Consumptions(st, take) = Filled(rows)
  BY DEF Consumptions
<1> HIDE DEF rows
<1>6. rows \in Seq(Parts) /\ Len(rows) = n
  <2> HIDE DEF n
  <2> QED BY <1>2, <1>4, FunctionIsSeq
<1>7. Filled(rows) \in Seq(Parts) /\ Weight(Filled(rows), Qty) = Weight(rows, Qty)
  <2>1. Qty \in [Parts -> Int] /\ \A r \in Parts : r.qty > 0 \/ Qty[r] = 0
    BY DEF Qty, Parts
  <2> QED BY <1>6, <2>1, FilledKeeps
<1>8. Content(rows) = SumFunctionOnSet(take, 1..n)
  <2> DEFINE u == [i \in DOMAIN rows |-> rows[i].qty]
  <2>1. DOMAIN rows = 1..n /\ Content(rows) = SumFunctionOnSet(u, 1..n)
    BY <1>6, ContentIs
  <2>2. PICK D : D = 1..n
    OBVIOUS
  <2>3. IsFiniteSet(D)
    BY <1>2, <2>2, Finite
  <2>4. \A i \in D : u[i] = take[i]
    BY <1>3, <2>1, <2>2
  <2> HIDE DEF u
  <2>5. SumFunctionOnSet(u, D) = SumFunctionOnSet(take, D)
    BY <2>3, <2>4, SumSame
  <2> QED BY <2>1, <2>2, <2>5
<1> QED BY <1>5, <1>7, <1>8 DEF Content

\* An issue that can be made takes what is asked from the layers, if there are
\* any, and writes rows of it; it moves no quantity and no other warehouse's
\* layers.
LEMMA IssueIs ==
  ASSUME NEW st \in Stocks, NEW w \in Warehouses, NEW q \in Nat, NEW c \in Nat
  PROVE  LET issue == Issue(st, w, q, c)
         IN /\ issue.stock \in Stocks /\ issue.stock.inv = st.inv
            /\ issue.stock.price = st.price
            /\ issue.value \in Nat /\ issue.rows \in Seq(Parts)
            /\ issue.ok => LayerStock(issue.stock, w)
                             = LayerStock(st, w) - (IF Layered(st) THEN q ELSE 0)
            /\ \A v \in Warehouses : v # w => LayerStock(issue.stock, v) = LayerStock(st, v)
            /\ Layered(issue.stock) => Layered(st)
            /\ Len(issue.stock.layers) = Len(st.layers)
            /\ IF Layered(st) THEN issue.ok => Content(issue.rows) = q
                              ELSE issue.rows = <<>> /\ issue.stock = st
<1> DEFINE take == Take(st, w, q)
           rows == Consumptions(st, take)
           after == Consume(st, take)
           n == Len(st.layers)
           taken == SumFunctionOnSet(take, 1..n)
           issue == Issue(st, w, q, c)
<1>1. /\ \A i \in 1..n : take[i] \in 0..Has(st, w)[i]
      /\ taken = AtMost(q, LayerStock(st, w))
  BY TakeIs
<1>2. \A i \in 1..n : take[i] \in Nat
  BY <1>1
<1>3. LayerStock(st, w) \in Nat
  BY LayerFacts
<1> HIDE DEF take
<1>4. rows \in Seq(Parts) /\ Content(rows) = taken
  BY <1>2, ConsumptionsAre
<1>5. /\ after \in Stocks /\ after.inv = st.inv /\ after.price = st.price
      /\ LayerStock(after, w) = LayerStock(st, w) - taken
      /\ \A v \in Warehouses : v # w => LayerStock(after, v) = LayerStock(st, v)
      /\ Layered(after) => Layered(st)
      /\ Len(after.layers) = n
  BY <1>1, ConsumeIs
<1>6. Value(rows) \in Nat
  <2> HIDE DEF rows
  <2> QED BY <1>4, ValueNat
<1>7. CanConsume(st, w, q) => taken = q
  BY <1>1, <1>3 DEF CanConsume, AtMost
<1>8. issue = IF Layered(st)
              THEN [ok |-> CanConsume(st, w, q), stock |-> after, value |-> Value(rows), rows |-> rows]
              ELSE [ok |-> TRUE, stock |-> st, value |-> q * c, rows |-> <<>>]
  BY DEF Issue, take
<1>9. q * c \in Nat /\ <<>> \in Seq(Parts)
  BY Products
<1> HIDE DEF issue, after, rows, taken
<1>10. Len(issue.stock.layers) = Len(st.layers)
  <2>1. issue.stock = after \/ issue.stock = st
    BY <1>8
  <2>2. Len(after.layers) = n
    BY <1>5
  <2>3. PICK x : x = issue.stock
    OBVIOUS
  <2>4. x = after \/ x = st
    BY <2>1, <2>3
  <2>5. Len(x.layers) = n
    BY <2>2, <2>4
  <2> QED BY <2>3, <2>5
<1>11. CASE Layered(st)
  BY <1>4, <1>5, <1>6, <1>7, <1>8, <1>10, <1>11 DEF issue
<1>12. CASE ~Layered(st)
  <2>1. /\ issue.stock = st /\ issue.value = q * c /\ issue.rows = <<>>
        /\ Layered(issue.stock) => Layered(st)
    BY <1>8, <1>12
  <2>2. LayerStock(st, w) = LayerStock(st, w) - 0
    BY <1>3
  <2> QED BY <1>9, <1>10, <1>12, <2>1, <2>2 DEF issue
<1> QED BY <1>11, <1>12

(***************************************************************************)
(* Lines                                                                   *)
(***************************************************************************)
\* t is st after n pieces left the shelves of `less` for those of `more`, and
\* the transit of `off` for that of `on`; at most one of each.
Amount(n, v, at) == IF v \in at THEN n ELSE 0

\* Layers are made and used up, and stay.
Kept(st, t) == Len(st.layers) <= Len(t.layers)

Shift(st, t, n, less, more, off, on) ==
  /\ Kept(st, t)
  /\ \A v \in Warehouses :
       /\ t.inv[v].qty = st.inv[v].qty - Amount(n, v, less) + Amount(n, v, more)
       /\ t.inv[v].transit = st.inv[v].transit - Amount(n, v, off) + Amount(n, v, on)
       /\ t.inv[v].reserved = st.inv[v].reserved
       /\ t.inv[v].damaged = st.inv[v].damaged

Backed(st)  == \A w \in Warehouses : LayerStock(st, w) <= st.inv[w].qty
Covered(st) == \A w \in Warehouses : st.inv[w].reserved <= st.inv[w].qty

\* The numbers of an inventory row.
LEMMA RowFacts ==
  ASSUME NEW st \in Stocks, NEW w \in Warehouses
  PROVE  /\ st.inv[w] \in Row /\ st.inv[w].qty \in Nat /\ st.inv[w].reserved \in Nat
         /\ st.inv[w].damaged \in Nat /\ st.inv[w].transit \in Nat /\ st.inv[w].avg \in Nat
         /\ st.inv \in [Warehouses -> Row] /\ st.price \in Nat
         /\ st.layers \in Seq(Layers)
  BY DEF Stocks, Row

\* What layers hold is a matter of the layers.
LEMMA SameLayers ==
  ASSUME NEW st \in Stocks, NEW t \in Stocks, t.layers = st.layers
  PROVE  /\ \A v \in Warehouses : LayerStock(t, v) = LayerStock(st, v)
         /\ Layered(t) <=> Layered(st)
<1>1. ASSUME NEW v \in Warehouses PROVE LayerStock(t, v) = LayerStock(st, v)
  <2>1. Has(t, v) = Has(st, v)
    BY DEF Has
  <2> QED BY <2>1, LayerFacts
<1> QED BY <1>1 DEF Layered

\* A stock has kept the layers of the stock before it and of the one before that.
LEMMA KeptFacts ==
  /\ \A st, t \in Stocks : st.layers = t.layers => Kept(st, t)
  /\ \A st, t \in Stocks : Len(t.layers) = Len(st.layers) => Kept(st, t)
  /\ \A st, t, u \in Stocks : Kept(st, t) /\ Kept(t, u) => Kept(st, u)
<1>1. \A st \in Stocks : Len(st.layers) \in Nat
  BY Elements DEF Stocks
<1> QED BY <1>1 DEF Kept

\* New layers come after the ones there are.
LEMMA Created ==
  ASSUME NEW st \in Stocks, NEW w \in Warehouses, NEW rows \in Seq(Parts), NEW x,
         x = CreateLayers(st, w, rows, <<>>)
  PROVE  /\ x \in Stocks /\ x.inv = st.inv /\ Kept(st, x)
         /\ LayerStock(x, w) = LayerStock(st, w) + Content(rows)
         /\ \A v \in Warehouses : v # w => LayerStock(x, v) = LayerStock(st, v)
<1>1. /\ x \in Stocks /\ x.inv = st.inv
      /\ LayerStock(x, w) = LayerStock(st, w) + Content(rows)
      /\ \A v \in Warehouses : v # w => LayerStock(x, v) = LayerStock(st, v)
      /\ Len(x.layers) = Len(st.layers) + Len(rows)
  BY CreateIs
<1>2. Len(st.layers) \in Nat /\ Len(rows) \in Nat
  BY LayerFacts, ContentIs
<1>3. Kept(st, x)
  BY <1>1, <1>2 DEF Kept
<1> QED BY <1>1, <1>3

\* Nothing has moved.
LEMMA ShiftNone ==
  ASSUME NEW st \in Stocks, NEW less, NEW more, NEW off, NEW on
  PROVE  Shift(st, st, 0, less, more, off, on)
<1>0. Kept(st, st)
  BY KeptFacts
<1> SUFFICES ASSUME NEW v \in Warehouses
             PROVE  /\ st.inv[v].qty = st.inv[v].qty - Amount(0, v, less) + Amount(0, v, more)
                    /\ st.inv[v].transit = st.inv[v].transit - Amount(0, v, off) + Amount(0, v, on)
  BY <1>0 DEF Shift
<1>1. st.inv[v].qty \in Nat /\ st.inv[v].transit \in Nat
  BY RowFacts
<1> QED BY <1>1 DEF Amount

\* First n pieces, then m more.
LEMMA ShiftMore ==
  ASSUME NEW st \in Stocks, NEW t \in Stocks, NEW u \in Stocks, NEW n \in Nat, NEW m \in Nat,
         NEW less, NEW more, NEW off, NEW on,
         Shift(st, t, n, less, more, off, on), Shift(t, u, m, less, more, off, on)
  PROVE  Shift(st, u, n + m, less, more, off, on)
<1>0. Kept(st, u)
  BY KeptFacts DEF Shift
<1> SUFFICES ASSUME NEW v \in Warehouses
             PROVE  /\ u.inv[v].qty = st.inv[v].qty - Amount(n + m, v, less) + Amount(n + m, v, more)
                    /\ u.inv[v].transit = st.inv[v].transit - Amount(n + m, v, off) + Amount(n + m, v, on)
                    /\ u.inv[v].reserved = st.inv[v].reserved
                    /\ u.inv[v].damaged = st.inv[v].damaged
  BY <1>0 DEF Shift
<1>1. st.inv[v].qty \in Nat /\ st.inv[v].transit \in Nat
  BY RowFacts
<1>2. \A at : Amount(n + m, v, at) = Amount(n, v, at) + Amount(m, v, at)
  BY DEF Amount
<1>3. \A at, k : k \in Nat => Amount(k, v, at) \in Nat
  BY DEF Amount
<1> QED BY <1>1, <1>2, <1>3 DEF Shift

\* Pieces on one shelf, over all of them.
LEMMA SpotSum ==
  ASSUME NEW n \in Nat, NEW w \in Warehouses
  PROVE  /\ SumFunctionOnSet([v \in Warehouses |-> Amount(n, v, {w})], Warehouses) = n
         /\ SumFunctionOnSet([v \in Warehouses |-> Amount(n, v, {})], Warehouses) = 0
<1> DEFINE a == [v \in Warehouses |-> Amount(n, v, {w})]
           z == [v \in Warehouses |-> Amount(n, v, {})]
<1>1. IsFiniteSet(Warehouses)
  BY StockAssumption
<1>2. /\ \A v \in Warehouses : a[v] \in Int /\ z[v] \in Int /\ z[v] = 0
      /\ a[w] = n
  BY DEF Amount
<1>3. \A v \in Warehouses \ {w} : a[v] = z[v]
  BY DEF Amount
<1> HIDE DEF a, z
<1>4. SumFunctionOnSet(z, Warehouses) = 0
  <2>1. SumFunctionOnSet(z, Warehouses) = SumFunctionOnSet(z, {})
    <3>1. {} \in SUBSET Warehouses
      OBVIOUS
    <3> QED BY <1>1, <1>2, <3>1, SumSupport
  <2> QED BY <2>1, SumNone
<1>5. SumFunctionOnSet(a, Warehouses) = SumFunctionOnSet(z, Warehouses) + a[w] - z[w]
  <2>1. \A v \in Warehouses : z[v] \in Int /\ a[v] \in Int
    BY <1>2
  <2>2. \A v \in Warehouses \ {w} : z[v] = a[v]
    BY <1>3
  <2> QED BY <1>1, <2>1, <2>2, SumMove
<1> QED BY <1>2, <1>4, <1>5 DEF a, z

\* What all shelves and all transits hold, after a shift.
LEMMA ShiftTotals ==
  ASSUME NEW st \in Stocks, NEW t \in Stocks, NEW n \in Nat,
         NEW less, NEW more, NEW off, NEW on, Shift(st, t, n, less, more, off, on)
  PROVE  LET all(at) == SumFunctionOnSet([v \in Warehouses |-> Amount(n, v, at)], Warehouses)
         IN /\ OnHand(st) \in Nat /\ InTransit(st) \in Nat
            /\ OnHand(t) + all(less) = OnHand(st) + all(more)
            /\ InTransit(t) + all(off) = InTransit(st) + all(on)
<1> DEFINE am(at) == [v \in Warehouses |-> Amount(n, v, at)]
           all(at) == SumFunctionOnSet(am(at), Warehouses)
           q(x) == [v \in Warehouses |-> x.inv[v].qty]
           r(x) == [v \in Warehouses |-> x.inv[v].transit]
           mid1 == [v \in Warehouses |-> q(t)[v] + am(less)[v]]
           mid2 == [v \in Warehouses |-> r(t)[v] + am(off)[v]]
<1>1. IsFiniteSet(Warehouses)
  BY StockAssumption
<1>2. \A v \in Warehouses : /\ q(st)[v] \in Nat /\ q(t)[v] \in Nat /\ r(st)[v] \in Nat /\ r(t)[v] \in Nat
  BY RowFacts
<1>3. \A at : \A v \in Warehouses : am(at)[v] \in Nat
  BY DEF Amount
<1>4. \A v \in Warehouses : /\ mid1[v] = q(t)[v] + am(less)[v] /\ mid1[v] = q(st)[v] + am(more)[v]
                            /\ mid2[v] = r(t)[v] + am(off)[v] /\ mid2[v] = r(st)[v] + am(on)[v]
  <2> SUFFICES ASSUME NEW v \in Warehouses
               PROVE  /\ mid1[v] = q(t)[v] + am(less)[v] /\ mid1[v] = q(st)[v] + am(more)[v]
                      /\ mid2[v] = r(t)[v] + am(off)[v] /\ mid2[v] = r(st)[v] + am(on)[v]
    OBVIOUS
  <2>1. /\ am(less)[v] \in Nat /\ am(more)[v] \in Nat /\ am(off)[v] \in Nat /\ am(on)[v] \in Nat
        /\ q(st)[v] \in Nat /\ r(st)[v] \in Nat
    BY <1>2, <1>3
  <2>2. /\ q(t)[v] = q(st)[v] - am(less)[v] + am(more)[v]
        /\ r(t)[v] = r(st)[v] - am(off)[v] + am(on)[v]
    BY DEF Shift
  <2> HIDE DEF q, r, am
  <2> QED BY <2>1, <2>2
<1>5. /\ OnHand(st) = SumFunctionOnSet(q(st), Warehouses) /\ OnHand(t) = SumFunctionOnSet(q(t), Warehouses)
      /\ InTransit(st) = SumFunctionOnSet(r(st), Warehouses)
      /\ InTransit(t) = SumFunctionOnSet(r(t), Warehouses)
  BY DEF OnHand, InTransit, SumOver
<1> HIDE DEF q, r, am, mid1, mid2
<1>6. SumFunctionOnSet(mid1, Warehouses) = SumFunctionOnSet(q(t), Warehouses) + all(less)
  BY <1>1, <1>2, <1>3, <1>4, SumPlus
<1>7. SumFunctionOnSet(mid1, Warehouses) = SumFunctionOnSet(q(st), Warehouses) + all(more)
  BY <1>1, <1>2, <1>3, <1>4, SumPlus
<1>8. SumFunctionOnSet(mid2, Warehouses) = SumFunctionOnSet(r(t), Warehouses) + all(off)
  BY <1>1, <1>2, <1>3, <1>4, SumPlus
<1>9. SumFunctionOnSet(mid2, Warehouses) = SumFunctionOnSet(r(st), Warehouses) + all(on)
  BY <1>1, <1>2, <1>3, <1>4, SumPlus
<1>10. SumFunctionOnSet(q(st), Warehouses) \in Nat /\ SumFunctionOnSet(r(st), Warehouses) \in Nat
  BY <1>1, <1>2, SumNat
<1> QED BY <1>5, <1>6, <1>7, <1>8, <1>9, <1>10 DEF am

SendAcc == [ok : BOOLEAN, stock : Stocks, value : Nat, rows : Seq(Parts)]
MoveAcc == [ok : BOOLEAN, stock : Stocks, value : Nat]

\* Rows after rows are of what both are of.
LEMMA ContentConcat ==
  ASSUME NEW r \in Seq(Parts), NEW s \in Seq(Parts)
  PROVE  r \o s \in Seq(Parts) /\ Content(r \o s) = Content(r) + Content(s)
<1> DEFINE n == Len(r)
           m == Len(s)
           c == r \o s
           u == [i \in DOMAIN c |-> c[i].qty]
           v == [i \in DOMAIN r |-> r[i].qty]
           z == [i \in DOMAIN s |-> s[i].qty]
<1>1. /\ n \in Nat /\ DOMAIN r = 1..n /\ \A i \in 1..n : r[i] \in Parts
      /\ Content(r) = SumFunctionOnSet(v, 1..n)
  BY ContentIs
<1>2. /\ m \in Nat /\ DOMAIN s = 1..m /\ \A i \in 1..m : s[i] \in Parts
      /\ Content(s) = SumFunctionOnSet(z, 1..m)
  BY ContentIs
<1>3. c \in Seq(Parts) /\ Len(c) = n + m
  BY ConcatProperties
<1>4. \A i \in 1..(n + m) : c[i] = IF i <= n THEN r[i] ELSE s[i - n]
  BY ConcatProperties
<1> HIDE DEF c, n, m
<1>5. /\ DOMAIN c = 1..(n + m) /\ \A i \in 1..(n + m) : c[i] \in Parts
      /\ Content(c) = SumFunctionOnSet(u, 1..(n + m))
  BY <1>3, ContentIs
<1>6. \A i \in 1..(n + m) : u[i] \in Int
  BY <1>5 DEF Parts
<1>7. \A i \in 1..n : u[i] = v[i]
  BY <1>1, <1>2, <1>4, <1>5
<1>8. \A i \in 1..m : z[i] = u[n + i]
  <2> SUFFICES ASSUME NEW i \in 1..m PROVE z[i] = u[n + i]
    OBVIOUS
  <2>1. n + i \in 1..(n + m) /\ ~(n + i <= n) /\ (n + i) - n = i
    BY <1>1, <1>2
  <2>2. c[n + i] = s[i]
    BY <1>4, <2>1
  <2> QED BY <1>2, <1>5, <2>1, <2>2
<1> HIDE DEF u, v, z
<1>9. SumFunctionOnSet(u, 1..(n + m)) = SumFunctionOnSet(u, 1..n) + SumFunctionOnSet(z, 1..m)
  <2>1. n \in Nat /\ m \in Nat
    BY <1>1, <1>2
  <2> QED BY <1>6, <1>8, <2>1, SumAfter
<1>10. SumFunctionOnSet(u, 1..n) = SumFunctionOnSet(v, 1..n)
  <2>1. PICK D : D = 1..n
    OBVIOUS
  <2>2. IsFiniteSet(D) /\ \A i \in D : u[i] = v[i]
    BY <1>1, <1>7, <2>1, Finite
  <2>3. SumFunctionOnSet(u, D) = SumFunctionOnSet(v, D)
    BY <2>2, SumSame
  <2> QED BY <2>1, <2>3
<1> QED BY <1>1, <1>2, <1>3, <1>5, <1>9, <1>10 DEF c

\* A line of a dispatch.
LEMMA SendLineIs ==
  ASSUME NEW src \in Warehouses, NEW acc \in SendAcc, NEW q \in Nat \ {0}
  PROVE  LET new == SendLine(src, acc, q)
         IN /\ new \in SendAcc
            /\ new.ok => /\ acc.ok
                         /\ Shift(acc.stock, new.stock, q, {src}, {}, {}, {src})
                         /\ Covered(acc.stock) => Covered(new.stock)
                         /\ Backed(acc.stock) => Backed(new.stock)
                         /\ Content(new.rows) <= Content(acc.rows) + q
<1> DEFINE st == acc.stock
           cost == CogsCost(st, src)
           issue == Issue(st, src, q, cost)
           t == issue.stock
           moved == [t EXCEPT !.inv[src].qty = @ - q, !.inv[src].transit = @ + q]
           done == [ok |-> TRUE, stock |-> moved, value |-> acc.value + issue.value,
                    rows |-> acc.rows \o issue.rows]
           good == acc.ok /\ Free(st.inv[src]) >= q /\ issue.ok
           new == SendLine(src, acc, q)
<1>1. st \in Stocks /\ acc.value \in Nat /\ acc.rows \in Seq(Parts) /\ q \in Nat
  BY DEF SendAcc
<1>2. /\ \A v \in Warehouses : /\ st.inv[v] \in Row /\ st.inv[v].qty \in Nat
                               /\ st.inv[v].transit \in Nat /\ st.inv[v].reserved \in Nat
                               /\ LayerStock(st, v) \in Nat
      /\ st.inv \in [Warehouses -> Row] /\ st.price \in Nat /\ st.inv[src].avg \in Nat
  BY <1>1, RowFacts, LayerFacts
<1>3. cost \in Nat
  BY <1>2 DEF CogsCost
<1> HIDE DEF cost
<1>4. /\ t \in Stocks /\ t.inv = st.inv /\ t.price = st.price
      /\ issue.value \in Nat /\ issue.rows \in Seq(Parts)
      /\ issue.ok => LayerStock(t, src) = LayerStock(st, src) - (IF Layered(st) THEN q ELSE 0)
      /\ \A v \in Warehouses : v # src => LayerStock(t, v) = LayerStock(st, v)
      /\ IF Layered(st) THEN issue.ok => Content(issue.rows) = q ELSE issue.rows = <<>>
      /\ Len(t.layers) = Len(st.layers)
  BY <1>1, <1>3, IssueIs
<1>5. new = IF good THEN done ELSE [acc EXCEPT !.ok = FALSE]
  <2>1. Free(st.inv[src]) < q <=> ~(Free(st.inv[src]) >= q)
    BY <1>1, <1>2 DEF Free
  <2> QED BY <2>1 DEF SendLine, cost
<1> HIDE DEF new
<1>6. CASE ~good
  <2>1. [acc EXCEPT !.ok = FALSE] \in SendAcc /\ [acc EXCEPT !.ok = FALSE].ok = FALSE
    BY DEF SendAcc
  <2> HIDE DEF good, done
  <2> QED BY <1>5, <1>6, <2>1 DEF new
<1>7. CASE good
  <2>1. st.inv[src].qty - st.inv[src].reserved >= q
    BY <1>7 DEF Free
  <2> HIDE DEF issue
  <2>2. /\ moved \in Stocks /\ moved.layers = t.layers
        /\ \A v \in Warehouses :
             /\ moved.inv[v].qty = IF v = src THEN st.inv[v].qty - q ELSE st.inv[v].qty
             /\ moved.inv[v].transit = IF v = src THEN st.inv[v].transit + q ELSE st.inv[v].transit
             /\ moved.inv[v].reserved = st.inv[v].reserved
             /\ moved.inv[v].damaged = st.inv[v].damaged
    <3>1. PICK u : u = t
      OBVIOUS
    <3>2. u \in Stocks /\ u.inv = st.inv /\ moved = [u EXCEPT !.inv[src].qty = @ - q, !.inv[src].transit = @ + q]
      BY <1>4, <3>1
    <3>3. st.inv[src].qty - q \in Nat /\ st.inv[src].transit + q \in Nat
      <4>1. PICK a, b, r : a = st.inv[src].qty /\ b = st.inv[src].transit /\ r = st.inv[src].reserved
        OBVIOUS
      <4>2. a \in Nat /\ b \in Nat /\ r \in Nat /\ a - r >= q
        BY <1>2, <2>1, <4>1
      <4>3. a - q \in Nat /\ b + q \in Nat
        BY <1>1, <4>2
      <4> QED BY <4>1, <4>3
    <3>4. PICK inv : inv = [st.inv EXCEPT ![src].qty = @ - q, ![src].transit = @ + q]
      OBVIOUS
    <3>5. inv \in [Warehouses -> Row]
      BY <1>2, <3>3, <3>4 DEF Row
    <3>6. \A v \in Warehouses :
            /\ inv[v].qty = IF v = src THEN st.inv[v].qty - q ELSE st.inv[v].qty
            /\ inv[v].transit = IF v = src THEN st.inv[v].transit + q ELSE st.inv[v].transit
            /\ inv[v].reserved = st.inv[v].reserved
            /\ inv[v].damaged = st.inv[v].damaged
      BY <1>2, <3>4 DEF Row
    <3> HIDE DEF moved
    <3>7. moved \in Stocks /\ moved.layers = u.layers /\ moved.inv = inv
      BY <3>2, <3>4, <3>5 DEF Stocks
    <3> QED BY <3>1, <3>6, <3>7
  <2>3. Shift(st, moved, q, {src}, {}, {}, {src})
    <3>0. Kept(st, moved)
      <4> HIDE DEF moved
      <4> QED BY <1>1, <1>4, <2>2, KeptFacts, SMTT(30)
    <3> SUFFICES ASSUME NEW v \in Warehouses
                 PROVE  /\ moved.inv[v].qty = st.inv[v].qty - Amount(q, v, {src}) + Amount(q, v, {})
                        /\ moved.inv[v].transit
                             = st.inv[v].transit - Amount(q, v, {}) + Amount(q, v, {src})
      BY <2>2, <3>0 DEF Shift
    <3>1. st.inv[v].qty \in Nat /\ st.inv[v].transit \in Nat
      BY <1>2
    <3> HIDE DEF moved
    <3> QED BY <1>1, <2>2, <3>1 DEF Amount
  <2>4. Covered(st) => Covered(moved)
    <3> SUFFICES ASSUME Covered(st), NEW v \in Warehouses
                 PROVE  moved.inv[v].reserved <= moved.inv[v].qty
      BY DEF Covered
    <3>1. st.inv[v].qty \in Nat /\ st.inv[v].reserved \in Nat
      BY <1>2
    <3> HIDE DEF moved
    <3>2. st.inv[v].reserved <= st.inv[v].qty
      BY DEF Covered
    <3>3. CASE v = src
      <4>1. moved.inv[v].qty = st.inv[v].qty - q /\ moved.inv[v].reserved = st.inv[v].reserved
        BY <2>2, <3>3
      <4> QED BY <1>1, <2>1, <3>1, <3>3, <4>1
    <3>4. CASE v # src
      BY <2>2, <3>2, <3>4
    <3> QED BY <3>3, <3>4
  <2>5. \A v \in Warehouses : LayerStock(moved, v) = LayerStock(t, v)
    <3> HIDE DEF moved
    <3> QED BY <1>4, <2>2, SameLayers
  <2>6. Backed(st) => Backed(moved)
    <3> HIDE DEF moved
    <3>1. SUFFICES ASSUME Backed(st), NEW v \in Warehouses
                   PROVE  LayerStock(moved, v) <= moved.inv[v].qty
      BY DEF Backed
    <3>2. CASE v # src
      BY <1>4, <2>2, <2>5, <3>1, <3>2 DEF Backed
    <3>3. CASE v = src /\ Layered(st)
      <4>1. LayerStock(moved, v) = LayerStock(st, v) - q
        BY <1>4, <1>7, <2>5, <3>3
      <4>2. LayerStock(st, v) <= st.inv[v].qty
        BY <3>1 DEF Backed
      <4> QED BY <1>1, <1>2, <2>2, <3>3, <4>1, <4>2
    <3>4. CASE v = src /\ ~Layered(st)
      <4>1. LayerStock(st, v) = 0
        BY <1>1, <3>4, NothingLayered
      <4>2. LayerStock(moved, v) = 0
        BY <1>4, <1>7, <2>5, <3>4, <4>1
      <4> QED BY <1>1, <1>2, <2>1, <2>2, <3>4, <4>2
    <3> QED BY <3>2, <3>3, <3>4
  <2>7. acc.rows \o issue.rows \in Seq(Parts)
        /\ Content(acc.rows \o issue.rows) <= Content(acc.rows) + q
    <3>1. acc.rows \o issue.rows \in Seq(Parts)
          /\ Content(acc.rows \o issue.rows) = Content(acc.rows) + Content(issue.rows)
      BY <1>1, <1>4, ContentConcat
    <3>2. Content(acc.rows) \in Nat
      BY <1>1, ContentIs
    <3>3. Content(issue.rows) = q \/ Content(issue.rows) = 0
      BY <1>4, <1>7, WeightNone DEF Content
    <3> QED BY <1>1, <3>1, <3>2, <3>3
  <2> HIDE DEF moved, good
  <2>8. acc.value + issue.value \in Nat
    BY <1>1, <1>4
  <2>9. done \in SendAcc /\ done.ok = TRUE /\ done.stock = moved /\ done.rows = acc.rows \o issue.rows
    BY <2>2, <2>7, <2>8 DEF SendAcc
  <2> HIDE DEF done
  <2>10. new = done /\ acc.ok
    BY <1>5, <1>7 DEF good
  <2> QED BY <2>3, <2>4, <2>6, <2>7, <2>9, <2>10 DEF new
<1> QED BY <1>6, <1>7

\* A line of a transfer.
LEMMA MoveLineIs ==
  ASSUME NEW f, f.src \in Warehouses, f.dst \in Warehouses, f.src # f.dst,
         NEW acc \in MoveAcc, NEW q \in Nat \ {0}
  PROVE  LET new == MoveLine(f, acc, q)
         IN /\ new \in MoveAcc
            /\ new.ok => /\ acc.ok
                         /\ Shift(acc.stock, new.stock, q, {f.src}, {f.dst}, {}, {})
                         /\ Covered(acc.stock) => Covered(new.stock)
                         /\ Backed(acc.stock) => Backed(new.stock)
<1> DEFINE st == acc.stock
           src == f.src
           dst == f.dst
           own == st.inv[src].avg
           issue == Issue(st, src, q, own)
           t == issue.stock
           cost == IF Layered(st) THEN HalfUp(issue.value, q) ELSE own
           after == IF Layered(t) THEN CreateLayers(t, dst, issue.rows, <<>>) ELSE t
           avg == NewCost(st.inv[dst].qty, st.inv[dst].avg, q, cost, 1)
           moved == [after EXCEPT !.inv[src].qty = @ - q, !.inv[dst].qty = @ + q,
                                  !.inv[dst].avg = avg]
           done == [ok |-> TRUE, value |-> acc.value + issue.value, stock |-> moved]
           good == acc.ok /\ Available(st.inv[src]) >= q /\ issue.ok
           new == MoveLine(f, acc, q)
<1>1. st \in Stocks /\ acc.value \in Nat /\ q \in Nat /\ q > 0
  BY DEF MoveAcc
<1>2. /\ \A v \in Warehouses : /\ st.inv[v] \in Row /\ st.inv[v].qty \in Nat
                               /\ st.inv[v].transit \in Nat /\ st.inv[v].reserved \in Nat
                               /\ st.inv[v].damaged \in Nat /\ st.inv[v].avg \in Nat
                               /\ LayerStock(st, v) \in Nat
      /\ st.inv \in [Warehouses -> Row] /\ st.price \in Nat
  BY <1>1, RowFacts, LayerFacts
<1>3. own \in Nat
  BY <1>2
<1>4. /\ t \in Stocks /\ t.inv = st.inv /\ t.price = st.price
      /\ issue.value \in Nat /\ issue.rows \in Seq(Parts)
      /\ issue.ok => LayerStock(t, src) = LayerStock(st, src) - (IF Layered(st) THEN q ELSE 0)
      /\ \A v \in Warehouses : v # src => LayerStock(t, v) = LayerStock(st, v)
      /\ Layered(t) => Layered(st)
      /\ Len(t.layers) = Len(st.layers)
      /\ IF Layered(st) THEN issue.ok => Content(issue.rows) = q
                        ELSE issue.rows = <<>> /\ t = st
  <2> HIDE DEF own
  <2> QED BY <1>1, <1>3, IssueIs, SMTT(30)
<1>5. new = IF good THEN done ELSE [acc EXCEPT !.ok = FALSE]
  <2>1. Available(st.inv[src]) < q <=> ~(Available(st.inv[src]) >= q)
    <3>1. Available(st.inv[src]) \in Int
      <4>1. PICK a, b, c : a = st.inv[src].qty /\ b = st.inv[src].reserved /\ c = st.inv[src].damaged
        OBVIOUS
      <4>2. a \in Nat /\ b \in Nat /\ c \in Nat
        BY <1>2, <4>1
      <4>3. Available(st.inv[src]) = AtLeast(a - b - c, 0)
        BY <4>1 DEF Available
      <4> QED BY <4>2, <4>3 DEF AtLeast
    <3> QED BY <1>1, <3>1
  <2> QED BY <2>1 DEF MoveLine
<1> HIDE DEF new
<1>6. CASE ~good
  <2>1. [acc EXCEPT !.ok = FALSE] \in MoveAcc /\ [acc EXCEPT !.ok = FALSE].ok = FALSE
    BY DEF MoveAcc
  <2> HIDE DEF good, done
  <2> QED BY <1>5, <1>6, <2>1 DEF new
<1>7. CASE good
  <2>1. st.inv[src].qty - st.inv[src].reserved >= q
    <3>1. PICK a, b, c : a = st.inv[src].qty /\ b = st.inv[src].reserved /\ c = st.inv[src].damaged
      OBVIOUS
    <3>2. a \in Nat /\ b \in Nat /\ c \in Nat
      BY <1>2, <3>1
    <3>3. AtLeast(a - b - c, 0) >= q
      BY <1>7, <3>1 DEF Available
    <3>4. a - b >= q
      BY <1>1, <3>2, <3>3 DEF AtLeast
    <3> QED BY <3>1, <3>4
  <2> HIDE DEF issue
  <2>2. cost \in Nat
    BY <1>1, <1>3, <1>4, HalfUpNat
  <2>3. avg \in Nat
    <3> HIDE DEF cost
    <3>1. st.inv[dst].qty \in Nat /\ st.inv[dst].avg \in Nat /\ 1 \in Nat \ {0}
      BY <1>2
    <3> QED BY <2>2, <3>1, NewCostNat
  <2> HIDE DEF avg, cost
  <2>4. /\ after \in Stocks /\ after.inv = st.inv /\ Kept(st, after)
        /\ LayerStock(after, src) = LayerStock(t, src)
        /\ LayerStock(after, dst) = LayerStock(t, dst)
                                      + (IF Layered(t) THEN Content(issue.rows) ELSE 0)
        /\ \A v \in Warehouses : v # dst => LayerStock(after, v) = LayerStock(t, v)
    <3>1. CASE Layered(t)
      <4>1. PICK x, rows : x = after /\ rows = issue.rows
        OBVIOUS
      <4>2. x = CreateLayers(t, dst, rows, <<>>) /\ rows \in Seq(Parts)
        BY <1>4, <3>1, <4>1
      <4> HIDE DEF after
      <4>3. /\ x \in Stocks /\ x.inv = t.inv /\ Kept(t, x)
            /\ LayerStock(x, dst) = LayerStock(t, dst) + Content(rows)
            /\ \A v \in Warehouses : v # dst => LayerStock(x, v) = LayerStock(t, v)
        BY <1>4, <4>2, Created
      <4>4. Kept(st, x)
        <5>1. Kept(st, t)
          BY <1>1, <1>4, KeptFacts
        <5> QED BY <1>1, <1>4, <4>3, <5>1, KeptFacts
      <4> QED BY <1>4, <3>1, <4>1, <4>3, <4>4
    <3>2. CASE ~Layered(t)
      <4>1. LayerStock(t, dst) \in Nat
        BY <1>4, LayerFacts
      <4>2. Kept(st, t)
        BY <1>1, <1>4, KeptFacts
      <4>3. after = t
        BY <3>2
      <4> HIDE DEF after
      <4> QED BY <1>4, <3>2, <4>1, <4>2, <4>3
    <3> QED BY <3>1, <3>2
  <2> HIDE DEF after
  <2>5. /\ moved \in Stocks /\ moved.layers = after.layers
        /\ \A v \in Warehouses :
             /\ moved.inv[v].qty = IF v = src THEN st.inv[v].qty - q
                                   ELSE IF v = dst THEN st.inv[v].qty + q ELSE st.inv[v].qty
             /\ moved.inv[v].transit = st.inv[v].transit
             /\ moved.inv[v].reserved = st.inv[v].reserved
             /\ moved.inv[v].damaged = st.inv[v].damaged
    <3>1. PICK u : u = after
      OBVIOUS
    <3>2. u \in Stocks /\ u.inv = st.inv
          /\ moved = [u EXCEPT !.inv[src].qty = @ - q, !.inv[dst].qty = @ + q,
                               !.inv[dst].avg = avg]
      BY <2>4, <3>1
    <3>3. st.inv[src].qty - q \in Nat /\ st.inv[dst].qty + q \in Nat
      <4>1. PICK a, b, r : a = st.inv[src].qty /\ b = st.inv[dst].qty /\ r = st.inv[src].reserved
        OBVIOUS
      <4>2. a \in Nat /\ b \in Nat /\ r \in Nat /\ a - r >= q
        BY <1>2, <2>1, <4>1
      <4>3. a - q \in Nat /\ b + q \in Nat
        BY <1>1, <4>2, SMTT(30)
      <4> QED BY <4>1, <4>3
    <3>4. PICK inv : inv = [st.inv EXCEPT ![src].qty = @ - q, ![dst].qty = @ + q, ![dst].avg = avg]
      OBVIOUS
    <3>5. inv \in [Warehouses -> Row]
      <4>1. PICK a, b : a = st.inv[src].qty - q /\ b = st.inv[dst].qty + q
        OBVIOUS
      <4>2. a \in Nat /\ b \in Nat
        BY <3>3, <4>1
      <4>3. PICK half : half = [st.inv EXCEPT ![src].qty = a]
        OBVIOUS
      <4>4. half \in [Warehouses -> Row] /\ half[dst] = st.inv[dst]
        BY <1>2, <4>2, <4>3, SMTT(30) DEF Row
      <4>5. inv = [half EXCEPT ![dst] = [@ EXCEPT !.qty = b, !.avg = avg]]
        BY <1>2, <3>4, <4>1, <4>3, <4>4
      <4> QED BY <2>3, <4>2, <4>4, <4>5 DEF Row
    <3>6. \A v \in Warehouses :
            /\ inv[v].qty = IF v = src THEN st.inv[v].qty - q
                            ELSE IF v = dst THEN st.inv[v].qty + q ELSE st.inv[v].qty
            /\ inv[v].transit = st.inv[v].transit
            /\ inv[v].reserved = st.inv[v].reserved
            /\ inv[v].damaged = st.inv[v].damaged
      BY <1>2, <3>4 DEF Row
    <3> HIDE DEF moved
    <3>7. moved \in Stocks /\ moved.layers = u.layers /\ moved.inv = inv
      BY <3>2, <3>4, <3>5 DEF Stocks
    <3> QED BY <3>1, <3>6, <3>7
  <2>6. Shift(st, moved, q, {src}, {dst}, {}, {})
    <3>0. Kept(st, moved)
      <4> HIDE DEF moved
      <4>1. Kept(after, moved)
        BY <2>4, <2>5, KeptFacts, SMTT(30)
      <4> QED BY <1>1, <2>4, <2>5, <4>1, KeptFacts
    <3> SUFFICES ASSUME NEW v \in Warehouses
                 PROVE  /\ moved.inv[v].qty = st.inv[v].qty - Amount(q, v, {src}) + Amount(q, v, {dst})
                        /\ moved.inv[v].transit
                             = st.inv[v].transit - Amount(q, v, {}) + Amount(q, v, {})
      BY <2>5, <3>0 DEF Shift
    <3>1. st.inv[v].qty \in Nat /\ st.inv[v].transit \in Nat
      BY <1>2
    <3> HIDE DEF moved
    <3> QED BY <1>1, <2>5, <3>1 DEF Amount
  <2>7. Covered(st) => Covered(moved)
    <3> SUFFICES ASSUME Covered(st), NEW v \in Warehouses
                 PROVE  moved.inv[v].reserved <= moved.inv[v].qty
      BY DEF Covered
    <3>1. st.inv[v].qty \in Nat /\ st.inv[v].reserved \in Nat
      BY <1>2
    <3> HIDE DEF moved
    <3>2. st.inv[v].reserved <= st.inv[v].qty
      BY DEF Covered
    <3>3. CASE v = src
      <4>1. moved.inv[v].qty = st.inv[v].qty - q /\ moved.inv[v].reserved = st.inv[v].reserved
        BY <2>5, <3>3
      <4> QED BY <1>1, <2>1, <3>1, <3>3, <4>1
    <3>4. CASE v = dst
      <4>1. moved.inv[v].qty = st.inv[v].qty + q /\ moved.inv[v].reserved = st.inv[v].reserved
        BY <2>5, <3>4
      <4> QED BY <1>1, <3>1, <3>2, <4>1
    <3>5. CASE v # src /\ v # dst
      BY <2>5, <3>2, <3>5
    <3> QED BY <3>3, <3>4, <3>5
  <2>8. \A v \in Warehouses : LayerStock(moved, v) = LayerStock(after, v)
    <3> HIDE DEF moved
    <3> QED BY <2>4, <2>5, SameLayers
  <2>9. Backed(st) => Backed(moved)
    <3> HIDE DEF moved
    <3> SUFFICES ASSUME Backed(st), NEW v \in Warehouses
                 PROVE  LayerStock(moved, v) <= moved.inv[v].qty
      BY DEF Backed
    <3>1. LayerStock(st, v) <= st.inv[v].qty /\ LayerStock(st, v) \in Nat /\ st.inv[v].qty \in Nat
      BY <1>2 DEF Backed
    <3>2. CASE v # src /\ v # dst
      <4>1. LayerStock(moved, v) = LayerStock(st, v) /\ moved.inv[v].qty = st.inv[v].qty
        BY <1>4, <2>4, <2>5, <2>8, <3>2
      <4> QED BY <3>1, <4>1
    <3>3. CASE v = dst
      <4>1. moved.inv[v].qty = st.inv[v].qty + q /\ LayerStock(t, v) = LayerStock(st, v)
        BY <1>4, <2>5, <3>3
      <4>2. LayerStock(moved, v) = LayerStock(st, v) + (IF Layered(t) THEN Content(issue.rows) ELSE 0)
        BY <2>4, <2>8, <3>3, <4>1
      <4>3. Layered(t) => Content(issue.rows) = q
        BY <1>4, <1>7
      <4> QED BY <1>1, <3>1, <4>1, <4>2, <4>3
    <3>4. CASE v = src
      <4>1. moved.inv[v].qty = st.inv[v].qty - q /\ LayerStock(moved, v) = LayerStock(t, v)
        BY <2>4, <2>5, <2>8, <3>4
      <4>2. CASE Layered(st)
        <5>1. LayerStock(t, v) = LayerStock(st, v) - q
          BY <1>4, <1>7, <3>4, <4>2
        <5> QED BY <1>1, <3>1, <4>1, <5>1
      <4>3. CASE ~Layered(st)
        <5>1. LayerStock(st, v) = 0
          BY <1>1, <4>3, NothingLayered
        <5>2. LayerStock(t, v) = 0
          BY <1>4, <4>3, <5>1
        <5>3. st.inv[src].qty \in Nat /\ st.inv[src].reserved \in Nat
          BY <1>2
        <5> QED BY <1>1, <2>1, <3>4, <4>1, <5>2, <5>3
      <4> QED BY <4>2, <4>3
    <3> QED BY <3>2, <3>3, <3>4
  <2> HIDE DEF moved, good
  <2>10. acc.value + issue.value \in Nat
    BY <1>1, <1>4
  <2>11. done \in MoveAcc /\ done.ok = TRUE /\ done.stock = moved
    BY <2>5, <2>10 DEF MoveAcc
  <2> HIDE DEF done
  <2>12. new = done /\ acc.ok
    BY <1>5, <1>7 DEF good
  <2> QED BY <2>6, <2>7, <2>9, <2>11, <2>12 DEF new
<1> QED BY <1>6, <1>7

\* A shipment on its way: what it takes along, and from where to where.
OnItsWay(row) ==
  /\ row.form.src \in Warehouses /\ row.form.dst \in Warehouses /\ row.form.src # row.form.dst
  /\ row.value \in Nat /\ row.rows \in Seq(Parts)

TakesIn(row, acc, q, new) ==
  /\ new \in MoveAcc
  /\ new.ok => /\ acc.ok
               /\ Shift(acc.stock, new.stock, q, {}, {row.form.dst}, {row.form.src}, {})
               /\ Covered(acc.stock) => Covered(new.stock)
               /\ Backed(acc.stock) /\ Content(row.rows) <= q => Backed(new.stock)
               /\ acc.value = 0 => new.value = row.value

\* A line of a confirmation, of a shipment that moved something.
LEMMA ReceiveLineIs ==
  ASSUME NEW s, NEW row, row = ship[s], OnItsWay(row), row.moved \in Nat \ {0},
         NEW acc \in MoveAcc, NEW q \in Nat \ {0}
  PROVE  TakesIn(row, acc, q, ReceiveLine(s, acc, q))
<1> SUFFICES ASSUME row.form.src \in Warehouses, row.form.dst \in Warehouses,
                    row.form.src # row.form.dst, row.value \in Nat, row.rows \in Seq(Parts)
             PROVE  TakesIn(row, acc, q, ReceiveLine(s, acc, q))
  BY DEF OnItsWay
<1> DEFINE st == acc.stock
           src == row.form.src
           dst == row.form.dst
           value == row.value
           moved == row.moved
           rows == IF row.rows # <<>> THEN row.rows
                   ELSE <<[qty |-> q, cost |-> HalfUp(value, moved)]>>
           layered == IF Layered(st) THEN CreateLayers(st, dst, rows, <<>>) ELSE st
           costed == UpdateCost(layered, dst, q, value, moved)
           after == [costed EXCEPT !.inv[src].transit = @ - q, !.inv[dst].qty = @ + q]
           done == [ok |-> TRUE, stock |-> after, value |-> acc.value + value]
           good == acc.ok /\ st.inv[src].transit >= q
           new == ReceiveLine(s, acc, q)
<1>1. st \in Stocks /\ acc.value \in Nat /\ q \in Nat /\ q > 0
  BY DEF MoveAcc
<1>2. \A v \in Warehouses : /\ st.inv[v].qty \in Nat /\ st.inv[v].transit \in Nat
                            /\ st.inv[v].reserved \in Nat /\ LayerStock(st, v) \in Nat
  BY <1>1, RowFacts, LayerFacts, SMTT(30)
<1>3. new = IF good THEN done ELSE [acc EXCEPT !.ok = FALSE]
  <2>1. st.inv[src].transit < q <=> ~(st.inv[src].transit >= q)
    <3>1. PICK a : a = st.inv[src].transit
      OBVIOUS
    <3>2. a \in Nat
      BY <1>2, <3>1
    <3>3. a < q <=> ~(a >= q)
      BY <1>1, <3>2
    <3> QED BY <3>1, <3>3
  <2> QED BY <2>1, ZenonT(40) DEF ReceiveLine
<1> HIDE DEF new
<1>4. CASE ~good
  <2>1. [acc EXCEPT !.ok = FALSE] \in MoveAcc /\ [acc EXCEPT !.ok = FALSE].ok = FALSE
    BY DEF MoveAcc
  <2> HIDE DEF good, done
  <2> QED BY <1>3, <1>4, <2>1 DEF new, TakesIn
<1>5. CASE good
  <2>1. /\ rows \in Seq(Parts)
        /\ Content(row.rows) <= q => Content(rows) <= q
    <3>1. CASE row.rows # <<>>
      BY <3>1
    <3>2. CASE row.rows = <<>>
      <4> DEFINE one == [qty |-> q, cost |-> HalfUp(value, moved)]
      <4>1. HalfUp(value, moved) \in Nat
        BY HalfUpNat
      <4>2. one \in Parts
        BY <1>1, <4>1 DEF Parts
      <4>3. /\ <<>> \in Seq(Parts) /\ Qty \in [Parts -> Int] /\ Qty[one] = q
        BY <4>2 DEF Qty, Parts
      <4> HIDE DEF one
      <4>4. /\ Append(<<>>, one) \in Seq(Parts)
            /\ Weight(Append(<<>>, one), Qty) = Weight(<<>>, Qty) + Qty[one]
        <5>1. PICK none : none = <<>>
          OBVIOUS
        <5>2. none \in Seq(Parts) /\ Qty \in [Parts -> Int]
          BY <4>3, <5>1
        <5>3. Append(none, one) \in Seq(Parts)
          BY <4>2, <5>2, Appended
        <5>4. Weight(Append(none, one), Qty) = Weight(none, Qty) + Qty[one]
          BY <4>2, <5>2, WeightAppended
        <5> QED BY <5>1, <5>3, <5>4
      <4>5. Content(Append(<<>>, one)) = q
        BY <1>1, <4>3, <4>4, WeightNone DEF Content
      <4>6. Append(<<>>, one) = <<one>>
        BY <4>2
      <4>7. rows = <<one>>
        BY <3>2 DEF one
      <4> HIDE DEF rows
      <4> QED BY <1>1, <4>4, <4>5, <4>6, <4>7
    <3> QED BY <3>1, <3>2
  <2> HIDE DEF rows
  <2>2. /\ layered \in Stocks /\ layered.inv = st.inv /\ Kept(st, layered)
        /\ LayerStock(layered, dst) = LayerStock(st, dst) + (IF Layered(st) THEN Content(rows) ELSE 0)
        /\ \A v \in Warehouses : v # dst => LayerStock(layered, v) = LayerStock(st, v)
    <3>1. CASE Layered(st)
      <4>1. PICK x, r : x = layered /\ r = rows
        OBVIOUS
      <4>2. x = CreateLayers(st, dst, r, <<>>) /\ r \in Seq(Parts)
        BY <2>1, <3>1, <4>1
      <4> HIDE DEF layered
      <4>3. /\ x \in Stocks /\ x.inv = st.inv /\ Kept(st, x)
            /\ LayerStock(x, dst) = LayerStock(st, dst) + Content(r)
            /\ \A v \in Warehouses : v # dst => LayerStock(x, v) = LayerStock(st, v)
        BY <1>1, <4>2, Created
      <4> QED BY <3>1, <4>1, <4>3
    <3>2. CASE ~Layered(st)
      <4>1. layered = st /\ Kept(st, st)
        BY <1>1, <3>2, KeptFacts
      <4> HIDE DEF layered
      <4> QED BY <1>1, <1>2, <3>2, <4>1
    <3> QED BY <3>1, <3>2
  <2> HIDE DEF layered
  <2>3. costed \in Stocks /\ costed.layers = layered.layers /\ SameGoods(layered, costed)
    <3>1. PICK x, w, n, d : x = layered /\ w = dst /\ n = value /\ d = moved
      OBVIOUS
    <3>2. x \in Stocks /\ w \in Warehouses /\ n \in Nat /\ d \in Nat \ {0}
      BY <2>2, <3>1
    <3>3. /\ UpdateCost(x, w, q, n, d) \in Stocks /\ UpdateCost(x, w, q, n, d).layers = x.layers
          /\ SameGoods(x, UpdateCost(x, w, q, n, d))
      BY <3>2, UpdateCostKeeps
    <3> QED BY <3>1, <3>3
  <2> HIDE DEF costed
  <2>4. \A v \in Warehouses :
          /\ costed.inv[v].qty = st.inv[v].qty /\ costed.inv[v].transit = st.inv[v].transit
          /\ costed.inv[v].reserved = st.inv[v].reserved
          /\ costed.inv[v].damaged = st.inv[v].damaged
    BY <2>2, <2>3 DEF SameGoods
  <2>5. /\ after \in Stocks /\ after.layers = costed.layers
        /\ \A v \in Warehouses :
             /\ after.inv[v].qty = IF v = dst THEN st.inv[v].qty + q ELSE st.inv[v].qty
             /\ after.inv[v].transit = IF v = src THEN st.inv[v].transit - q ELSE st.inv[v].transit
             /\ after.inv[v].reserved = st.inv[v].reserved
             /\ after.inv[v].damaged = st.inv[v].damaged
    <3>1. PICK u, a, b : u = costed /\ a = st.inv[src].transit - q /\ b = st.inv[dst].qty + q
      OBVIOUS
    <3>2. u \in Stocks /\ u.inv \in [Warehouses -> Row]
      BY <2>3, <3>1, RowFacts
    <3>3. a \in Nat /\ b \in Nat
      <4>1. PICK i, j : i = st.inv[src].transit /\ j = st.inv[dst].qty
        OBVIOUS
      <4>2. i \in Nat /\ j \in Nat /\ i >= q /\ a = i - q /\ b = j + q
        BY <1>2, <1>5, <3>1, <4>1
      <4> QED BY <1>1, <4>2
    <3>4. PICK half : half = [u.inv EXCEPT ![src] = [@ EXCEPT !.transit = a]]
      OBVIOUS
    <3>5. PICK inv : inv = [half EXCEPT ![dst] = [@ EXCEPT !.qty = b]]
      OBVIOUS
    <3>6. half \in [Warehouses -> Row] /\ half[dst] = u.inv[dst]
      BY <3>2, <3>3, <3>4, ZenonT(40) DEF Row
    <3>7. inv \in [Warehouses -> Row]
      BY <3>3, <3>5, <3>6, ZenonT(40) DEF Row
    <3>8. \A v \in Warehouses :
            /\ inv[v].qty = IF v = dst THEN b ELSE u.inv[v].qty
            /\ inv[v].transit = IF v = src THEN a ELSE u.inv[v].transit
            /\ inv[v].reserved = u.inv[v].reserved
            /\ inv[v].damaged = u.inv[v].damaged
      BY <3>2, <3>4, <3>5, <3>6 DEF Row
    <3>9. after = [u EXCEPT !.inv = inv]
      <4>1. u.inv[src].transit = st.inv[src].transit /\ u.inv[dst].qty = st.inv[dst].qty
        BY <2>4, <3>1
      <4>2. after = [u EXCEPT !.inv[src].transit = @ - q, !.inv[dst].qty = @ + q]
        BY <3>1
      <4> HIDE DEF after
      <4> QED BY <3>1, <3>2, <3>4, <3>5, <3>6, <4>1, <4>2 DEF Stocks
    <3> HIDE DEF after
    <3>10. after \in Stocks /\ after.layers = u.layers /\ after.inv = inv
      BY <3>2, <3>7, <3>9 DEF Stocks
    <3> QED BY <2>4, <3>1, <3>8, <3>10
  <2>6. Shift(st, after, q, {}, {dst}, {src}, {})
    <3>0. Kept(st, after)
      <4> HIDE DEF after
      <4>1. Kept(layered, after)
        BY <2>2, <2>3, <2>5, KeptFacts, SMTT(30)
      <4> QED BY <1>1, <2>2, <2>5, <4>1, KeptFacts
    <3> SUFFICES ASSUME NEW v \in Warehouses
                 PROVE  /\ after.inv[v].qty = st.inv[v].qty - Amount(q, v, {}) + Amount(q, v, {dst})
                        /\ after.inv[v].transit
                             = st.inv[v].transit - Amount(q, v, {src}) + Amount(q, v, {})
      BY <2>5, <3>0 DEF Shift
    <3>1. st.inv[v].qty \in Nat /\ st.inv[v].transit \in Nat
      BY <1>2
    <3>2. PICK a, b : a = st.inv[v].qty /\ b = st.inv[v].transit
      OBVIOUS
    <3> HIDE DEF after
    <3>3. /\ after.inv[v].qty = IF v = dst THEN a + q ELSE a
          /\ after.inv[v].transit = IF v = src THEN b - q ELSE b
      BY <2>5, <3>2
    <3>4. /\ (IF v = dst THEN a + q ELSE a) = a - Amount(q, v, {}) + Amount(q, v, {dst})
          /\ (IF v = src THEN b - q ELSE b) = b - Amount(q, v, {src}) + Amount(q, v, {})
      BY <1>1, <3>1, <3>2 DEF Amount
    <3> QED BY <3>2, <3>3, <3>4
  <2>7. Covered(st) => Covered(after)
    <3> SUFFICES ASSUME Covered(st), NEW v \in Warehouses
                 PROVE  after.inv[v].reserved <= after.inv[v].qty
      BY DEF Covered
    <3>1. st.inv[v].qty \in Nat /\ st.inv[v].reserved \in Nat
      BY <1>2
    <3> HIDE DEF after
    <3>2. st.inv[v].reserved <= st.inv[v].qty
      BY DEF Covered
    <3>3. after.inv[v].reserved = st.inv[v].reserved
          /\ (after.inv[v].qty = st.inv[v].qty + q \/ after.inv[v].qty = st.inv[v].qty)
      BY <2>5
    <3> QED BY <1>1, <3>1, <3>2, <3>3, SMTT(30)
  <2>8. \A v \in Warehouses : LayerStock(after, v) = LayerStock(layered, v)
    <3> HIDE DEF after
    <3>1. after.layers = layered.layers
      BY <2>3, <2>5
    <3> QED BY <2>2, <2>5, <3>1, SameLayers
  <2>9. Backed(st) /\ Content(row.rows) <= q => Backed(after)
    <3> HIDE DEF after
    <3> SUFFICES ASSUME Backed(st), Content(row.rows) <= q, NEW v \in Warehouses
                 PROVE  LayerStock(after, v) <= after.inv[v].qty
      BY DEF Backed
    <3>1. LayerStock(st, v) <= st.inv[v].qty /\ LayerStock(st, v) \in Nat /\ st.inv[v].qty \in Nat
      BY <1>2 DEF Backed
    <3>2. CASE v # dst
      <4>1. LayerStock(after, v) = LayerStock(st, v) /\ after.inv[v].qty = st.inv[v].qty
        BY <2>2, <2>5, <2>8, <3>2
      <4> QED BY <3>1, <4>1
    <3>3. CASE v = dst
      <4>1. after.inv[v].qty = st.inv[v].qty + q
        BY <2>5, <3>3
      <4>2. LayerStock(after, v) = LayerStock(st, v) + (IF Layered(st) THEN Content(rows) ELSE 0)
        BY <2>2, <2>8, <3>3
      <4>3. Content(rows) <= q /\ Content(rows) \in Nat
        BY <2>1, ContentIs
      <4> QED BY <1>1, <3>1, <4>1, <4>2, <4>3
    <3> QED BY <3>2, <3>3
  <2> HIDE DEF after, good
  <2>10. acc.value + value \in Nat
    BY <1>1
  <2>11. done \in MoveAcc /\ done.ok = TRUE /\ done.stock = after /\ done.value = acc.value + value
    BY <2>5, <2>10 DEF MoveAcc
  <2> HIDE DEF done
  <2>12. new = done /\ acc.ok
    BY <1>3, <1>5 DEF good
  <2>13. acc.value = 0 => acc.value + value = value
    OBVIOUS
  <2> QED BY <2>6, <2>7, <2>9, <2>11, <2>12, <2>13 DEF new, TakesIn
<1> QED BY <1>4, <1>5

\* The pieces of some lines.
LEMMA LinesFacts ==
  ASSUME NEW lines \in Seq(Nat \ {0})
  PROVE  /\ Len(lines) \in Nat /\ DOMAIN lines = 1..Len(lines)
         /\ \A i \in 1..Len(lines) : lines[i] \in Nat \ {0}
         /\ SumLines(lines) = SumFunctionOnSet(lines, 1..Len(lines))
         /\ SumFunctionOnSet(lines, 1..0) = 0
         /\ \A k \in 1..Len(lines) :
              SumFunctionOnSet(lines, 1..k) = SumFunctionOnSet(lines, 1..(k - 1)) + lines[k]
         /\ \A k \in 0..Len(lines) : SumFunctionOnSet(lines, 1..k) \in Nat
         /\ Len(lines) > 0 => SumLines(lines) > 0
<1> DEFINE n == Len(lines)
<1>1. n \in Nat /\ DOMAIN lines = 1..n /\ \A i \in 1..n : lines[i] \in Nat \ {0}
  BY Elements
<1>2. SumLines(lines) = SumFunctionOnSet(lines, 1..n)
  BY <1>1 DEF SumLines, SumFunction
<1> HIDE DEF n
<1>3. SumFunctionOnSet(lines, 1..0) = 0
  <2>1. 1..0 = {}
    OBVIOUS
  <2> QED BY <2>1, SumNone
<1>4. ASSUME NEW k \in 0..n PROVE SumFunctionOnSet(lines, 1..k) \in Nat
  <2>1. PICK D : D = 1..k
    OBVIOUS
  <2>2. IsFiniteSet(D)
    <3>1. k \in Nat
      BY <1>1
    <3> QED BY <2>1, <3>1, Finite
  <2>3. \A i \in D : lines[i] \in Nat
    BY <1>1, <2>1
  <2>4. SumFunctionOnSet(lines, D) \in Nat
    BY <2>2, <2>3, SumNat
  <2> QED BY <2>1, <2>4
<1>5. ASSUME NEW k \in 1..n
      PROVE  SumFunctionOnSet(lines, 1..k) = SumFunctionOnSet(lines, 1..(k - 1)) + lines[k]
  <2>1. k \in Nat \ {0} /\ \A i \in 1..k : lines[i] \in Int
    BY <1>1
  <2> QED BY <2>1, SumUpTo
<1>6. n > 0 => SumLines(lines) > 0
  <2> SUFFICES ASSUME n > 0 PROVE SumLines(lines) > 0
    OBVIOUS
  <2>1. n \in 1..n /\ n - 1 \in 0..n
    BY <1>1
  <2>2. lines[n] \in Nat \ {0} /\ SumFunctionOnSet(lines, 1..(n - 1)) \in Nat
    BY <1>1, <1>4, <2>1
  <2>3. SumLines(lines) = SumFunctionOnSet(lines, 1..(n - 1)) + lines[n]
    BY <1>2, <1>5, <2>1
  <2> QED BY <2>2, <2>3
<1> QED BY <1>1, <1>2, <1>3, <1>4, <1>5, <1>6 DEF n

\* A dispatch sends its lines one after the other.
Sent(src, st, lines) ==
  FoldLeft(LAMBDA acc, q : SendLine(src, acc, q),
           [ok |-> TRUE, stock |-> st, value |-> 0, rows |-> <<>>], lines)

SentUpTo(src, st, n, acc) ==
  acc.ok => /\ Shift(st, acc.stock, n, {src}, {}, {}, {src})
            /\ Covered(st) => Covered(acc.stock)
            /\ Backed(st) => Backed(acc.stock)
            /\ Content(acc.rows) <= n

\* One more line of a dispatch takes its quantity off the shelf of its source.
LEMMA SentMore ==
  ASSUME NEW src \in Warehouses, NEW st \in Stocks, NEW n \in Nat, NEW q \in Nat \ {0},
         NEW acc \in SendAcc, SentUpTo(src, st, n, acc)
  PROVE  SentUpTo(src, st, n + q, SendLine(src, acc, q))
<1>1. PICK new : new = SendLine(src, acc, q)
  OBVIOUS
<1>2. /\ new \in SendAcc
      /\ new.ok => /\ acc.ok
                   /\ Shift(acc.stock, new.stock, q, {src}, {}, {}, {src})
                   /\ Covered(acc.stock) => Covered(new.stock)
                   /\ Backed(acc.stock) => Backed(new.stock)
                   /\ Content(new.rows) <= Content(acc.rows) + q
  BY <1>1, SendLineIs
<1> SUFFICES ASSUME new.ok
             PROVE  /\ Shift(st, new.stock, n + q, {src}, {}, {}, {src})
                    /\ Covered(st) => Covered(new.stock)
                    /\ Backed(st) => Backed(new.stock)
                    /\ Content(new.rows) <= n + q
  BY <1>1 DEF SentUpTo
<1>3. /\ Shift(st, acc.stock, n, {src}, {}, {}, {src})
      /\ Covered(st) => Covered(acc.stock)
      /\ Backed(st) => Backed(acc.stock)
      /\ Content(acc.rows) <= n
  BY <1>2 DEF SentUpTo
<1>4. acc.stock \in Stocks /\ new.stock \in Stocks /\ acc.rows \in Seq(Parts)
      /\ new.rows \in Seq(Parts) /\ q \in Nat
  BY <1>2 DEF SendAcc
<1>5. Shift(st, new.stock, n + q, {src}, {}, {}, {src})
  BY <1>2, <1>3, <1>4, ShiftMore
<1>6. Content(new.rows) <= n + q
  <2>1. PICK a, b : a = Content(acc.rows) /\ b = Content(new.rows)
    OBVIOUS
  <2>2. a \in Nat /\ b \in Nat /\ b <= a + q /\ a <= n
    BY <1>2, <1>3, <1>4, <2>1, ContentIs
  <2> QED BY <1>4, <2>1, <2>2
<1> QED BY <1>2, <1>3, <1>5, <1>6

\* A dispatch takes what its lines say.
LEMMA SentIs ==
  ASSUME NEW src \in Warehouses, NEW st \in Stocks, NEW lines \in Seq(Nat \ {0})
  PROVE  /\ Sent(src, st, lines) \in SendAcc
         /\ SentUpTo(src, st, SumLines(lines), Sent(src, st, lines))
         /\ Len(lines) = 0 => Sent(src, st, lines).value = 0
<1> DEFINE n == Len(lines)
           A == SendAcc
           b == [ok |-> TRUE, stock |-> st, value |-> 0, rows |-> <<>>]
           Op(a, q) == SendLine(src, a, q)
           step == [p \in A \X (1..n) |-> Op(p[1], lines[p[2]])]
           Fills(f) == f = [s \in SUBSET (1..n) |->
                              IF s = {} THEN b ELSE Op(f[s \ {Latest(s)}], lines[Latest(s)])]
           f == CHOOSE f : Fills(f)
           T(k) == SumFunctionOnSet(lines, 1..k)
<1>1. /\ n \in Nat /\ DOMAIN lines = 1..n /\ \A i \in 1..n : lines[i] \in Nat \ {0}
      /\ SumLines(lines) = T(n) /\ T(0) = 0
      /\ \A k \in 1..n : T(k) = T(k - 1) + lines[k]
      /\ \A k \in 0..n : T(k) \in Nat
  BY LinesFacts
<1>2. b \in A /\ \A a \in A, i \in 1..n : Op(a, lines[i]) \in A
  <2>1. b \in A
    <3>1. <<>> \in Seq(Parts) /\ 0 \in Nat
      OBVIOUS
    <3> QED BY <3>1 DEF SendAcc
  <2>2. ASSUME NEW a \in A, NEW i \in 1..n PROVE Op(a, lines[i]) \in A
    BY <1>1, SendLineIs
  <2> HIDE DEF A, Op, b
  <2> QED BY <2>1, <2>2
<1>3. Sent(src, st, lines) = f[1..n]
  BY <1>1, Zenon DEF Sent, FoldLeft, MapThenFoldSet, Latest, Max
<1>4. step \in [A \X (1..n) -> A]
  <2> HIDE DEF Op, A
  <2> QED BY <1>2
<1> HIDE DEF T
<1>5. PICK h \in [SUBSET (1..n) -> A] : IsFold(h, b, step, n)
  <2> HIDE DEF step, A, b
  <2> QED BY <1>1, <1>2, <1>4, FoldExists
<1> HIDE DEF b
<1>6. Fills(h)
  <2>1. ASSUME NEW s \in SUBSET (1..n), s # {}
        PROVE  h[s] = Op(h[s \ {Latest(s)}], lines[Latest(s)])
    <3>1. Latest(s) \in 1..n
      BY <1>1, <2>1, LatestIn
    <3>2. h[s \ {Latest(s)}] \in A
      BY <1>5
    <3>3. h[s] = step[<<h[s \ {Latest(s)}], Latest(s)>>]
      BY <1>5, <2>1 DEF IsFold
    <3> HIDE DEF A, Op
    <3> QED BY <3>1, <3>2, <3>3
  <2>2. h[{}] = b
    <3>1. {} \in SUBSET (1..n)
      OBVIOUS
    <3> QED BY <1>5, <3>1 DEF IsFold
  <2> HIDE DEF Op
  <2> QED BY <1>5, <2>1, <2>2
<1>7. Fills(f)
  <2> HIDE DEF Fills
  <2> QED BY <1>6
<1>8. f[1..0] = b /\ \A k \in 1..n : f[1..k] = Op(f[1..(k - 1)], lines[k])
  <2> HIDE DEF Op, f
  <2>1. f[1..0] = b
    <3>1. 1..0 = {}
      OBVIOUS
    <3> QED BY <1>7, <3>1
  <2>2. ASSUME NEW k \in 1..n PROVE f[1..k] = Op(f[1..(k - 1)], lines[k])
    <3>1. k \in Nat \ {0} /\ 1..k \in SUBSET (1..n)
      BY <1>1
    <3>2. 1..k # {} /\ Latest(1..k) = k /\ (1..k) \ {Latest(1..k)} = 1..(k - 1)
      BY <3>1, PrefixOf
    <3> QED BY <1>7, <3>1, <3>2
  <2> QED BY <2>1, <2>2
<1> HIDE DEF f, Fills, step
<1> DEFINE P == {k \in 0..n : f[1..k] \in A /\ SentUpTo(src, st, T(k), f[1..k])}
<1>9. 0 \in P
  <2>1. SentUpTo(src, st, 0, b)
    <3>1. Shift(st, st, 0, {src}, {}, {}, {src})
      BY ShiftNone
    <3>2. Content(<<>>) <= 0
      BY WeightNone DEF Content
    <3> QED BY <3>1, <3>2 DEF SentUpTo, b
  <2>2. 0 \in 0..n
    BY <1>1
  <2> QED BY <1>1, <1>2, <1>8, <2>1, <2>2
<1>10. ASSUME NEW k \in 1..n, k - 1 \in P PROVE k \in P
  <2>1. PICK a, q, t : a = f[1..(k - 1)] /\ q = lines[k] /\ t = T(k - 1)
    OBVIOUS
  <2>2. a \in A /\ SentUpTo(src, st, t, a)
    BY <1>10, <2>1
  <2>3. q \in Nat \ {0} /\ t \in Nat /\ T(k) = t + q
    <3>1. k - 1 \in 0..n
      BY <1>1
    <3> QED BY <1>1, <2>1, <3>1
  <2>4. f[1..k] = Op(a, q)
    BY <1>8, <2>1
  <2>5. SentUpTo(src, st, t + q, SendLine(src, a, q))
    BY <2>2, <2>3, SentMore
  <2>6. f[1..k] \in A
    <3> HIDE DEF Op
    <3>1. Op(a, q) \in A
      BY <1>2, <2>1, <2>2
    <3> QED BY <2>4, <3>1
  <2>7. k \in 0..n
    BY <1>1
  <2> QED BY <2>3, <2>4, <2>5, <2>6, <2>7
<1>11. n \in P
  <2> HIDE DEF P
  <2>1. \A i \in 0..n : i \in P
    BY <1>1, <1>9, <1>10, UpTo
  <2>2. n \in 0..n
    BY <1>1
  <2> QED BY <2>1, <2>2
<1>12. n = 0 => f[1..n].value = 0
  BY <1>8 DEF b
<1> QED BY <1>1, <1>3, <1>11, <1>12

\* So does a transfer.
MovedLines(g, st, lines) ==
  FoldLeft(LAMBDA acc, q : MoveLine(g, acc, q),
           [ok |-> TRUE, stock |-> st, value |-> 0], lines)

MovedUpTo(g, st, n, acc) ==
  acc.ok => /\ Shift(st, acc.stock, n, {g.src}, {g.dst}, {}, {})
            /\ Covered(st) => Covered(acc.stock)
            /\ Backed(st) => Backed(acc.stock)

\* One more line of a transfer moves its quantity.
LEMMA MovedMore ==
  ASSUME NEW g, g.src \in Warehouses, g.dst \in Warehouses, g.src # g.dst,
         NEW st \in Stocks, NEW n \in Nat, NEW q \in Nat \ {0},
         NEW acc \in MoveAcc, MovedUpTo(g, st, n, acc)
  PROVE  MovedUpTo(g, st, n + q, MoveLine(g, acc, q))
<1>1. PICK new : new = MoveLine(g, acc, q)
  OBVIOUS
<1>2. /\ new \in MoveAcc
      /\ new.ok => /\ acc.ok
                   /\ Shift(acc.stock, new.stock, q, {g.src}, {g.dst}, {}, {})
                   /\ Covered(acc.stock) => Covered(new.stock)
                   /\ Backed(acc.stock) => Backed(new.stock)
  BY <1>1, MoveLineIs
<1> SUFFICES ASSUME new.ok
             PROVE  /\ Shift(st, new.stock, n + q, {g.src}, {g.dst}, {}, {})
                    /\ Covered(st) => Covered(new.stock)
                    /\ Backed(st) => Backed(new.stock)
  BY <1>1 DEF MovedUpTo
<1>3. /\ Shift(st, acc.stock, n, {g.src}, {g.dst}, {}, {})
      /\ Covered(st) => Covered(acc.stock)
      /\ Backed(st) => Backed(acc.stock)
  BY <1>2 DEF MovedUpTo
<1>4. acc.stock \in Stocks /\ new.stock \in Stocks /\ q \in Nat
  BY <1>2 DEF MoveAcc
<1>5. Shift(st, new.stock, n + q, {g.src}, {g.dst}, {}, {})
  BY <1>2, <1>3, <1>4, ShiftMore
<1> QED BY <1>2, <1>3, <1>5

\* A transfer moves what its lines say.
LEMMA MovedIs ==
  ASSUME NEW g, g.src \in Warehouses, g.dst \in Warehouses, g.src # g.dst,
         NEW st \in Stocks, NEW lines \in Seq(Nat \ {0})
  PROVE  /\ MovedLines(g, st, lines) \in MoveAcc
         /\ MovedUpTo(g, st, SumLines(lines), MovedLines(g, st, lines))
<1> DEFINE n == Len(lines)
           A == MoveAcc
           b == [ok |-> TRUE, stock |-> st, value |-> 0]
           Op(a, q) == MoveLine(g, a, q)
           step == [p \in A \X (1..n) |-> Op(p[1], lines[p[2]])]
           Fills(f) == f = [s \in SUBSET (1..n) |->
                              IF s = {} THEN b ELSE Op(f[s \ {Latest(s)}], lines[Latest(s)])]
           f == CHOOSE f : Fills(f)
           T(k) == SumFunctionOnSet(lines, 1..k)
<1>1. /\ n \in Nat /\ DOMAIN lines = 1..n /\ \A i \in 1..n : lines[i] \in Nat \ {0}
      /\ SumLines(lines) = T(n) /\ T(0) = 0
      /\ \A k \in 1..n : T(k) = T(k - 1) + lines[k]
      /\ \A k \in 0..n : T(k) \in Nat
  BY LinesFacts
<1>2. b \in A /\ \A a \in A, i \in 1..n : Op(a, lines[i]) \in A
  <2>1. b \in A
    <3>1. 0 \in Nat
      OBVIOUS
    <3> QED BY <3>1 DEF MoveAcc
  <2>2. ASSUME NEW a \in A, NEW i \in 1..n PROVE Op(a, lines[i]) \in A
    BY <1>1, MoveLineIs
  <2> HIDE DEF A, Op, b
  <2> QED BY <2>1, <2>2
<1>3. MovedLines(g, st, lines) = f[1..n]
  BY <1>1, Zenon DEF MovedLines, FoldLeft, MapThenFoldSet, Latest, Max
<1>4. step \in [A \X (1..n) -> A]
  <2> HIDE DEF Op, A
  <2> QED BY <1>2
<1> HIDE DEF T
<1>5. PICK h \in [SUBSET (1..n) -> A] : IsFold(h, b, step, n)
  <2> HIDE DEF step, A, b
  <2> QED BY <1>1, <1>2, <1>4, FoldExists
<1> HIDE DEF b
<1>6. Fills(h)
  <2>1. ASSUME NEW s \in SUBSET (1..n), s # {}
        PROVE  h[s] = Op(h[s \ {Latest(s)}], lines[Latest(s)])
    <3>1. Latest(s) \in 1..n
      BY <1>1, <2>1, LatestIn
    <3>2. h[s \ {Latest(s)}] \in A
      BY <1>5
    <3>3. h[s] = step[<<h[s \ {Latest(s)}], Latest(s)>>]
      BY <1>5, <2>1 DEF IsFold
    <3> HIDE DEF A, Op
    <3> QED BY <3>1, <3>2, <3>3
  <2>2. h[{}] = b
    <3>1. {} \in SUBSET (1..n)
      OBVIOUS
    <3> QED BY <1>5, <3>1 DEF IsFold
  <2> HIDE DEF Op
  <2> QED BY <1>5, <2>1, <2>2
<1>7. Fills(f)
  <2> HIDE DEF Fills
  <2> QED BY <1>6
<1>8. f[1..0] = b /\ \A k \in 1..n : f[1..k] = Op(f[1..(k - 1)], lines[k])
  <2> HIDE DEF Op, f
  <2>1. f[1..0] = b
    <3>1. 1..0 = {}
      OBVIOUS
    <3> QED BY <1>7, <3>1
  <2>2. ASSUME NEW k \in 1..n PROVE f[1..k] = Op(f[1..(k - 1)], lines[k])
    <3>1. k \in Nat \ {0} /\ 1..k \in SUBSET (1..n)
      BY <1>1
    <3>2. 1..k # {} /\ Latest(1..k) = k /\ (1..k) \ {Latest(1..k)} = 1..(k - 1)
      BY <3>1, PrefixOf
    <3> QED BY <1>7, <3>1, <3>2
  <2> QED BY <2>1, <2>2
<1> HIDE DEF f, Fills, step
<1> DEFINE P == {k \in 0..n : f[1..k] \in A /\ MovedUpTo(g, st, T(k), f[1..k])}
<1>9. 0 \in P
  <2>1. MovedUpTo(g, st, 0, b)
    <3>1. Shift(st, st, 0, {g.src}, {g.dst}, {}, {})
      BY ShiftNone
    <3> QED BY <3>1 DEF MovedUpTo, b
  <2>2. 0 \in 0..n
    BY <1>1
  <2> QED BY <1>1, <1>2, <1>8, <2>1, <2>2
<1>10. ASSUME NEW k \in 1..n, k - 1 \in P PROVE k \in P
  <2>1. PICK a, q, t : a = f[1..(k - 1)] /\ q = lines[k] /\ t = T(k - 1)
    OBVIOUS
  <2>2. a \in A /\ MovedUpTo(g, st, t, a)
    BY <1>10, <2>1
  <2>3. q \in Nat \ {0} /\ t \in Nat /\ T(k) = t + q
    <3>1. k - 1 \in 0..n
      BY <1>1
    <3> QED BY <1>1, <2>1, <3>1
  <2>4. f[1..k] = Op(a, q)
    BY <1>8, <2>1
  <2>5. MovedUpTo(g, st, t + q, MoveLine(g, a, q))
    BY <2>2, <2>3, MovedMore
  <2>6. f[1..k] \in A
    <3> HIDE DEF Op
    <3>1. Op(a, q) \in A
      BY <1>2, <2>1, <2>2
    <3> QED BY <2>4, <3>1
  <2>7. k \in 0..n
    BY <1>1
  <2> QED BY <2>3, <2>4, <2>5, <2>6, <2>7
<1>11. n \in P
  <2> HIDE DEF P
  <2>1. \A i \in 0..n : i \in P
    BY <1>1, <1>9, <1>10, UpTo
  <2>2. n \in 0..n
    BY <1>1
  <2> QED BY <2>1, <2>2
<1> QED BY <1>1, <1>3, <1>11

\* So does a confirmation.
Received(s, st, lines) ==
  FoldLeft(LAMBDA acc, q : ReceiveLine(s, acc, q),
           [ok |-> TRUE, stock |-> st, value |-> 0], lines)

ReceivedUpTo(row, st, n, acc) ==
  acc.ok => /\ Shift(st, acc.stock, n, {}, {row.form.dst}, {row.form.src}, {})
            /\ Covered(st) => Covered(acc.stock)

\* One more line of a receipt moves its quantity from transit to the shelf.
LEMMA ReceivedMore ==
  ASSUME NEW s, NEW row, row = ship[s],
         OnItsWay(row), row.moved \in Nat \ {0},
         NEW st \in Stocks, NEW n \in Nat, NEW q \in Nat \ {0},
         NEW acc \in MoveAcc, ReceivedUpTo(row, st, n, acc)
  PROVE  ReceivedUpTo(row, st, n + q, ReceiveLine(s, acc, q))
<1>1. PICK new, src, dst : /\ new = ReceiveLine(s, acc, q)
                          /\ src = row.form.src /\ dst = row.form.dst
  OBVIOUS
<1>2. /\ new \in MoveAcc
      /\ new.ok => /\ acc.ok
                   /\ Shift(acc.stock, new.stock, q, {}, {dst}, {src}, {})
                   /\ Covered(acc.stock) => Covered(new.stock)
  <2>1. TakesIn(row, acc, q, ReceiveLine(s, acc, q))
    BY ReceiveLineIs
  <2> QED BY <1>1, <2>1 DEF TakesIn
<1> SUFFICES ASSUME new.ok
             PROVE  /\ Shift(st, new.stock, n + q, {}, {dst}, {src}, {})
                    /\ Covered(st) => Covered(new.stock)
  BY <1>1 DEF ReceivedUpTo
<1>3. /\ Shift(st, acc.stock, n, {}, {dst}, {src}, {})
      /\ Covered(st) => Covered(acc.stock)
  BY <1>1, <1>2 DEF ReceivedUpTo
<1>4. acc.stock \in Stocks /\ new.stock \in Stocks /\ q \in Nat
  BY <1>2 DEF MoveAcc
<1>5. Shift(st, new.stock, n + q, {}, {dst}, {src}, {})
  BY <1>2, <1>3, <1>4, ShiftMore
<1> QED BY <1>2, <1>3, <1>5

\* A receipt moves what its lines say.
LEMMA ReceivedIs ==
  ASSUME NEW s, NEW row, row = ship[s], NEW lines \in Seq(Nat \ {0}),
         OnItsWay(row), row.moved = SumLines(lines),
         NEW st \in Stocks
  PROVE  LET got == Received(s, st, lines)
         IN /\ got \in MoveAcc
            /\ ReceivedUpTo(row, st, SumLines(lines), got)
            /\ Len(lines) = 0 => got.value = 0 /\ got.stock = st
            /\ Len(lines) = 1 /\ got.ok =>
                 /\ got.value = row.value
                 /\ Backed(st) /\ Content(row.rows) <= lines[1] => Backed(got.stock)
<1> DEFINE n == Len(lines)
           A == MoveAcc
           b == [ok |-> TRUE, stock |-> st, value |-> 0]
           Op(a, q) == ReceiveLine(s, a, q)
           step == [p \in A \X (1..n) |-> Op(p[1], lines[p[2]])]
           Fills(f) == f = [z \in SUBSET (1..n) |->
                              IF z = {} THEN b ELSE Op(f[z \ {Latest(z)}], lines[Latest(z)])]
           f == CHOOSE f : Fills(f)
           T(k) == SumFunctionOnSet(lines, 1..k)
<1>1. /\ n \in Nat /\ DOMAIN lines = 1..n /\ \A i \in 1..n : lines[i] \in Nat \ {0}
      /\ SumLines(lines) = T(n) /\ T(0) = 0
      /\ \A k \in 1..n : T(k) = T(k - 1) + lines[k]
      /\ \A k \in 0..n : T(k) \in Nat
  BY LinesFacts
<1>0. \A i \in 1..n : row.moved \in Nat \ {0}
  <2>1. \A i \in 1..n : n > 0
    BY <1>1
  <2>2. n > 0 => SumLines(lines) > 0 /\ SumLines(lines) \in Nat
    <3>1. Len(lines) > 0 => SumLines(lines) > 0
      BY LinesFacts
    <3>2. n \in 0..n
      BY <1>1
    <3> QED BY <1>1, <3>1, <3>2
  <2> QED BY <2>1, <2>2
<1>2. b \in A /\ \A a \in A, i \in 1..n : Op(a, lines[i]) \in A
  <2>1. b \in A
    <3>1. 0 \in Nat
      OBVIOUS
    <3> QED BY <3>1 DEF MoveAcc
  <2>2. ASSUME NEW a \in A, NEW i \in 1..n PROVE Op(a, lines[i]) \in A
    <3>1. lines[i] \in Nat \ {0} /\ row.moved \in Nat \ {0}
      BY <1>0, <1>1
    <3>2. TakesIn(row, a, lines[i], ReceiveLine(s, a, lines[i]))
      BY <3>1, ReceiveLineIs
    <3> QED BY <3>2 DEF TakesIn
  <2> HIDE DEF A, Op, b
  <2> QED BY <2>1, <2>2
<1>3. Received(s, st, lines) = f[1..n]
  BY <1>1, Zenon DEF Received, FoldLeft, MapThenFoldSet, Latest, Max
<1>4. step \in [A \X (1..n) -> A]
  <2> HIDE DEF Op, A
  <2> QED BY <1>2
<1> HIDE DEF T
<1>5. PICK h \in [SUBSET (1..n) -> A] : IsFold(h, b, step, n)
  <2> HIDE DEF step, A, b
  <2> QED BY <1>1, <1>2, <1>4, FoldExists
<1> HIDE DEF b
<1>6. Fills(h)
  <2>1. ASSUME NEW z \in SUBSET (1..n), z # {}
        PROVE  h[z] = Op(h[z \ {Latest(z)}], lines[Latest(z)])
    <3>1. Latest(z) \in 1..n
      BY <1>1, <2>1, LatestIn
    <3>2. h[z \ {Latest(z)}] \in A
      BY <1>5
    <3>3. h[z] = step[<<h[z \ {Latest(z)}], Latest(z)>>]
      BY <1>5, <2>1 DEF IsFold
    <3> HIDE DEF A, Op
    <3> QED BY <3>1, <3>2, <3>3
  <2>2. h[{}] = b
    <3>1. {} \in SUBSET (1..n)
      OBVIOUS
    <3> QED BY <1>5, <3>1 DEF IsFold
  <2> HIDE DEF Op
  <2> QED BY <1>5, <2>1, <2>2
<1>7. Fills(f)
  <2> HIDE DEF Fills
  <2> QED BY <1>6
<1>8. f[1..0] = b /\ \A k \in 1..n : f[1..k] = Op(f[1..(k - 1)], lines[k])
  <2> HIDE DEF Op, f
  <2>1. f[1..0] = b
    <3>1. 1..0 = {}
      OBVIOUS
    <3> QED BY <1>7, <3>1
  <2>2. ASSUME NEW k \in 1..n PROVE f[1..k] = Op(f[1..(k - 1)], lines[k])
    <3>1. k \in Nat \ {0} /\ 1..k \in SUBSET (1..n)
      BY <1>1
    <3>2. 1..k # {} /\ Latest(1..k) = k /\ (1..k) \ {Latest(1..k)} = 1..(k - 1)
      BY <3>1, PrefixOf
    <3> QED BY <1>7, <3>1, <3>2
  <2> QED BY <2>1, <2>2
<1> HIDE DEF f, Fills, step
<1> DEFINE P == {k \in 0..n : f[1..k] \in A /\ ReceivedUpTo(row, st, T(k), f[1..k])}
<1>9. 0 \in P
  <2>1. ReceivedUpTo(row, st, 0, b)
    <3>1. Shift(st, st, 0, {}, {row.form.dst}, {row.form.src}, {})
      BY ShiftNone
    <3> QED BY <3>1 DEF ReceivedUpTo, b
  <2>2. 0 \in 0..n
    BY <1>1
  <2> QED BY <1>1, <1>2, <1>8, <2>1, <2>2
<1>10. ASSUME NEW k \in 1..n, k - 1 \in P PROVE k \in P
  <2>1. PICK a, q, t : a = f[1..(k - 1)] /\ q = lines[k] /\ t = T(k - 1)
    OBVIOUS
  <2>2. a \in A /\ ReceivedUpTo(row, st, t, a)
    BY <1>10, <2>1
  <2>3. q \in Nat \ {0} /\ t \in Nat /\ T(k) = t + q
    <3>1. k - 1 \in 0..n
      BY <1>1
    <3> QED BY <1>1, <2>1, <3>1
  <2>4. f[1..k] = Op(a, q)
    BY <1>8, <2>1
  <2>5. ReceivedUpTo(row, st, t + q, ReceiveLine(s, a, q))
    BY <1>0, <2>2, <2>3, ReceivedMore
  <2>6. f[1..k] \in A
    <3> HIDE DEF Op
    <3>1. Op(a, q) \in A
      BY <1>2, <2>1, <2>2
    <3> QED BY <2>4, <3>1
  <2>7. k \in 0..n
    BY <1>1
  <2> QED BY <2>3, <2>4, <2>5, <2>6, <2>7
<1>11. n \in P
  <2> HIDE DEF P
  <2>1. \A i \in 0..n : i \in P
    BY <1>1, <1>9, <1>10, UpTo
  <2>2. n \in 0..n
    BY <1>1
  <2> QED BY <2>1, <2>2
<1>12. n = 0 => f[1..n].value = 0 /\ f[1..n].stock = st
  BY <1>8 DEF b
<1>13. ASSUME n = 1, f[1..n].ok
       PROVE  /\ f[1..n].value = row.value
              /\ Backed(st) /\ Content(row.rows) <= lines[1] => Backed(f[1..n].stock)
  <2>1. 1 \in 1..n /\ row.moved \in Nat \ {0} /\ b \in MoveAcc /\ b.stock = st /\ b.value = 0
    BY <1>0, <1>1, <1>2, <1>13 DEF b
  <2>2. f[1..n] = ReceiveLine(s, b, lines[1])
    BY <1>8, <1>13, <2>1
  <2>3. PICK q, new : q = lines[1] /\ new = ReceiveLine(s, b, q)
    OBVIOUS
  <2>4. q \in Nat \ {0}
    BY <1>1, <2>1, <2>3
  <2>5. new.ok => /\ Backed(b.stock) /\ Content(row.rows) <= q => Backed(new.stock)
                  /\ new.value = row.value
    <3>1. PICK acc : acc = b
      OBVIOUS
    <3>2. acc \in MoveAcc /\ row.moved \in Nat \ {0}
      BY <2>1, <3>1
    <3>3. TakesIn(row, acc, q, ReceiveLine(s, acc, q))
      BY <2>4, <3>2, ReceiveLineIs
    <3> QED BY <2>1, <2>3, <3>1, <3>3 DEF TakesIn
  <2>6. new.ok /\ f[1..n] = new
    BY <1>13, <2>2, <2>3
  <2>7. new.value = row.value
    BY <2>1, <2>5, <2>6
  <2> QED BY <2>1, <2>3, <2>5, <2>6, <2>7
<1> QED BY <1>1, <1>3, <1>11, <1>12, <1>13

(***************************************************************************)
(* Stock                                                                   *)
(***************************************************************************)
ShipRows ==
  [status : {"none", "pending", "dispatched", "received", "cancelled"},
   form : ShipmentForms \cup {NoForm}, moved : Nat, value : Nat, rows : Seq(Parts),
   sent : Nat, got : Nat]
OrderRows == [status : {"none", "draft", "cancelled"}, form : OrderForms \cup {NoForm}]
TransferRows ==
  [at : {"new", "moving", "replayed", "done"}, form : TransferForms \cup {NoForm}]

Types ==
  /\ stock \in Stocks /\ opening \in Stocks
  /\ ship \in [Shipments -> ShipRows] /\ cancels \subseteq Shipments
  /\ transfer \in [Transfers -> TransferRows] /\ order \in [Orders -> OrderRows]
  /\ adjusted \in Seq(Int) /\ gl \in [Accounts -> Int]
  /\ entries \subseteq Shipments \X (1..LastDay) /\ today \in 1..LastDay

\* A shipment's row says where its goods are, but for a cancelled one's status.
RowAgrees(row) ==
  /\ row.status \in {"none", "pending"} => row.sent = 0
  /\ row.status = "dispatched" => row.sent > 0 /\ row.got = 0
  /\ row.sent = 0 => row.got = 0
  /\ row.status \notin {"none", "cancelled"} => row.form \in ShipmentForms
  /\ row.sent > 0 => /\ row.form \in ShipmentForms
                     /\ row.moved = SumLines(row.form.lines)
                     /\ Content(row.rows) <= row.moved
                     /\ Len(row.form.lines) = 0 => row.value = 0

RowsAgree == \A s \in Shipments : RowAgrees(ship[s])

OrdersAgree  == \A o \in Orders : order[o].status = "draft" => order[o].form \in OrderForms

\* A shipment has entries of the days it was sent and got only.
EntriesAgree ==
  \A s \in Shipments, d \in Nat : <<s, d>> \in entries => d = ship[s].sent \/ d = ship[s].got

\* The amounts the properties sum, as functions on all shipments and orders.
IsAway(row)   == row.sent > 0 /\ row.got = 0
FromOf(sh, w) == [s \in Shipments |-> IF IsAway(sh[s]) /\ sh[s].form.src = w THEN sh[s].moved ELSE 0]
WorthOf(sh)   == [s \in Shipments |-> IF IsAway(sh[s]) THEN sh[s].value ELSE 0]
OpenOf(ord, w) ==
  [o \in Orders |-> IF ord[o].status = "draft" /\ ord[o].form.wh = w THEN ord[o].form.qty ELSE 0]

TransitsAgree(st, sh) ==
  \A w \in Warehouses :
    st.inv[w].transit = opening.inv[w].transit + SumFunctionOnSet(FromOf(sh, w), Shipments)
ReservedAgrees(st, ord) ==
  \A w \in Warehouses : st.inv[w].reserved = SumFunctionOnSet(OpenOf(ord, w), Orders)

Single(sh)  == \A s \in Shipments : sh[s].got > 0 => ~Repeats(sh[s].form)
Delayed(sh) == \A s \in Shipments : sh[s].got > 0 => /\ ~Repeats(sh[s].form)
                                                     /\ sh[s].got > sh[s].sent

GoodsNow(st, adj) == (OnHand(st) + InTransit(st)) - SumLines(adj)

WorthAgrees(g, sh)  == g["transit"] = SumFunctionOnSet(WorthOf(sh), Shipments)

StockCore ==
  /\ Types /\ RowsAgree /\ OrdersAgree /\ EntriesAgree
  /\ TransitsAgree(stock, ship) /\ ReservedAgrees(stock, order) /\ Covered(stock)

StockInv ==
  /\ StockCore
  /\ GoodsNow(stock, adjusted) = OnHand(opening) + InTransit(opening)
  /\ Single(ship) => Backed(stock)
  /\ Delayed(ship) => WorthAgrees(gl, ship)

\* What a step keeps of the other parts of the invariant.
Keeps ==
  /\ StockCore' /\ Kept(stock, stock')
  /\ GoodsNow(stock', adjusted') = GoodsNow(stock, adjusted)
  /\ Single(ship') => Single(ship) /\ (Backed(stock) => Backed(stock'))
  /\ Delayed(ship') => Delayed(ship) /\ (WorthAgrees(gl, ship) => WorthAgrees(gl', ship'))

\* A form names two warehouses and what is to be moved between them.
LEMMA FormFacts ==
  \A f \in ShipmentForms \cup TransferForms :
    /\ f.src \in Warehouses /\ f.dst \in Warehouses /\ f.src # f.dst
    /\ f.lines \in Seq(Nat \ {0}) /\ Len(f.lines) \in Nat /\ SumLines(f.lines) \in Nat
<1> SUFFICES ASSUME NEW f \in ShipmentForms \cup TransferForms
             PROVE  /\ f.src \in Warehouses /\ f.dst \in Warehouses /\ f.src # f.dst
                    /\ f.lines \in Seq(Nat \ {0})
                    /\ Len(f.lines) \in Nat /\ SumLines(f.lines) \in Nat
  OBVIOUS
<1>1. /\ ShipmentForms \cup TransferForms
           \subseteq [src : Warehouses, dst : Warehouses, lines : Seq(Nat \ {0})]
      /\ \A g \in ShipmentForms \cup TransferForms : g.src # g.dst
  BY StockAssumption
<1>2. /\ f.src \in Warehouses /\ f.dst \in Warehouses /\ f.src # f.dst
      /\ f.lines \in Seq(Nat \ {0})
  BY <1>1
<1>3. /\ Len(f.lines) \in Nat /\ SumLines(f.lines) = SumFunctionOnSet(f.lines, 1..Len(f.lines))
      /\ \A k \in 0..Len(f.lines) : SumFunctionOnSet(f.lines, 1..k) \in Nat
  BY <1>2, LinesFacts
<1>4. Len(f.lines) \in 0..Len(f.lines)
  BY <1>3
<1> QED BY <1>2, <1>3, <1>4

\* Orders and counts are of one warehouse.
LEMMA CountFacts == \A f \in OrderForms \cup Counts : f.wh \in Warehouses /\ f.qty \in Nat
<1>1. OrderForms \cup Counts \subseteq [wh : Warehouses, qty : Nat]
  BY StockAssumption
<1> QED BY <1>1

\* The accounts of the warehouses are not the other two.
LEMMA AccountFacts ==
  /\ \A w \in Warehouses : w \in Accounts /\ w # "transit"
  /\ "transit" \in Accounts /\ "adjustment" \in Accounts
<1>1. Warehouses \cap {"transit", "adjustment"} = {}
  BY StockAssumption
<1> QED BY <1>1 DEF Accounts

\* What a shipment has on its way is a number.
LEMMA AmountsNat ==
  ASSUME NEW sh \in [Shipments -> ShipRows], NEW w
  PROVE  \A s \in Shipments : FromOf(sh, w)[s] \in Nat /\ WorthOf(sh)[s] \in Nat
  BY DEF FromOf, WorthOf, ShipRows

\* The change of one shipment.
LEMMA OneShipment ==
  ASSUME NEW a \in [Shipments -> ShipRows], NEW b \in [Shipments -> ShipRows],
         NEW s \in Shipments, \A u \in Shipments \ {s} : b[u] = a[u], NEW w
  PROVE  /\ SumFunctionOnSet(FromOf(b, w), Shipments)
              = SumFunctionOnSet(FromOf(a, w), Shipments) + FromOf(b, w)[s] - FromOf(a, w)[s]
         /\ SumFunctionOnSet(WorthOf(b), Shipments)
              = SumFunctionOnSet(WorthOf(a), Shipments) + WorthOf(b)[s] - WorthOf(a)[s]
         /\ SumFunctionOnSet(FromOf(a, w), Shipments) \in Nat
         /\ SumFunctionOnSet(WorthOf(a), Shipments) \in Nat
<1>1. IsFiniteSet(Shipments)
  BY StockAssumption
<1>2. \A u \in Shipments : /\ FromOf(a, w)[u] \in Nat /\ FromOf(b, w)[u] \in Nat
                           /\ WorthOf(a)[u] \in Nat /\ WorthOf(b)[u] \in Nat
  BY AmountsNat
<1>3. \A u \in Shipments \ {s} : FromOf(a, w)[u] = FromOf(b, w)[u]
  BY DEF FromOf
<1>4. \A u \in Shipments \ {s} : WorthOf(a)[u] = WorthOf(b)[u]
  BY DEF WorthOf
<1>5. SumFunctionOnSet(FromOf(b, w), Shipments)
        = SumFunctionOnSet(FromOf(a, w), Shipments) + FromOf(b, w)[s] - FromOf(a, w)[s]
  <2>1. \A u \in Shipments : FromOf(a, w)[u] \in Int /\ FromOf(b, w)[u] \in Int
    BY <1>2
  <2> QED BY <1>1, <1>3, <2>1, SumMove
<1>6. SumFunctionOnSet(WorthOf(b), Shipments)
        = SumFunctionOnSet(WorthOf(a), Shipments) + WorthOf(b)[s] - WorthOf(a)[s]
  <2>1. \A u \in Shipments : WorthOf(a)[u] \in Int /\ WorthOf(b)[u] \in Int
    BY <1>2
  <2> QED BY <1>1, <1>4, <2>1, SumMove
<1>7. SumFunctionOnSet(FromOf(a, w), Shipments) \in Nat
  BY <1>1, <1>2, SumNat
<1>8. SumFunctionOnSet(WorthOf(a), Shipments) \in Nat
  BY <1>1, <1>2, SumNat
<1> QED BY <1>5, <1>6, <1>7, <1>8

\* The change of one order.
LEMMA OneOrder ==
  ASSUME NEW a \in [Orders -> OrderRows], NEW b \in [Orders -> OrderRows],
         \A o \in Orders : a[o].status = "draft" => a[o].form \in OrderForms,
         \A o \in Orders : b[o].status = "draft" => b[o].form \in OrderForms,
         NEW o \in Orders, \A u \in Orders \ {o} : b[u] = a[u], NEW w
  PROVE  /\ SumFunctionOnSet(OpenOf(b, w), Orders)
              = SumFunctionOnSet(OpenOf(a, w), Orders) + OpenOf(b, w)[o] - OpenOf(a, w)[o]
         /\ SumFunctionOnSet(OpenOf(a, w), Orders) \in Nat
         /\ OpenOf(a, w)[o] <= SumFunctionOnSet(OpenOf(a, w), Orders)
<1>1. IsFiniteSet(Orders)
  BY StockAssumption
<1>2. \A u \in Orders : OpenOf(a, w)[u] \in Nat /\ OpenOf(b, w)[u] \in Nat
  BY CountFacts DEF OpenOf
<1>3. \A u \in Orders \ {o} : OpenOf(a, w)[u] = OpenOf(b, w)[u]
  BY DEF OpenOf
<1>4. \A u \in Orders : OpenOf(a, w)[u] \in Int /\ OpenOf(b, w)[u] \in Int
  BY <1>2
<1>5. SumFunctionOnSet(OpenOf(b, w), Orders)
        = SumFunctionOnSet(OpenOf(a, w), Orders) + OpenOf(b, w)[o] - OpenOf(a, w)[o]
  BY <1>1, <1>3, <1>4, SumMove
<1>6. SumFunctionOnSet(OpenOf(a, w), Orders) \in Nat
  BY <1>1, <1>2, SumNat
<1>7. OpenOf(a, w)[o] <= SumFunctionOnSet(OpenOf(a, w), Orders)
  <2>1. SumFunctionOnSet(OpenOf(a, w), Orders)
          = OpenOf(a, w)[o] + SumFunctionOnSet(OpenOf(a, w), Orders \ {o})
    BY <1>1, <1>4, SumDrop
  <2>2. IsFiniteSet(Orders \ {o})
    BY <1>1, FS_Subset
  <2>3. \A u \in Orders \ {o} : OpenOf(a, w)[u] \in Nat
    BY <1>2
  <2>4. SumFunctionOnSet(OpenOf(a, w), Orders \ {o}) \in Nat
    BY <2>2, <2>3, SumNat
  <2> QED BY <1>2, <2>1, <2>4
<1> QED BY <1>5, <1>6, <1>7

\* What has arrived stays arrived.
LEMMA HistoryBack ==
  ASSUME NEW a \in [Shipments -> ShipRows], NEW b \in [Shipments -> ShipRows],
         \A s \in Shipments : \/ a[s].got = 0
                              \/ /\ b[s].got = a[s].got /\ b[s].form = a[s].form
                                 /\ b[s].sent = a[s].sent
  PROVE  (Single(b) => Single(a)) /\ (Delayed(b) => Delayed(a))
<1>1. ASSUME Single(b) PROVE Single(a)
  <2> SUFFICES ASSUME NEW s \in Shipments, a[s].got > 0 PROVE ~Repeats(a[s].form)
    BY DEF Single
  <2>1. a[s].got # 0
    BY DEF ShipRows
  <2> QED BY <1>1, <2>1 DEF Single
<1>2. ASSUME Delayed(b) PROVE Delayed(a)
  <2> SUFFICES ASSUME NEW s \in Shipments, a[s].got > 0
               PROVE  ~Repeats(a[s].form) /\ a[s].got > a[s].sent
    BY DEF Delayed
  <2>1. a[s].got # 0
    BY DEF ShipRows
  <2> QED BY <1>2, <2>1 DEF Delayed
<1> QED BY <1>1, <1>2

\* A step that only touches shipments, and none that was sent but its status.
Elsewhere == UNCHANGED <<stock, opening, transfer, order, adjusted, gl, entries, today>>

\* A step that changes shipments before they have sent anything, and no goods.
LEMMA ShipsOnly ==
  ASSUME StockCore, Elsewhere, ship' \in [Shipments -> ShipRows], cancels' \subseteq Shipments,
         RowsAgree',
         \A s \in Shipments : ship'[s].sent = ship[s].sent /\ ship'[s].got = ship[s].got,
         \A s \in Shipments : ship[s].sent > 0 =>
            /\ ship'[s].form = ship[s].form /\ ship'[s].moved = ship[s].moved
            /\ ship'[s].value = ship[s].value
  PROVE  Keeps
<1>1. ship \in [Shipments -> ShipRows] /\ RowsAgree /\ Types
  BY DEF StockCore, Types
<1>2. ASSUME NEW w PROVE FromOf(ship', w) = FromOf(ship, w)
  BY DEF FromOf, IsAway
<1>3. WorthOf(ship') = WorthOf(ship)
  BY DEF WorthOf, IsAway
<1>4. Types'
  BY DEF Elsewhere, StockCore, Types
<1>5. OrdersAgree' /\ EntriesAgree' /\ Covered(stock')
  BY DEF Elsewhere, StockCore, OrdersAgree, EntriesAgree
<1>6. TransitsAgree(stock, ship)' /\ ReservedAgrees(stock, order)'
  BY <1>2 DEF Elsewhere, StockCore, TransitsAgree, ReservedAgrees
<1>7. StockCore'
  BY <1>4, <1>5, <1>6 DEF StockCore
<1>8. /\ Single(ship') => Single(ship)
      /\ Delayed(ship') => Delayed(ship)
  <2>1. ASSUME NEW s \in Shipments
        PROVE  \/ ship[s].got = 0
               \/ /\ ship'[s].got = ship[s].got /\ ship'[s].form = ship[s].form
                  /\ ship'[s].sent = ship[s].sent
    BY <1>1 DEF RowsAgree, RowAgrees, ShipRows
  <2> QED BY <1>1, <2>1, HistoryBack
<1>9. WorthAgrees(gl, ship) => WorthAgrees(gl', ship')
  BY <1>3 DEF WorthAgrees, Elsewhere
<1>10. GoodsNow(stock', adjusted') = GoodsNow(stock, adjusted) /\ (Backed(stock) => Backed(stock'))
  BY DEF Elsewhere
<1>11. Kept(stock, stock')
  BY <1>1, KeptFacts DEF Elsewhere, Types
<1> QED BY <1>7, <1>8, <1>9, <1>10, <1>11 DEF Keeps

\* CreateShipment keeps the parts of the invariant, and moves no goods.
LEMMA CreateShipmentKeeps ==
  ASSUME StockCore, NEW s \in Shipments, CreateShipment(s)
  PROVE  Keeps
<1>1. PICK f \in ShipmentForms :
        ship' = [ship EXCEPT ![s] = [NoShipment EXCEPT !.status = "pending", !.form = f]]
  BY DEF CreateShipment
<1>2. /\ ship \in [Shipments -> ShipRows] /\ ship[s].status = "none" /\ cancels' \subseteq Shipments
      /\ Elsewhere /\ RowsAgree
  BY DEF CreateShipment, OthersUnchanged, Elsewhere, StockCore, Types
<1>3. PICK new : new = [NoShipment EXCEPT !.status = "pending", !.form = f]
  OBVIOUS
<1>4. /\ new.status = "pending" /\ new.form = f /\ new.moved = 0 /\ new.value = 0
      /\ new.rows = <<>> /\ new.sent = 0 /\ new.got = 0 /\ new \in ShipRows
  <2>1. <<>> \in Seq(Parts)
    OBVIOUS
  <2> QED BY <1>3, <2>1 DEF NoShipment, ShipRows
<1>5. /\ ship' \in [Shipments -> ShipRows] /\ ship'[s] = new
      /\ \A u \in Shipments \ {s} : ship'[u] = ship[u]
  BY <1>1, <1>2, <1>3, <1>4
<1>6. ship[s].sent = 0 /\ ship[s].got = 0
  BY <1>2 DEF RowsAgree, RowAgrees
<1>7. RowsAgree'
  <2>1. RowAgrees(new)
    BY <1>4 DEF RowAgrees
  <2> QED BY <1>2, <1>5, <2>1 DEF RowsAgree
<1>8. \A u \in Shipments : ship'[u].sent = ship[u].sent /\ ship'[u].got = ship[u].got
  BY <1>4, <1>5, <1>6
<1>9. \A u \in Shipments : ship[u].sent > 0 =>
        /\ ship'[u].form = ship[u].form /\ ship'[u].moved = ship[u].moved
        /\ ship'[u].value = ship[u].value
  BY <1>5, <1>6
<1> QED BY <1>2, <1>5, <1>7, <1>8, <1>9, ShipsOnly

\* CancelRead keeps them: nothing but the request changes.
LEMMA CancelReadKeeps ==
  ASSUME StockCore, NEW s \in Shipments, CancelRead(s)
  PROVE  Keeps
<1>1. /\ ship' = ship /\ cancels' \subseteq Shipments /\ Elsewhere /\ RowsAgree
      /\ ship' \in [Shipments -> ShipRows]
  BY DEF CancelRead, OthersUnchanged, Elsewhere, StockCore, Types
<1>2. RowsAgree'
  BY <1>1 DEF RowsAgree
<1> QED BY <1>1, <1>2, ShipsOnly

\* CancelWrite keeps them, also where the shipment was dispatched since.
LEMMA CancelWriteKeeps ==
  ASSUME StockCore, NEW s \in Shipments, CancelWrite(s)
  PROVE  Keeps
<1>1. /\ ship' = [ship EXCEPT ![s].status = "cancelled"] /\ cancels' \subseteq Shipments
      /\ Elsewhere /\ RowsAgree /\ ship \in [Shipments -> ShipRows]
  BY DEF CancelWrite, OthersUnchanged, Elsewhere, StockCore, Types
<1>2. /\ ship' \in [Shipments -> ShipRows]
      /\ \A u \in Shipments :
           /\ ship'[u].form = ship[u].form /\ ship'[u].moved = ship[u].moved
           /\ ship'[u].value = ship[u].value /\ ship'[u].rows = ship[u].rows
           /\ ship'[u].sent = ship[u].sent /\ ship'[u].got = ship[u].got
           /\ ship'[u].status = IF u = s THEN "cancelled" ELSE ship[u].status
  BY <1>1 DEF ShipRows
<1>3. RowsAgree'
  <2> SUFFICES ASSUME NEW u \in Shipments PROVE RowAgrees(ship'[u])
    BY DEF RowsAgree
  <2>1. RowAgrees(ship[u])
    BY <1>1 DEF RowsAgree
  <2> QED BY <1>2, <2>1 DEF RowAgrees
<1> QED BY <1>1, <1>2, <1>3, ShipsOnly

\* Between shelves and transits nothing is made or lost.
LEMMA GoodsShifted ==
  ASSUME NEW st \in Stocks, NEW t \in Stocks, NEW n \in Nat,
         NEW u \in Warehouses, NEW v \in Warehouses,
         \/ Shift(st, t, n, {u}, {}, {}, {v})
         \/ Shift(st, t, n, {}, {u}, {v}, {})
         \/ Shift(st, t, n, {u}, {v}, {}, {})
  PROVE  \A adj : GoodsNow(t, adj) = GoodsNow(st, adj)
<1> DEFINE all(at) == SumFunctionOnSet([w \in Warehouses |-> Amount(n, w, at)], Warehouses)
<1>1. all({u}) = n /\ all({v}) = n /\ all({}) = 0
  BY SpotSum
<1>2. \A less, more, off, on : Shift(st, t, n, less, more, off, on) =>
        /\ OnHand(st) \in Nat /\ InTransit(st) \in Nat
        /\ OnHand(t) + all(less) = OnHand(st) + all(more)
        /\ InTransit(t) + all(off) = InTransit(st) + all(on)
  BY ShiftTotals
<1>3. OnHand(t) \in Nat /\ InTransit(t) \in Nat
  <2>1. Shift(t, t, 0, {}, {}, {}, {})
    BY ShiftNone
  <2>2. 0 \in Nat
    OBVIOUS
  <2> QED BY <2>1, <2>2, ShiftTotals
<1> HIDE DEF all
<1>4. OnHand(t) + InTransit(t) = OnHand(st) + InTransit(st)
  <2>1. CASE Shift(st, t, n, {u}, {}, {}, {v})
    <3>1. /\ OnHand(st) \in Nat /\ InTransit(st) \in Nat
          /\ OnHand(t) + n = OnHand(st) + 0 /\ InTransit(t) + 0 = InTransit(st) + n
      BY <1>1, <1>2, <2>1
    <3> QED BY <1>3, <3>1
  <2>2. CASE Shift(st, t, n, {}, {u}, {v}, {})
    <3>1. /\ OnHand(st) \in Nat /\ InTransit(st) \in Nat
          /\ OnHand(t) + 0 = OnHand(st) + n /\ InTransit(t) + n = InTransit(st) + 0
      BY <1>1, <1>2, <2>2
    <3> QED BY <1>3, <3>1
  <2>3. CASE Shift(st, t, n, {u}, {v}, {}, {})
    <3>1. /\ OnHand(st) \in Nat /\ InTransit(st) \in Nat
          /\ OnHand(t) + n = OnHand(st) + n /\ InTransit(t) + 0 = InTransit(st) + 0
      BY <1>1, <1>2, <2>3
    <3> QED BY <1>3, <3>1
  <2> QED BY <2>1, <2>2, <2>3
<1>5. ASSUME NEW adj PROVE GoodsNow(t, adj) = GoodsNow(st, adj)
  <2>1. PICK x, y : x = OnHand(t) + InTransit(t) /\ y = OnHand(st) + InTransit(st)
    OBVIOUS
  <2>2. GoodsNow(t, adj) = x - SumLines(adj) /\ GoodsNow(st, adj) = y - SumLines(adj)
    BY <2>1 DEF GoodsNow
  <2>3. x = y
    BY <1>4, <2>1
  <2> QED BY <2>2, <2>3
<1> QED BY <1>5

\* A form's lines, whatever they are of, and the warehouses they go between.
LEMMA SentRowFacts ==
  ASSUME StockCore, NEW s \in Shipments
  PROVE  /\ ship[s] \in ShipRows /\ RowAgrees(ship[s])
         /\ ship[s].status \notin {"none", "cancelled"} => ship[s].form \in ShipmentForms
         /\ ship[s].sent \in Nat /\ ship[s].got \in Nat
         /\ ship[s].sent = 0 => ship[s].got = 0 /\ \A d : <<s, d>> \notin entries
<1>1. /\ ship \in [Shipments -> ShipRows] /\ RowsAgree /\ EntriesAgree
      /\ entries \subseteq Shipments \X (1..LastDay) /\ LastDay \in Nat
  BY StockAssumption DEF StockCore, Types
<1>2. ship[s] \in ShipRows /\ RowAgrees(ship[s])
  BY <1>1 DEF RowsAgree
<1>3. ship[s].sent \in Nat /\ ship[s].got \in Nat
  BY <1>2 DEF ShipRows
<1>4. /\ ship[s].status \notin {"none", "cancelled"} => ship[s].form \in ShipmentForms
      /\ ship[s].sent = 0 => ship[s].got = 0
  BY <1>2 DEF RowAgrees
<1>5. ASSUME ship[s].sent = 0, NEW d, <<s, d>> \in entries PROVE FALSE
  <2>1. d \in Nat /\ d # 0
    BY <1>1, <1>5
  <2> QED BY <1>1, <1>4, <1>5, <2>1 DEF EntriesAgree
<1> QED BY <1>2, <1>3, <1>4, <1>5

\* Dispatch keeps them: its goods leave the shelf and are on their way.
LEMMA DispatchKeeps ==
  ASSUME StockCore, NEW s \in Shipments, Dispatch(s)
  PROVE  Keeps
<1> DEFINE f == ship[s].form
           src == f.src
           n == SumLines(f.lines)
           acc == Sent(src, stock, f.lines)
           new == [ship[s] EXCEPT !.status = "dispatched", !.moved = n,
                                  !.value = acc.value, !.rows = acc.rows, !.sent = today]
<1>1. /\ ship[s].status = "pending" /\ acc.ok /\ stock' = acc.stock
      /\ ship' = [ship EXCEPT ![s] = new]
      /\ PostShipment(s, "transit", src, acc.value)
      /\ UNCHANGED <<opening, transfer, order, adjusted, today, cancels>>
  BY DEF Dispatch, OthersUnchanged, Sent
<1>2. /\ ship[s] \in ShipRows /\ RowAgrees(ship[s]) /\ f \in ShipmentForms
      /\ ship[s].sent = 0 /\ ship[s].got = 0 /\ \A d : <<s, d>> \notin entries
  <2>1. ship[s].sent = 0
    BY <1>1, SentRowFacts DEF RowAgrees
  <2> QED BY <1>1, <2>1, SentRowFacts
<1>3. /\ src \in Warehouses /\ f.lines \in Seq(Nat \ {0}) /\ n \in Nat /\ Len(f.lines) \in Nat
  BY <1>2, FormFacts
<1>4. /\ stock \in Stocks /\ opening \in Stocks /\ ship \in [Shipments -> ShipRows]
      /\ gl \in [Accounts -> Int] /\ entries \subseteq Shipments \X (1..LastDay)
      /\ today \in 1..LastDay /\ LastDay \in Nat /\ RowsAgree /\ OrdersAgree /\ EntriesAgree
      /\ TransitsAgree(stock, ship) /\ ReservedAgrees(stock, order) /\ Covered(stock) /\ Types
  BY StockAssumption DEF StockCore, Types
<1> HIDE DEF n
<1>5. acc \in SendAcc /\ SentUpTo(src, stock, n, acc) /\ (Len(f.lines) = 0 => acc.value = 0)
  BY <1>3, <1>4, SentIs DEF n
<1>6. PICK v, rows, t : v = acc.value /\ rows = acc.rows /\ t = acc.stock
  OBVIOUS
<1>7. /\ v \in Nat /\ rows \in Seq(Parts) /\ t \in Stocks /\ stock' = t
      /\ Shift(stock, t, n, {src}, {}, {}, {src})
      /\ Covered(t) /\ (Backed(stock) => Backed(t)) /\ Content(rows) <= n
      /\ Len(f.lines) = 0 => v = 0
  BY <1>1, <1>4, <1>5, <1>6 DEF SendAcc, SentUpTo
<1>8. PICK row : row = new
  OBVIOUS
<1>9. /\ row \in ShipRows /\ row.status = "dispatched" /\ row.moved = n /\ row.value = v
      /\ row.rows = rows /\ row.sent = today /\ row.got = 0 /\ row.form = f
  <2> HIDE DEF acc
  <2>1. PICK old, g : old = ship[s] /\ g = f
    OBVIOUS
  <2>2. /\ row = [old EXCEPT !.status = "dispatched", !.moved = n, !.value = v,
                             !.rows = rows, !.sent = today]
        /\ old \in ShipRows /\ old.got = 0 /\ old.form = g
    BY <1>2, <1>6, <1>8, <2>1
  <2>3. today \in Nat
    BY <1>4
  <2> HIDE DEF f
  <2>4. /\ row \in ShipRows /\ row.status = "dispatched" /\ row.moved = n /\ row.value = v
        /\ row.rows = rows /\ row.sent = today /\ row.got = 0 /\ row.form = g
    BY <1>3, <1>7, <2>2, <2>3 DEF ShipRows
  <2> QED BY <2>1, <2>4
<1>10. /\ ship' \in [Shipments -> ShipRows] /\ ship'[s] = row
       /\ \A u \in Shipments \ {s} : ship'[u] = ship[u]
  <2> HIDE DEF new
  <2> QED BY <1>1, <1>4, <1>8, <1>9
<1> HIDE DEF acc, new
<1>11. PostShipment(s, "transit", src, v)
  BY <1>1, <1>6
<1>12. /\ gl' \in [Accounts -> Int] /\ entries' \subseteq entries \cup {<<s, today>>}
       /\ gl'["transit"] = gl["transit"] + v
  <2>0. /\ NewEntry(s) /\ src \in Accounts /\ src # "transit" /\ "transit" \in Accounts
        /\ gl["transit"] \in Int /\ gl[src] \in Int
    BY <1>2, <1>3, <1>4, AccountFacts DEF NewEntry
  <2>1. CASE v > 0
    <3>1. gl' = [gl EXCEPT !["transit"] = @ + v, ![src] = @ - v] /\ entries' = entries \cup {<<s, today>>}
      BY <1>11, <2>0, <2>1 DEF PostShipment, Post
    <3> QED BY <1>4, <1>7, <2>0, <3>1
  <2>2. CASE ~(v > 0)
    <3>1. v = 0 /\ gl' = gl /\ entries' = entries
      BY <1>7, <1>11, <2>2 DEF PostShipment
    <3> QED BY <1>4, <2>0, <3>1
  <2> QED BY <2>1, <2>2
<1>13. Types'
  <2>1. <<s, today>> \in Shipments \X (1..LastDay)
    BY <1>4
  <2> QED BY <1>1, <1>4, <1>7, <1>10, <1>12, <2>1 DEF Types
<1>14. RowsAgree'
  <2>1. RowAgrees(row)
    BY <1>2, <1>4, <1>7, <1>9 DEF RowAgrees, n
  <2> QED BY <1>4, <1>10, <2>1 DEF RowsAgree
<1>15. EntriesAgree'
  <2> SUFFICES ASSUME NEW u \in Shipments, NEW d \in Nat, <<u, d>> \in entries'
               PROVE  d = ship'[u].sent \/ d = ship'[u].got
    BY DEF EntriesAgree
  <2>1. CASE u = s
    BY <1>2, <1>9, <1>10, <1>12, <2>1
  <2>2. CASE u # s
    BY <1>4, <1>10, <1>12, <2>2 DEF EntriesAgree
  <2> QED BY <2>1, <2>2
<1>16. TransitsAgree(stock, ship)'
  <2> SUFFICES ASSUME NEW w \in Warehouses
               PROVE  t.inv[w].transit
                        = opening.inv[w].transit + SumFunctionOnSet(FromOf(ship', w), Shipments)
    BY <1>1, <1>7 DEF TransitsAgree
  <2>1. t.inv[w].transit = stock.inv[w].transit - Amount(n, w, {}) + Amount(n, w, {src})
    BY <1>7 DEF Shift
  <2>2. FromOf(ship, w)[s] = 0 /\ FromOf(ship', w)[s] = Amount(n, w, {src})
    BY <1>2, <1>4, <1>9, <1>10 DEF FromOf, IsAway, Amount
  <2>3. /\ SumFunctionOnSet(FromOf(ship', w), Shipments)
             = SumFunctionOnSet(FromOf(ship, w), Shipments) + FromOf(ship', w)[s] - FromOf(ship, w)[s]
        /\ SumFunctionOnSet(FromOf(ship, w), Shipments) \in Nat
    BY <1>4, <1>10, OneShipment
  <2>4. stock.inv[w].transit
          = opening.inv[w].transit + SumFunctionOnSet(FromOf(ship, w), Shipments)
    BY <1>4 DEF TransitsAgree
  <2>5. opening.inv[w].transit \in Nat
    BY <1>4, RowFacts
  <2>6. Amount(n, w, {}) = 0 /\ Amount(n, w, {src}) \in Nat
    BY <1>3 DEF Amount
  <2> QED BY <2>1, <2>2, <2>3, <2>4, <2>5, <2>6
<1>17. ReservedAgrees(stock, order)' /\ OrdersAgree' /\ Covered(stock')
  BY <1>1, <1>4, <1>7 DEF ReservedAgrees, OrdersAgree, Shift
<1>18. StockCore'
  BY <1>13, <1>14, <1>15, <1>16, <1>17 DEF StockCore
<1>19. GoodsNow(stock', adjusted') = GoodsNow(stock, adjusted)
  <2>1. \A adj : GoodsNow(t, adj) = GoodsNow(stock, adj)
    BY <1>3, <1>4, <1>7, GoodsShifted
  <2> QED BY <1>1, <1>7, <2>1
<1>20. (Single(ship') => Single(ship)) /\ (Delayed(ship') => Delayed(ship))
  BY <1>2, <1>4, <1>10, HistoryBack
<1>21. WorthAgrees(gl, ship) => WorthAgrees(gl', ship')
  <2>1. WorthOf(ship)[s] = 0 /\ WorthOf(ship')[s] = v
    BY <1>2, <1>4, <1>9, <1>10 DEF WorthOf, IsAway
  <2>2. /\ SumFunctionOnSet(WorthOf(ship'), Shipments)
             = SumFunctionOnSet(WorthOf(ship), Shipments) + WorthOf(ship')[s] - WorthOf(ship)[s]
        /\ SumFunctionOnSet(WorthOf(ship), Shipments) \in Nat
    BY <1>4, <1>10, OneShipment
  <2> QED BY <1>7, <1>12, <2>1, <2>2 DEF WorthAgrees
<1>22. Kept(stock, stock')
  BY <1>7 DEF Shift
<1> QED BY <1>7, <1>18, <1>19, <1>20, <1>21, <1>22 DEF Keeps

\* A form of one line is of that line.
LEMMA OneLine ==
  ASSUME NEW lines \in Seq(Nat \ {0}), Len(lines) = 1
  PROVE  SumLines(lines) = lines[1]
<1> DEFINE T(k) == SumFunctionOnSet(lines, 1..k)
<1>1. /\ SumLines(lines) = T(Len(lines)) /\ T(0) = 0 /\ \A i \in 1..Len(lines) : lines[i] \in Nat \ {0}
      /\ \A k \in 1..Len(lines) : T(k) = T(k - 1) + lines[k]
  BY LinesFacts
<1> HIDE DEF T
<1>2. 1 \in 1..Len(lines) /\ 1 - 1 = 0
  OBVIOUS
<1> QED BY <1>1, <1>2

\* Confirm keeps them: what was sent arrives, once.
LEMMA ConfirmKeeps ==
  ASSUME StockCore, NEW s \in Shipments, Confirm(s)
  PROVE  Keeps
<1> DEFINE old == ship[s]
           f == old.form
           src == f.src
           dst == f.dst
           n == SumLines(f.lines)
           acc == Received(s, stock, f.lines)
           new == [old EXCEPT !.status = "received", !.got = today]
<1>1. /\ old.status = "dispatched" /\ acc.ok /\ stock' = acc.stock
      /\ ship' = [ship EXCEPT ![s].status = "received", ![s].got = today]
      /\ PostShipment(s, dst, "transit", acc.value)
      /\ UNCHANGED <<opening, transfer, order, adjusted, today, cancels>>
  BY DEF Confirm, Underway, OthersUnchanged, Received
<1>2. /\ old \in ShipRows /\ RowAgrees(old) /\ f \in ShipmentForms
      /\ old.sent \in Nat /\ old.sent > 0 /\ old.got = 0 /\ old.moved = n
      /\ Content(old.rows) <= n /\ (Len(f.lines) = 0 => old.value = 0)
      /\ old.value \in Nat /\ old.rows \in Seq(Parts)
  <2>1. old \in ShipRows /\ RowAgrees(old)
    BY SentRowFacts
  <2> QED BY <1>1, <2>1 DEF RowAgrees, ShipRows
<1>3. /\ src \in Warehouses /\ dst \in Warehouses /\ src # dst
      /\ f.lines \in Seq(Nat \ {0}) /\ n \in Nat /\ Len(f.lines) \in Nat
  BY <1>2, FormFacts
<1>4. /\ stock \in Stocks /\ opening \in Stocks /\ ship \in [Shipments -> ShipRows]
      /\ gl \in [Accounts -> Int] /\ entries \subseteq Shipments \X (1..LastDay)
      /\ today \in 1..LastDay /\ LastDay \in Nat /\ RowsAgree /\ OrdersAgree /\ EntriesAgree
      /\ TransitsAgree(stock, ship) /\ ReservedAgrees(stock, order) /\ Covered(stock) /\ Types
  BY StockAssumption DEF StockCore, Types
<1> HIDE DEF n
<1>5. PICK row : row = old
  OBVIOUS
<1>6. /\ acc \in MoveAcc /\ ReceivedUpTo(row, stock, n, acc)
      /\ Len(f.lines) = 0 => acc.value = 0 /\ acc.stock = stock
      /\ Len(f.lines) = 1 /\ acc.ok =>
           /\ acc.value = row.value
           /\ Backed(stock) /\ Content(row.rows) <= f.lines[1] => Backed(acc.stock)
  <2>1. PICK lines : lines = f.lines
    OBVIOUS
  <2>2. OnItsWay(row)
    BY <1>2, <1>3, <1>5 DEF OnItsWay
  <2>3. row = ship[s] /\ row.moved = SumLines(lines) /\ lines \in Seq(Nat \ {0})
    BY <1>2, <1>3, <1>5, <2>1 DEF n
  <2>4. LET got == Received(s, stock, lines)
        IN /\ got \in MoveAcc
           /\ ReceivedUpTo(row, stock, SumLines(lines), got)
           /\ Len(lines) = 0 => got.value = 0 /\ got.stock = stock
           /\ Len(lines) = 1 /\ got.ok =>
                /\ got.value = row.value
                /\ Backed(stock) /\ Content(row.rows) <= lines[1] => Backed(got.stock)
    BY <1>4, <2>2, <2>3, ReceivedIs
  <2> HIDE DEF f
  <2> QED BY <2>1, <2>4 DEF n
<1>7. PICK v, t : v = acc.value /\ t = acc.stock
  OBVIOUS
<1>8. /\ v \in Nat /\ t \in Stocks /\ stock' = t
      /\ Shift(stock, t, n, {}, {dst}, {src}, {}) /\ Covered(t)
      /\ ~Repeats(f) => v = old.value /\ (Backed(stock) => Backed(t))
  <2>1. /\ v \in Nat /\ t \in Stocks /\ stock' = t
        /\ Shift(stock, t, n, {}, {dst}, {src}, {}) /\ Covered(t)
    BY <1>1, <1>4, <1>5, <1>6, <1>7 DEF MoveAcc, ReceivedUpTo
  <2>2. ASSUME Len(f.lines) = 1 PROVE v = old.value /\ (Backed(stock) => Backed(t))
    <3>1. n = f.lines[1]
      BY <1>3, <2>2, OneLine DEF n
    <3>2. Content(row.rows) <= f.lines[1]
      BY <1>2, <1>5, <3>1
    <3> QED BY <1>1, <1>5, <1>6, <1>7, <2>2, <3>2
  <2>3. ASSUME Len(f.lines) = 0 PROVE v = old.value /\ (Backed(stock) => Backed(t))
    <3>1. acc.value = 0 /\ acc.stock = stock
      BY <1>6, <2>3
    <3>2. old.value = 0
      BY <1>2, <2>3
    <3>3. v = 0 /\ t = stock
      BY <1>7, <3>1
    <3> QED BY <3>2, <3>3
  <2>4. ~Repeats(f) => Len(f.lines) = 0 \/ Len(f.lines) = 1
    <3>1. PICK k : k = Len(f.lines)
      OBVIOUS
    <3>2. k \in Nat /\ (Repeats(f) <=> k > 1)
      BY <1>3, <3>1 DEF Repeats
    <3>3. ~(k > 1) => k = 0 \/ k = 1
      BY <3>2
    <3> QED BY <3>1, <3>2, <3>3
  <2> QED BY <2>1, <2>2, <2>3, <2>4
<1>9. PICK next : next = new
  OBVIOUS
<1>10. /\ next \in ShipRows /\ next.status = "received" /\ next.moved = n /\ next.value = old.value
       /\ next.rows = old.rows /\ next.sent = old.sent /\ next.got = today /\ next.form = f
  <2>1. today \in Nat
    BY <1>4
  <2>2. /\ next \in ShipRows /\ next.status = "received" /\ next.moved = row.moved
        /\ next.value = row.value /\ next.rows = row.rows /\ next.sent = row.sent
        /\ next.got = today /\ next.form = row.form
    <3>1. row \in ShipRows /\ next = [row EXCEPT !.status = "received", !.got = today]
      BY <1>2, <1>5, <1>9
    <3> QED BY <2>1, <3>1 DEF ShipRows
  <2> QED BY <1>2, <1>5, <2>2
<1>11. /\ ship' \in [Shipments -> ShipRows] /\ ship'[s] = next
       /\ \A u \in Shipments \ {s} : ship'[u] = ship[u]
  <2>1. ship' = [ship EXCEPT ![s] = new]
    BY <1>1, <1>4
  <2> HIDE DEF new
  <2> QED BY <1>4, <1>9, <1>10, <2>1
<1> HIDE DEF acc, new
<1>12. PostShipment(s, dst, "transit", v)
  BY <1>1, <1>7
<1>13. /\ gl' \in [Accounts -> Int] /\ entries' \subseteq entries \cup {<<s, today>>}
       /\ NewEntry(s) => gl'["transit"] = gl["transit"] - v
  <2>0. /\ dst \in Accounts /\ dst # "transit" /\ "transit" \in Accounts
        /\ gl["transit"] \in Int /\ gl[dst] \in Int
    BY <1>3, <1>4, AccountFacts
  <2>1. CASE v > 0 /\ NewEntry(s)
    <3>1. gl' = [gl EXCEPT ![dst] = @ + v, !["transit"] = @ - v] /\ entries' = entries \cup {<<s, today>>}
      BY <1>12, <2>0, <2>1 DEF PostShipment, Post
    <3> QED BY <1>4, <1>8, <2>0, <3>1
  <2>2. CASE ~(v > 0 /\ NewEntry(s))
    <3>1. (v = 0 \/ ~NewEntry(s)) /\ gl' = gl /\ entries' = entries
      BY <1>8, <1>12, <2>2 DEF PostShipment
    <3> QED BY <1>4, <2>0, <3>1
  <2> QED BY <2>1, <2>2
<1>14. today \in Nat /\ today > 0
  BY <1>4
<1>15. Types'
  <2>1. <<s, today>> \in Shipments \X (1..LastDay)
    BY <1>4
  <2> QED BY <1>1, <1>4, <1>8, <1>11, <1>13, <2>1 DEF Types
<1>16. RowsAgree'
  <2>1. RowAgrees(next)
    BY <1>2, <1>10, <1>14 DEF RowAgrees, n
  <2> QED BY <1>4, <1>11, <2>1 DEF RowsAgree
<1>17. EntriesAgree'
  <2> SUFFICES ASSUME NEW u \in Shipments, NEW d \in Nat, <<u, d>> \in entries'
               PROVE  d = ship'[u].sent \/ d = ship'[u].got
    BY DEF EntriesAgree
  <2>1. CASE u = s
    <3>1. CASE <<s, d>> \in entries
      <4>1. d # 0
        BY <1>4, <3>1
      <4> QED BY <1>2, <1>4, <1>10, <1>11, <2>1, <3>1, <4>1 DEF EntriesAgree
    <3>2. CASE <<s, d>> \notin entries
      BY <1>10, <1>11, <1>13, <2>1, <3>2
    <3> QED BY <3>1, <3>2
  <2>2. CASE u # s
    BY <1>4, <1>11, <1>13, <2>2 DEF EntriesAgree
  <2> QED BY <2>1, <2>2
<1>18. TransitsAgree(stock, ship)'
  <2> SUFFICES ASSUME NEW w \in Warehouses
               PROVE  t.inv[w].transit
                        = opening.inv[w].transit + SumFunctionOnSet(FromOf(ship', w), Shipments)
    BY <1>1, <1>8 DEF TransitsAgree
  <2>1. t.inv[w].transit = stock.inv[w].transit - Amount(n, w, {src}) + Amount(n, w, {})
    BY <1>8 DEF Shift
  <2>2. FromOf(ship', w)[s] = 0 /\ FromOf(ship, w)[s] = Amount(n, w, {src})
    BY <1>2, <1>4, <1>10, <1>11, <1>14 DEF FromOf, IsAway, Amount
  <2>3. /\ SumFunctionOnSet(FromOf(ship', w), Shipments)
             = SumFunctionOnSet(FromOf(ship, w), Shipments) + FromOf(ship', w)[s] - FromOf(ship, w)[s]
        /\ SumFunctionOnSet(FromOf(ship, w), Shipments) \in Nat
    BY <1>4, <1>11, OneShipment
  <2>4. stock.inv[w].transit
          = opening.inv[w].transit + SumFunctionOnSet(FromOf(ship, w), Shipments)
    BY <1>4 DEF TransitsAgree
  <2>5. opening.inv[w].transit \in Nat
    BY <1>4, RowFacts
  <2>6. Amount(n, w, {}) = 0 /\ Amount(n, w, {src}) \in Nat
    BY <1>3 DEF Amount
  <2> QED BY <2>1, <2>2, <2>3, <2>4, <2>5, <2>6
<1>19. ReservedAgrees(stock, order)' /\ OrdersAgree' /\ Covered(stock')
  BY <1>1, <1>4, <1>8 DEF ReservedAgrees, OrdersAgree, Shift
<1>20. StockCore'
  BY <1>15, <1>16, <1>17, <1>18, <1>19 DEF StockCore
<1>21. GoodsNow(stock', adjusted') = GoodsNow(stock, adjusted)
  <2>1. \A adj : GoodsNow(t, adj) = GoodsNow(stock, adj)
    BY <1>3, <1>4, <1>8, GoodsShifted
  <2> QED BY <1>1, <1>8, <2>1
<1>22. (Single(ship') => Single(ship)) /\ (Delayed(ship') => Delayed(ship))
  BY <1>2, <1>4, <1>11, HistoryBack
<1>23. Single(ship') => (Backed(stock) => Backed(stock'))
  BY <1>8, <1>10, <1>11, <1>14 DEF Single
<1>24. ASSUME Delayed(ship'), WorthAgrees(gl, ship) PROVE WorthAgrees(gl', ship')
  <2>1. ~Repeats(f) /\ today > old.sent
    BY <1>10, <1>11, <1>14, <1>24 DEF Delayed
  <2>2. NewEntry(s)
    <3>1. <<s, today>> \in entries => today = old.sent \/ today = old.got
      BY <1>4, <1>14 DEF EntriesAgree
    <3> QED BY <1>2, <1>14, <2>1, <3>1 DEF NewEntry
  <2>3. WorthOf(ship')[s] = 0 /\ WorthOf(ship)[s] = v
    BY <1>2, <1>4, <1>8, <1>10, <1>11, <1>14, <2>1 DEF WorthOf, IsAway
  <2>4. /\ SumFunctionOnSet(WorthOf(ship'), Shipments)
             = SumFunctionOnSet(WorthOf(ship), Shipments) + WorthOf(ship')[s] - WorthOf(ship)[s]
        /\ SumFunctionOnSet(WorthOf(ship), Shipments) \in Nat
    BY <1>4, <1>11, OneShipment
  <2> QED BY <1>8, <1>13, <1>24, <2>2, <2>3, <2>4 DEF WorthAgrees
<1>25. Kept(stock, stock')
  BY <1>8 DEF Shift
<1> QED BY <1>8, <1>20, <1>21, <1>22, <1>23, <1>24, <1>25 DEF Keeps

\* A step that leaves the shipments alone.
LEMMA ShipsApart ==
  ASSUME StockCore, UNCHANGED <<opening, ship, cancels, entries>>, stock' \in Stocks,
         Kept(stock, stock'),
         \A w \in Warehouses : stock'.inv[w].transit = stock.inv[w].transit,
         transfer' \in [Transfers -> TransferRows], order' \in [Orders -> OrderRows],
         adjusted' \in Seq(Int), gl' \in [Accounts -> Int], gl'["transit"] = gl["transit"],
         today' \in 1..LastDay,
         OrdersAgree', ReservedAgrees(stock', order'), Covered(stock'),
         GoodsNow(stock', adjusted') = GoodsNow(stock, adjusted),
         Backed(stock) => Backed(stock')
  PROVE  Keeps
<1>1. Types'
  BY DEF StockCore, Types
<1>2. RowsAgree' /\ EntriesAgree'
  BY DEF StockCore, RowsAgree, EntriesAgree
<1>3. TransitsAgree(stock, ship)'
  BY DEF StockCore, TransitsAgree
<1>4. StockCore'
  BY <1>1, <1>2, <1>3 DEF StockCore
<1>5. WorthAgrees(gl, ship) => WorthAgrees(gl', ship')
  BY DEF WorthAgrees
<1> QED BY <1>4, <1>5 DEF Keeps

\* ... and neither the orders.
LEMMA OrdersApart ==
  ASSUME StockCore, UNCHANGED <<opening, ship, cancels, entries, order>>, stock' \in Stocks,
         Kept(stock, stock'),
         \A w \in Warehouses : /\ stock'.inv[w].transit = stock.inv[w].transit
                               /\ stock'.inv[w].reserved = stock.inv[w].reserved,
         transfer' \in [Transfers -> TransferRows],
         adjusted' \in Seq(Int), gl' \in [Accounts -> Int], gl'["transit"] = gl["transit"],
         today' \in 1..LastDay, Covered(stock'),
         GoodsNow(stock', adjusted') = GoodsNow(stock, adjusted),
         Backed(stock) => Backed(stock')
  PROVE  Keeps
<1>1. OrdersAgree' /\ order' \in [Orders -> OrderRows]
  BY DEF StockCore, Types, OrdersAgree
<1>2. ReservedAgrees(stock', order')
  BY DEF StockCore, ReservedAgrees
<1> QED BY <1>1, <1>2, ShipsApart

\* TransferLookup keeps them: nothing but the request changes.
LEMMA TransferLookupKeeps ==
  ASSUME StockCore, NEW t \in Transfers, TransferLookup(t)
  PROVE  Keeps
<1>1. /\ UNCHANGED <<stock, opening, ship, cancels, entries, order, adjusted, gl, today>>
      /\ Types /\ Covered(stock)
  BY DEF TransferLookup, ShippingUnchanged, StockCore
<1>2. PICK at \in {"replayed", "moving"} : transfer' = [transfer EXCEPT ![t].at = at]
  BY DEF TransferLookup
<1>3. transfer' \in [Transfers -> TransferRows]
  BY <1>1, <1>2 DEF Types, TransferRows
<1>4. /\ stock' \in Stocks /\ adjusted' \in Seq(Int) /\ gl' \in [Accounts -> Int] /\ today' \in 1..LastDay
  BY <1>1 DEF Types
<1>5. Covered(stock') /\ GoodsNow(stock', adjusted') = GoodsNow(stock, adjusted)
      /\ (Backed(stock) => Backed(stock')) /\ gl'["transit"] = gl["transit"]
      /\ \A w \in Warehouses : /\ stock'.inv[w].transit = stock.inv[w].transit
                               /\ stock'.inv[w].reserved = stock.inv[w].reserved
  BY <1>1
<1>9. Kept(stock, stock')
  BY <1>1, KeptFacts DEF Types
<1> QED BY <1>1, <1>3, <1>4, <1>5, <1>9, OrdersApart

\* TransferMove keeps them: the goods go from shelf to shelf.
LEMMA TransferMoveKeeps ==
  ASSUME StockCore, NEW u \in Transfers, TransferMove(u)
  PROVE  Keeps
<1>1. /\ UNCHANGED <<opening, ship, cancels, entries, order, adjusted, today>>
      /\ Types /\ Covered(stock)
  BY DEF TransferMove, ShippingUnchanged, StockCore
<1>2. PICK f \in TransferForms :
        /\ Moved(f).ok /\ stock' = Moved(f).stock
        /\ transfer' = [transfer EXCEPT ![u] = [at |-> "done", form |-> f]]
        /\ IF Moved(f).value > 100 THEN Post(f.dst, f.src, Moved(f).value) ELSE UNCHANGED gl
  BY DEF TransferMove
<1>3. Moved(f) = MovedLines(f, stock, f.lines)
  BY DEF Moved, MovedLines
<1>4. /\ f.src \in Warehouses /\ f.dst \in Warehouses /\ f.src # f.dst
      /\ f.lines \in Seq(Nat \ {0}) /\ SumLines(f.lines) \in Nat
  BY FormFacts
<1>5. PICK n, acc : n = SumLines(f.lines) /\ acc = Moved(f)
  OBVIOUS
<1>6. stock \in Stocks
  BY <1>1 DEF Types
<1>7. acc \in MoveAcc /\ MovedUpTo(f, stock, n, acc)
  <2>1. PICK lines : lines = f.lines
    OBVIOUS
  <2>2. /\ MovedLines(f, stock, lines) \in MoveAcc
        /\ MovedUpTo(f, stock, SumLines(lines), MovedLines(f, stock, lines))
    BY <1>4, <1>6, <2>1, MovedIs
  <2> QED BY <1>3, <1>5, <2>1, <2>2
<1>8. PICK t, v : t = acc.stock /\ v = acc.value
  OBVIOUS
<1>9. /\ t \in Stocks /\ v \in Nat /\ n \in Nat /\ stock' = t
      /\ Shift(stock, t, n, {f.src}, {f.dst}, {}, {})
      /\ Covered(t) /\ (Backed(stock) => Backed(t))
  BY <1>1, <1>2, <1>4, <1>5, <1>7, <1>8 DEF MoveAcc, MovedUpTo
<1>10. transfer' \in [Transfers -> TransferRows]
  BY <1>1, <1>2 DEF Types, TransferRows
<1>11. gl' \in [Accounts -> Int] /\ gl'["transit"] = gl["transit"]
  <2>1. /\ gl \in [Accounts -> Int] /\ f.src \in Accounts /\ f.dst \in Accounts
        /\ f.src # "transit" /\ f.dst # "transit" /\ "transit" \in Accounts
    BY <1>1, <1>4, AccountFacts DEF Types
  <2>2. CASE v > 100
    <3>1. gl' = [gl EXCEPT ![f.dst] = @ + v, ![f.src] = @ - v]
      BY <1>2, <1>5, <1>8, <2>2 DEF Post
    <3> QED BY <1>4, <1>9, <2>1, <3>1
  <2>3. CASE ~(v > 100)
    BY <1>2, <1>5, <1>8, <2>1, <2>3
  <2> QED BY <2>2, <2>3
<1>12. GoodsNow(stock', adjusted') = GoodsNow(stock, adjusted)
  <2>1. \A adj : GoodsNow(t, adj) = GoodsNow(stock, adj)
    BY <1>4, <1>6, <1>9, GoodsShifted
  <2> QED BY <1>1, <1>9, <2>1
<1>13. ASSUME NEW w \in Warehouses
       PROVE  /\ stock'.inv[w].transit = stock.inv[w].transit
              /\ stock'.inv[w].reserved = stock.inv[w].reserved
  <2>1. /\ stock'.inv[w].transit = stock.inv[w].transit - Amount(n, w, {}) + Amount(n, w, {})
        /\ stock'.inv[w].reserved = stock.inv[w].reserved
    BY <1>9 DEF Shift
  <2>2. stock.inv[w].transit \in Nat /\ Amount(n, w, {}) = 0
    BY <1>6, RowFacts DEF Amount
  <2> QED BY <2>1, <2>2
<1>14. /\ stock' \in Stocks /\ adjusted' \in Seq(Int) /\ today' \in 1..LastDay /\ Covered(stock')
       /\ Backed(stock) => Backed(stock')
  BY <1>1, <1>9 DEF Types
<1>15. Kept(stock, stock')
  BY <1>9 DEF Shift
<1> QED BY <1>1, <1>10, <1>11, <1>12, <1>13, <1>14, <1>15, OrdersApart

\* NextDay keeps them.
LEMMA NextDayKeeps ==
  ASSUME StockCore, NextDay
  PROVE  Keeps
<1>1. /\ UNCHANGED <<stock, opening, ship, cancels, transfer, order, adjusted, gl, entries>>
      /\ Types /\ Covered(stock)
  BY DEF NextDay, ShippingUnchanged, StockCore
<1>2. today' \in 1..LastDay
  BY <1>1, StockAssumption DEF NextDay, Types
<1>3. /\ stock' \in Stocks /\ adjusted' \in Seq(Int) /\ gl' \in [Accounts -> Int]
      /\ transfer' \in [Transfers -> TransferRows]
  BY <1>1 DEF Types
<1>4. Covered(stock') /\ GoodsNow(stock', adjusted') = GoodsNow(stock, adjusted)
      /\ (Backed(stock) => Backed(stock')) /\ gl'["transit"] = gl["transit"]
      /\ \A w \in Warehouses : /\ stock'.inv[w].transit = stock.inv[w].transit
                               /\ stock'.inv[w].reserved = stock.inv[w].reserved
  BY <1>1
<1>9. Kept(stock, stock')
  BY <1>1, KeptFacts DEF Types
<1> QED BY <1>1, <1>2, <1>3, <1>4, <1>9, OrdersApart

\* A step that changes nothing keeps them.
LEMMA NothingKeeps ==
  ASSUME StockCore, UNCHANGED vars
  PROVE  Keeps
<1>1. /\ UNCHANGED <<stock, opening, ship, cancels, transfer, order, adjusted, gl, entries, today>>
      /\ Types /\ Covered(stock)
  BY DEF vars, StockCore
<1>3. /\ stock' \in Stocks /\ adjusted' \in Seq(Int) /\ gl' \in [Accounts -> Int]
      /\ transfer' \in [Transfers -> TransferRows] /\ today' \in 1..LastDay
  BY <1>1 DEF Types
<1>4. Covered(stock') /\ GoodsNow(stock', adjusted') = GoodsNow(stock, adjusted)
      /\ (Backed(stock) => Backed(stock')) /\ gl'["transit"] = gl["transit"]
      /\ \A w \in Warehouses : /\ stock'.inv[w].transit = stock.inv[w].transit
                               /\ stock'.inv[w].reserved = stock.inv[w].reserved
  BY <1>1
<1>9. Kept(stock, stock')
  BY <1>1, KeptFacts DEF Types
<1> QED BY <1>1, <1>3, <1>4, <1>9, OrdersApart

\* Cents of a whole value.
LEMMA CentsInt == \A v \in Nat : Cents(v) \in Int
<1> SUFFICES ASSUME NEW v \in Nat PROVE Cents(v) \in Int
  OBVIOUS
<1>1. HalfUp(v, 100) \in Nat
  BY HalfUpNat
<1> QED BY <1>1 DEF Cents

\* A stock with another quantity in one warehouse.
SetQty(x, w, q) == [x EXCEPT !.inv[w].qty = q]

QtyMoves(st, x, t, w, q, d) ==
  /\ t \in Stocks /\ t.layers = x.layers
  /\ q = st.inv[w].qty + d => Shift(st, t, d, {}, {w}, {}, {})
  /\ q = st.inv[w].qty - d => Shift(st, t, d, {w}, {}, {}, {})

\* What setting the quantity of a row does to the sums.
LEMMA QtySet ==
  ASSUME NEW st \in Stocks, NEW x \in Stocks, SameGoods(st, x), Kept(st, x),
         NEW w \in Warehouses, NEW q \in Nat, NEW d \in Nat,
         NEW t, t = SetQty(x, w, q)
  PROVE  QtyMoves(st, x, t, w, q, d)
<1>1. PICK inv : inv = [x.inv EXCEPT ![w].qty = q]
  OBVIOUS
<1>2. x.inv \in [Warehouses -> Row]
  BY RowFacts
<1>3. inv \in [Warehouses -> Row]
  BY <1>1, <1>2 DEF Row
<1>4. \A v \in Warehouses :
        /\ inv[v].qty = IF v = w THEN q ELSE x.inv[v].qty
        /\ inv[v].transit = x.inv[v].transit /\ inv[v].reserved = x.inv[v].reserved
        /\ inv[v].damaged = x.inv[v].damaged
  BY <1>1, <1>2 DEF Row
<1>5. t \in Stocks /\ t.layers = x.layers /\ t.inv = inv
  <2>1. t = [x EXCEPT !.inv = inv]
    BY <1>1, <1>2 DEF Stocks, SetQty
  <2> QED BY <1>3, <2>1 DEF Stocks
<1>6. ASSUME NEW v \in Warehouses
      PROVE  /\ st.inv[v].qty \in Nat /\ st.inv[v].transit \in Nat
             /\ t.inv[v].qty = IF v = w THEN q ELSE st.inv[v].qty
             /\ t.inv[v].transit = st.inv[v].transit /\ t.inv[v].reserved = st.inv[v].reserved
             /\ t.inv[v].damaged = st.inv[v].damaged
  <2>1. st.inv[v].qty \in Nat /\ st.inv[v].transit \in Nat
    BY RowFacts
  <2> QED BY <1>4, <1>5, <2>1 DEF SameGoods
<1>0. Kept(st, t)
  <2>1. Kept(x, t)
    BY <1>5, KeptFacts
  <2> QED BY <1>5, <2>1, KeptFacts
<1>7. ASSUME q = st.inv[w].qty + d PROVE Shift(st, t, d, {}, {w}, {}, {})
  <2> SUFFICES ASSUME NEW v \in Warehouses
               PROVE  /\ t.inv[v].qty = st.inv[v].qty - Amount(d, v, {}) + Amount(d, v, {w})
                      /\ t.inv[v].transit = st.inv[v].transit - Amount(d, v, {}) + Amount(d, v, {})
    BY <1>0, <1>6 DEF Shift
  <2> QED BY <1>6, <1>7 DEF Amount
<1>8. ASSUME q = st.inv[w].qty - d PROVE Shift(st, t, d, {w}, {}, {}, {})
  <2> SUFFICES ASSUME NEW v \in Warehouses
               PROVE  /\ t.inv[v].qty = st.inv[v].qty - Amount(d, v, {w}) + Amount(d, v, {})
                      /\ t.inv[v].transit = st.inv[v].transit - Amount(d, v, {}) + Amount(d, v, {})
    BY <1>0, <1>6 DEF Shift
  <2> QED BY <1>6, <1>8 DEF Amount
<1> QED BY <1>5, <1>7, <1>8 DEF QtyMoves

\* What a shift on the shelves alone leaves.
LEMMA ShelfShift ==
  ASSUME NEW st \in Stocks, NEW t \in Stocks, NEW d \in Nat, NEW w \in Warehouses
  PROVE  /\ Shift(st, t, d, {}, {w}, {}, {}) =>
              OnHand(t) + InTransit(t) = OnHand(st) + InTransit(st) + d
         /\ Shift(st, t, d, {w}, {}, {}, {}) =>
              OnHand(t) + InTransit(t) + d = OnHand(st) + InTransit(st)
         /\ \A less, more : Shift(st, t, d, less, more, {}, {}) =>
              \A v \in Warehouses : /\ t.inv[v].transit = st.inv[v].transit
                                    /\ t.inv[v].reserved = st.inv[v].reserved
         /\ OnHand(t) \in Nat /\ InTransit(t) \in Nat
<1> DEFINE all(at) == SumFunctionOnSet([v \in Warehouses |-> Amount(d, v, at)], Warehouses)
<1>1. all({w}) = d /\ all({}) = 0
  BY SpotSum
<1>2. \A less, more, off, on : Shift(st, t, d, less, more, off, on) =>
        /\ OnHand(st) \in Nat /\ InTransit(st) \in Nat
        /\ OnHand(t) + all(less) = OnHand(st) + all(more)
        /\ InTransit(t) + all(off) = InTransit(st) + all(on)
  BY ShiftTotals
<1>3. OnHand(t) \in Nat /\ InTransit(t) \in Nat
  <2>1. Shift(t, t, 0, {}, {}, {}, {})
    BY ShiftNone
  <2>2. 0 \in Nat
    OBVIOUS
  <2> QED BY <2>1, <2>2, ShiftTotals
<1> HIDE DEF all
<1>4. ASSUME Shift(st, t, d, {}, {w}, {}, {})
      PROVE  OnHand(t) + InTransit(t) = OnHand(st) + InTransit(st) + d
  <2>1. /\ OnHand(st) \in Nat /\ InTransit(st) \in Nat
        /\ OnHand(t) + 0 = OnHand(st) + d /\ InTransit(t) + 0 = InTransit(st) + 0
    BY <1>1, <1>2, <1>4
  <2> QED BY <1>3, <2>1
<1>5. ASSUME Shift(st, t, d, {w}, {}, {}, {})
      PROVE  OnHand(t) + InTransit(t) + d = OnHand(st) + InTransit(st)
  <2>1. /\ OnHand(st) \in Nat /\ InTransit(st) \in Nat
        /\ OnHand(t) + d = OnHand(st) + 0 /\ InTransit(t) + 0 = InTransit(st) + 0
    BY <1>1, <1>2, <1>5
  <2> QED BY <1>3, <2>1
<1>6. ASSUME NEW less, NEW more, Shift(st, t, d, less, more, {}, {}), NEW v \in Warehouses
      PROVE  t.inv[v].transit = st.inv[v].transit /\ t.inv[v].reserved = st.inv[v].reserved
  <2>1. /\ t.inv[v].transit = st.inv[v].transit - Amount(d, v, {}) + Amount(d, v, {})
        /\ t.inv[v].reserved = st.inv[v].reserved
    BY <1>6 DEF Shift
  <2>2. st.inv[v].transit \in Nat /\ Amount(d, v, {}) = 0
    BY RowFacts DEF Amount
  <2> QED BY <2>1, <2>2
<1> QED BY <1>3, <1>4, <1>5, <1>6

\* Adjustments sum to integers, and one more adds what it is.
LEMMA AdjustedSum ==
  ASSUME NEW adj \in Seq(Int), NEW d \in Int
  PROVE  /\ SumLines(adj) \in Int /\ Append(adj, d) \in Seq(Int)
         /\ SumLines(Append(adj, d)) = SumLines(adj) + d
<1> DEFINE n == Len(adj)
           new == Append(adj, d)
<1>1. n \in Nat /\ DOMAIN adj = 1..n /\ IsFiniteSet(DOMAIN adj) /\ \A i \in 1..n : adj[i] \in Int
  BY Elements
<1>2. /\ new \in Seq(Int) /\ Len(new) = n + 1 /\ new[n + 1] = d
      /\ \A i \in 1..n : new[i] = adj[i]
  BY Appended
<1>3. DOMAIN new = 1..(n + 1)
  BY <1>2, Elements
<1> HIDE DEF n, new
<1>4. SumFunctionOnSet(new, 1..(n + 1)) = SumFunctionOnSet(adj, 1..n) + d
  BY <1>1, <1>2, SumAppended
<1>5. SumFunctionOnSet(adj, 1..n) \in Int
  BY <1>1, SumType
<1> QED BY <1>1, <1>2, <1>3, <1>4, <1>5 DEF SumLines, SumFunction, new

\* The stock after a count above the books.
Shelved(st, t, d, less, more) ==
  /\ t \in Stocks /\ Shift(st, t, d, less, more, {}, {})
  /\ Covered(st) => Covered(t)
  /\ Backed(st) => Backed(t)

Grown(st, w, d, cost) ==
  IF Layered(st)
  THEN CreateLayers(UpdateCost(st, w, d, cost, 1), w, <<[qty |-> d, cost |-> cost]>>, <<>>)
  ELSE UpdateCost(st, w, d, cost, 1)

\* A count that finds more puts the difference on the shelf.
LEMMA RaisedIs ==
  ASSUME NEW st \in Stocks, NEW w \in Warehouses, NEW d \in Nat \ {0}, NEW cost \in Nat, NEW t,
         t = SetQty(Grown(st, w, d, cost), w, st.inv[w].qty + d)
  PROVE  Shelved(st, t, d, {}, {w})
<1> DEFINE rows == <<[qty |-> d, cost |-> cost]>>
           raised == UpdateCost(st, w, d, cost, 1)
           grown == IF Layered(st) THEN CreateLayers(raised, w, rows, <<>>) ELSE raised
<1>1. raised \in Stocks /\ raised.layers = st.layers /\ SameGoods(st, raised)
  <2>1. 1 \in Nat \ {0}
    OBVIOUS
  <2> QED BY <2>1, UpdateCostKeeps
<1>0. Kept(st, raised)
  <2> HIDE DEF raised
  <2> QED BY <1>1, KeptFacts
<1>2. /\ \A v \in Warehouses : LayerStock(raised, v) = LayerStock(st, v) /\ LayerStock(st, v) \in Nat
  <2> HIDE DEF raised
  <2> QED BY <1>1, SameLayers, LayerFacts
<1>3. rows \in Seq(Parts) /\ Content(rows) = d
  <2>1. [qty |-> d, cost |-> cost] \in Parts
    BY DEF Parts
  <2>2. PICK p : p = [qty |-> d, cost |-> cost]
    OBVIOUS
  <2>3. rows = Append(<<>>, p) /\ <<>> \in Seq(Parts) /\ p \in Parts /\ p.qty = d
    BY <2>1, <2>2
  <2>4. Qty \in [Parts -> Int] /\ Qty[p] = d
    BY <2>3 DEF Qty, Parts
  <2>5. Weight(Append(<<>>, p), Qty) = Weight(<<>>, Qty) + Qty[p]
    BY <2>3, <2>4, WeightAppended, ZenonT(40)
  <2>6. Weight(<<>>, Qty) = 0
    BY WeightNone
  <2>7. Append(<<>>, p) \in Seq(Parts)
    BY <2>3, Appended
  <2> QED BY <2>3, <2>4, <2>5, <2>6, <2>7 DEF Content
<1> HIDE DEF raised, rows
<1>4. /\ grown \in Stocks /\ SameGoods(st, grown) /\ Kept(st, grown)
      /\ LayerStock(grown, w) <= LayerStock(st, w) + d
      /\ \A v \in Warehouses : v # w => LayerStock(grown, v) = LayerStock(st, v)
  <2>1. CASE Layered(st)
    <3>1. PICK g : g = CreateLayers(raised, w, rows, <<>>)
      OBVIOUS
    <3>2. /\ g \in Stocks /\ g.inv = raised.inv /\ Kept(raised, g)
          /\ LayerStock(g, w) = LayerStock(raised, w) + Content(rows)
          /\ \A v \in Warehouses : v # w => LayerStock(g, v) = LayerStock(raised, v)
      BY <1>1, <1>3, <3>1, Created
    <3>3. grown = g
      BY <2>1, <3>1
    <3>4. SameGoods(st, g)
      BY <1>1, <3>2 DEF SameGoods
    <3>5. Kept(st, g)
      BY <1>0, <1>1, <3>2, KeptFacts
    <3> HIDE DEF grown
    <3> QED BY <1>2, <1>3, <3>2, <3>3, <3>4, <3>5
  <2>2. CASE ~Layered(st)
    <3>1. grown = raised
      BY <2>2
    <3> HIDE DEF grown
    <3> QED BY <1>0, <1>1, <1>2, <3>1
  <2> QED BY <2>1, <2>2
<1>5. PICK g, q : g = grown /\ q = st.inv[w].qty + d
  OBVIOUS
<1>6. /\ t = SetQty(g, w, q) /\ q \in Nat /\ q = st.inv[w].qty + d
      /\ st.inv[w].qty \in Nat /\ d \in Nat
  <2>1. st.inv[w].qty \in Nat
    BY RowFacts
  <2>2. t = SetQty(g, w, q)
    BY <1>5 DEF raised, rows, Grown
  <2> QED BY <1>5, <2>1, <2>2
<1>7. /\ g \in Stocks /\ SameGoods(st, g) /\ Kept(st, g) /\ LayerStock(g, w) <= LayerStock(st, w) + d
      /\ \A v \in Warehouses : v # w => LayerStock(g, v) = LayerStock(st, v)
  <2> HIDE DEF grown
  <2> QED BY <1>4, <1>5
<1> HIDE DEF grown
<1>8. t \in Stocks /\ t.layers = g.layers /\ Shift(st, t, d, {}, {w}, {}, {})
  <2>1. QtyMoves(st, g, t, w, q, d)
    BY <1>6, <1>7, QtySet
  <2> QED BY <1>6, <2>1 DEF QtyMoves
<1>9. \A v \in Warehouses : /\ t.inv[v].qty = st.inv[v].qty + (IF v = w THEN d ELSE 0)
                            /\ t.inv[v].reserved = st.inv[v].reserved
                            /\ st.inv[v].qty \in Nat /\ st.inv[v].reserved \in Nat
                            /\ LayerStock(t, v) = LayerStock(g, v) /\ LayerStock(g, v) \in Nat
  <2> SUFFICES ASSUME NEW v \in Warehouses
               PROVE  /\ t.inv[v].qty = st.inv[v].qty + (IF v = w THEN d ELSE 0)
                      /\ t.inv[v].reserved = st.inv[v].reserved
                      /\ st.inv[v].qty \in Nat /\ st.inv[v].reserved \in Nat
                      /\ LayerStock(t, v) = LayerStock(g, v) /\ LayerStock(g, v) \in Nat
    OBVIOUS
  <2>1. st.inv[v].qty \in Nat /\ st.inv[v].reserved \in Nat
    BY RowFacts
  <2>2. /\ t.inv[v].qty = st.inv[v].qty - Amount(d, v, {}) + Amount(d, v, {w})
        /\ t.inv[v].reserved = st.inv[v].reserved
    BY <1>8 DEF Shift
  <2>3. Amount(d, v, {}) = 0 /\ Amount(d, v, {w}) = IF v = w THEN d ELSE 0
    BY DEF Amount
  <2>4. LayerStock(t, v) = LayerStock(g, v) /\ LayerStock(g, v) \in Nat
    <3>1. LayerStock(g, v) \in Nat
      BY <1>7, LayerFacts
    <3>2. LayerStock(t, v) = LayerStock(g, v)
      BY <1>7, <1>8, SameLayers
    <3> QED BY <3>1, <3>2
  <2> QED BY <2>1, <2>2, <2>3, <2>4
<1>10. Covered(st) => Covered(t)
  BY <1>9 DEF Covered
<1>11. Backed(st) => Backed(t)
  <2> SUFFICES ASSUME Backed(st), NEW v \in Warehouses PROVE LayerStock(t, v) <= t.inv[v].qty
    BY DEF Backed
  <2>1. LayerStock(st, v) <= st.inv[v].qty /\ LayerStock(st, v) \in Nat
    BY <1>2 DEF Backed
  <2>2. CASE v = w
    BY <1>7, <1>9, <2>1, <2>2
  <2>3. CASE v # w
    BY <1>7, <1>9, <2>1, <2>3
  <2> QED BY <2>2, <2>3
<1> QED BY <1>8, <1>10, <1>11 DEF Shelved

\* The stock after an issue of d pieces that are free.
LEMMA IssuedIs ==
  ASSUME NEW st \in Stocks, NEW w \in Warehouses, NEW d \in Nat, NEW cost \in Nat,
         Issue(st, w, d, cost).ok, Free(st.inv[w]) - d >= 0, NEW t,
         t = SetQty(Issue(st, w, d, cost).stock, w, st.inv[w].qty - d)
  PROVE  Shelved(st, t, d, {w}, {})
<1> DEFINE issue == Issue(st, w, d, cost)
<1>1. PICK g, q : g = issue.stock /\ q = st.inv[w].qty - d
  OBVIOUS
<1>2. /\ g \in Stocks /\ g.inv = st.inv /\ Len(g.layers) = Len(st.layers)
      /\ LayerStock(g, w) = LayerStock(st, w) - (IF Layered(st) THEN d ELSE 0)
      /\ \A v \in Warehouses : v # w => LayerStock(g, v) = LayerStock(st, v)
  BY <1>1, IssueIs
<1>3. t = SetQty(g, w, q)
  BY <1>1
<1> HIDE DEF issue
<1>4. /\ \A v \in Warehouses : /\ st.inv[v].qty \in Nat /\ st.inv[v].reserved \in Nat
                               /\ LayerStock(st, v) \in Nat /\ LayerStock(g, v) \in Nat
      /\ SameGoods(st, g)
  BY <1>2, RowFacts, LayerFacts DEF SameGoods
<1>5. st.inv[w].qty - st.inv[w].reserved - d >= 0
  BY DEF Free
<1>6. q \in Nat /\ st.inv[w].reserved <= q
  <2>1. PICK a, r : a = st.inv[w].qty /\ r = st.inv[w].reserved
    OBVIOUS
  <2>2. a \in Nat /\ r \in Nat /\ (a - r) - d >= 0 /\ q = a - d
    BY <1>1, <1>4, <1>5, <2>1
  <2>3. q \in Nat /\ r <= q
    BY <2>2
  <2> QED BY <2>1, <2>3
<1>7. t \in Stocks /\ t.layers = g.layers /\ Shift(st, t, d, {w}, {}, {}, {})
  <2>1. Kept(st, g)
    BY <1>2, KeptFacts
  <2>2. QtyMoves(st, g, t, w, q, d)
    BY <1>2, <1>3, <1>4, <1>6, <2>1, QtySet
  <2> QED BY <1>1, <2>2 DEF QtyMoves
<1>8. ASSUME NEW v \in Warehouses
      PROVE  /\ t.inv[v].qty = IF v = w THEN q ELSE st.inv[v].qty
             /\ t.inv[v].reserved = st.inv[v].reserved
             /\ LayerStock(t, v) = LayerStock(g, v)
  <2>1. /\ t.inv[v].qty = st.inv[v].qty - Amount(d, v, {w}) + Amount(d, v, {})
        /\ t.inv[v].reserved = st.inv[v].reserved
    BY <1>7 DEF Shift
  <2>2. LayerStock(t, v) = LayerStock(g, v)
    BY <1>2, <1>7, SameLayers
  <2>3. t.inv[v].qty = IF v = w THEN q ELSE st.inv[v].qty
    BY <1>1, <1>4, <2>1 DEF Amount
  <2> QED BY <2>1, <2>2, <2>3
<1>9. Covered(st) => Covered(t)
  BY <1>6, <1>8 DEF Covered
<1>10. Backed(st) => Backed(t)
  <2> SUFFICES ASSUME Backed(st), NEW v \in Warehouses PROVE LayerStock(t, v) <= t.inv[v].qty
    BY DEF Backed
  <2>1. LayerStock(st, v) <= st.inv[v].qty
    BY DEF Backed
  <2>2. CASE v # w
    BY <1>2, <1>8, <2>1, <2>2
  <2>3. CASE v = w /\ Layered(st)
    BY <1>1, <1>2, <1>4, <1>8, <2>1, <2>3
  <2>4. CASE v = w /\ ~Layered(st)
    <3>1. LayerStock(st, w) = 0
      BY <2>4, NothingLayered
    <3>2. LayerStock(g, w) = LayerStock(st, w) - 0
      BY <1>2, <2>4
    <3>3. LayerStock(g, w) = 0
      BY <3>1, <3>2
    <3> QED BY <1>6, <1>8, <2>4, <3>3
  <2> QED BY <2>2, <2>3, <2>4
<1> QED BY <1>7, <1>9, <1>10 DEF Shelved

\* The sign of a product.
LEMMA NegatedProduct == \A a, b \in Int : -(a * b) = (-a) * b
  OBVIOUS

\* Adjust keeps them: a count sets the shelf and writes the difference down.
LEMMA AdjustKeeps ==
  ASSUME StockCore, NEW c \in Counts, Adjust(c)
  PROVE  Keeps
<1> DEFINE w == c.wh
           inv == stock.inv[w]
           d == c.qty - inv.qty
           cost == IF inv.avg > 0 THEN inv.avg ELSE stock.price
           grown == IF Layered(stock)
                    THEN CreateLayers(UpdateCost(stock, w, d, cost, 1), w,
                                      <<[qty |-> d, cost |-> cost]>>, <<>>)
                    ELSE UpdateCost(stock, w, d, cost, 1)
           issue == Issue(stock, w, -d, cost)
           unit == IF Layered(stock) THEN HalfUp(issue.value, -d) ELSE cost
<1>1. /\ UNCHANGED <<opening, transfer, order, entries, today, ship, cancels>>
      /\ adjusted' = Append(adjusted, d)
      /\ \/ /\ d > 0
            /\ stock' = [grown EXCEPT !.inv[w].qty = c.qty]
            /\ Post(w, "adjustment", Cents(d * cost))
         \/ /\ d < 0 /\ Free(inv) + d >= 0 /\ issue.ok
            /\ stock' = [issue.stock EXCEPT !.inv[w].qty = c.qty]
            /\ Post("adjustment", w, Cents(-d * unit))
  BY DEF Adjust, ShippingUnchanged
<1>2. /\ stock \in Stocks /\ w \in Warehouses /\ c.qty \in Nat /\ Covered(stock)
      /\ adjusted \in Seq(Int) /\ gl \in [Accounts -> Int]
      /\ transfer \in [Transfers -> TransferRows] /\ today \in 1..LastDay
  BY CountFacts DEF StockCore, Types
<1>3. inv.qty \in Nat /\ inv.avg \in Nat /\ inv.reserved \in Nat /\ stock.price \in Nat
  BY <1>2, RowFacts
<1>4. d \in Int /\ cost \in Nat /\ c.qty = inv.qty + d
  BY <1>2, <1>3
<1> HIDE DEF w, inv, d, cost, grown, issue, unit
<1>5. ASSUME NEW v \in Int, Post(w, "adjustment", v) \/ Post("adjustment", w, v)
      PROVE  gl' \in [Accounts -> Int] /\ gl'["transit"] = gl["transit"]
  <2>1. /\ w \in Accounts /\ w # "transit" /\ "transit" \in Accounts /\ "adjustment" \in Accounts
    BY <1>2, AccountFacts
  <2>2. gl \in [Accounts -> Int]
    BY <1>2
  <2>3. CASE Post(w, "adjustment", v)
    BY <2>1, <2>2, <2>3 DEF Post
  <2>4. CASE Post("adjustment", w, v)
    BY <2>1, <2>2, <2>4 DEF Post
  <2> QED BY <1>5, <2>3, <2>4
<1>6. CASE d > 0 /\ stock' = [grown EXCEPT !.inv[w].qty = c.qty]
                 /\ Post(w, "adjustment", Cents(d * cost))
  <2>0. d > 0
    BY <1>6
  <2>1. d \in Nat \ {0}
    BY <1>4, <2>0
  <2>2. PICK m, k, a : m = d /\ k = cost /\ a = w
    OBVIOUS
  <2>3. stock' = SetQty(Grown(stock, a, m, k), a, stock.inv[a].qty + m)
    <3>1. grown = Grown(stock, w, d, cost)
      BY DEF grown, Grown
    <3>2. stock' = SetQty(Grown(stock, w, d, cost), w, stock.inv[w].qty + d)
      BY <1>4, <1>6, <3>1 DEF SetQty, inv
    <3> QED BY <2>2, <3>2
  <2>4. m \in Nat \ {0} /\ k \in Nat /\ a \in Warehouses
    BY <1>2, <1>4, <2>1, <2>2
  <2>5. /\ stock' \in Stocks /\ Shift(stock, stock', m, {}, {a}, {}, {})
        /\ Covered(stock) => Covered(stock')
        /\ Backed(stock) => Backed(stock')
    <3>1. Shelved(stock, stock', m, {}, {a})
      BY <1>2, <2>3, <2>4, RaisedIs
    <3> QED BY <3>1 DEF Shelved
  <2>6. gl' \in [Accounts -> Int] /\ gl'["transit"] = gl["transit"]
    <3>1. m * k \in Nat
      BY <2>4, Products
    <3>2. Cents(m * k) \in Int
      BY <3>1, CentsInt
    <3>3. Post(w, "adjustment", Cents(m * k))
      BY <1>6, <2>2
    <3> QED BY <1>5, <3>2, <3>3
  <2>8. adjusted' = Append(adjusted, d)
    BY <1>1
  <2>9. GoodsNow(stock', adjusted') = GoodsNow(stock, adjusted)
    <3>1. PICK x, y : x = OnHand(stock) + InTransit(stock) /\ y = OnHand(stock') + InTransit(stock')
      OBVIOUS
    <3>2. y = x + m /\ x \in Nat
      <4>1. OnHand(stock') + InTransit(stock') = OnHand(stock) + InTransit(stock) + m
        BY <1>2, <2>4, <2>5, ShelfShift
      <4>2. OnHand(stock) \in Nat /\ InTransit(stock) \in Nat
        BY <1>2, <2>4, ShelfShift
      <4> QED BY <3>1, <4>1, <4>2
    <3>3. SumLines(adjusted) \in Int /\ SumLines(adjusted') = SumLines(adjusted) + m
      BY <1>2, <1>4, <2>2, <2>8, AdjustedSum
    <3>4. PICK j, k2 : j = SumLines(adjusted) /\ k2 = SumLines(adjusted')
      OBVIOUS
    <3>5. y - k2 = x - j
      BY <2>4, <3>2, <3>3, <3>4
    <3> QED BY <3>1, <3>4, <3>5 DEF GoodsNow
  <2>10. \A v \in Warehouses : /\ stock'.inv[v].transit = stock.inv[v].transit
                               /\ stock'.inv[v].reserved = stock.inv[v].reserved
    BY <1>2, <2>4, <2>5, ShelfShift
  <2>11. adjusted' \in Seq(Int)
    BY <1>2, <1>4, <2>8, AdjustedSum
  <2>12. transfer' \in [Transfers -> TransferRows] /\ today' \in 1..LastDay /\ Covered(stock')
    BY <1>1, <1>2, <2>5
  <2>13. Kept(stock, stock')
    BY <2>5 DEF Shift
  <2> QED BY <1>1, <2>5, <2>6, <2>9, <2>10, <2>11, <2>12, <2>13, OrdersApart
<1>7. CASE d < 0 /\ Free(inv) + d >= 0 /\ issue.ok
                 /\ stock' = [issue.stock EXCEPT !.inv[w].qty = c.qty]
                 /\ Post("adjustment", w, Cents(-d * unit))
  <2>1. PICK m, k, a : m = -d /\ k = cost /\ a = w
    OBVIOUS
  <2>2. m \in Nat \ {0} /\ k \in Nat /\ a \in Warehouses /\ d = -m /\ c.qty = inv.qty - m
    <3>1. d < 0
      BY <1>7
    <3>2. d \in Int /\ c.qty = inv.qty + d
      BY <1>4
    <3>3. PICK e, x : e = d /\ x = inv.qty
      OBVIOUS
    <3>4. e \in Int /\ e < 0 /\ m = -e /\ x \in Nat /\ c.qty = x + e
      BY <1>3, <2>1, <3>1, <3>2, <3>3
    <3>5. m \in Nat \ {0} /\ e = -m /\ c.qty = x - m
      BY <3>4
    <3> QED BY <1>2, <1>4, <2>1, <3>3, <3>5
  <2>3. /\ Issue(stock, a, m, k).ok
        /\ stock' = SetQty(Issue(stock, a, m, k).stock, a, stock.inv[a].qty - m)
    <3>1. issue = Issue(stock, a, m, k)
      BY <2>1 DEF issue
    <3>2. issue.ok /\ stock' = [issue.stock EXCEPT !.inv[w].qty = c.qty]
      BY <1>7
    <3>3. c.qty = stock.inv[a].qty - m
      BY <2>1, <2>2 DEF inv
    <3> QED BY <2>1, <3>1, <3>2, <3>3 DEF SetQty
  <2>4. Free(stock.inv[a]) - m >= 0
    <3>0. Free(inv) + d >= 0
      BY <1>7
    <3>1. Free(inv) \in Int /\ Free(inv) + d >= 0
      BY <1>3, <3>0 DEF Free
    <3>2. PICK x, y : x = Free(inv) /\ y = d
      OBVIOUS
    <3>3. x \in Int /\ x + y >= 0 /\ y = -m
      BY <2>2, <3>1, <3>2
    <3>4. x - m >= 0
      BY <2>2, <3>3
    <3> QED BY <2>1, <3>2, <3>4 DEF inv
  <2>5. /\ stock' \in Stocks /\ Shift(stock, stock', m, {a}, {}, {}, {})
        /\ Covered(stock) => Covered(stock')
        /\ Backed(stock) => Backed(stock')
    <3>1. m \in Nat
      BY <2>2
    <3>2. Shelved(stock, stock', m, {a}, {})
      BY <1>2, <2>2, <2>3, <2>4, <3>1, IssuedIs
    <3> QED BY <3>2 DEF Shelved
  <2>6. gl' \in [Accounts -> Int] /\ gl'["transit"] = gl["transit"]
    <3>1. Issue(stock, a, m, k).value \in Nat
      <4>1. m \in Nat
        BY <2>2
      <4> QED BY <1>2, <2>2, <4>1, IssueIs
    <3>2. PICK u : u = unit
      OBVIOUS
    <3>3. u \in Nat
      <4>1. HalfUp(Issue(stock, a, m, k).value, m) \in Nat
        BY <2>2, <3>1, HalfUpNat
      <4>2. u = IF Layered(stock) THEN HalfUp(Issue(stock, a, m, k).value, m) ELSE k
        BY <2>1, <3>2 DEF unit, issue
      <4> QED BY <2>2, <4>1, <4>2
    <3>4. m * u \in Nat
      BY <2>2, <3>3, Products
    <3>5. Cents(m * u) \in Int
      BY <3>4, CentsInt
    <3>6. Post("adjustment", w, Cents(m * u))
      <4>1. Post("adjustment", w, Cents(-d * unit))
        BY <1>7
      <4>2. PICK e : e = d
        OBVIOUS
      <4>3. -e * u = m * u
        <5>1. e \in Int /\ u \in Int /\ m = -e
          BY <2>2, <3>3, <4>2
        <5> QED BY <5>1, NegatedProduct
      <4> QED BY <3>2, <4>1, <4>2, <4>3
    <3> QED BY <1>5, <3>5, <3>6
  <2>8. adjusted' = Append(adjusted, d)
    BY <1>1
  <2>9. GoodsNow(stock', adjusted') = GoodsNow(stock, adjusted)
    <3>1. PICK x, y : x = OnHand(stock) + InTransit(stock) /\ y = OnHand(stock') + InTransit(stock')
      OBVIOUS
    <3>2. y + m = x /\ x \in Nat /\ y \in Nat
      <4>1. m \in Nat
        BY <2>2
      <4>2. OnHand(stock') + InTransit(stock') + m = OnHand(stock) + InTransit(stock)
        BY <1>2, <2>2, <2>5, <4>1, ShelfShift
      <4>3. /\ OnHand(stock) \in Nat /\ InTransit(stock) \in Nat
            /\ OnHand(stock') \in Nat /\ InTransit(stock') \in Nat
        BY <1>2, <2>2, <2>5, <4>1, ShelfShift
      <4> QED BY <3>1, <4>2, <4>3
    <3>3. SumLines(adjusted) \in Int /\ SumLines(adjusted') = SumLines(adjusted) + d
      BY <1>2, <1>4, <2>8, AdjustedSum
    <3>4. PICK j, k2 : j = SumLines(adjusted) /\ k2 = SumLines(adjusted')
      OBVIOUS
    <3>5. y - k2 = x - j
      BY <2>2, <3>2, <3>3, <3>4
    <3> QED BY <3>1, <3>4, <3>5 DEF GoodsNow
  <2>10. \A v \in Warehouses : /\ stock'.inv[v].transit = stock.inv[v].transit
                               /\ stock'.inv[v].reserved = stock.inv[v].reserved
    <3>1. m \in Nat
      BY <2>2
    <3> QED BY <1>2, <2>2, <2>5, <3>1, ShelfShift
  <2>11. adjusted' \in Seq(Int)
    BY <1>2, <1>4, <2>8, AdjustedSum
  <2>12. transfer' \in [Transfers -> TransferRows] /\ today' \in 1..LastDay /\ Covered(stock')
    BY <1>1, <1>2, <2>5
  <2>13. Kept(stock, stock')
    BY <2>5 DEF Shift
  <2> QED BY <1>1, <2>5, <2>6, <2>9, <2>10, <2>11, <2>12, <2>13, OrdersApart
<1> QED BY <1>1, <1>6, <1>7, Zenon

\* A stock with another quantity reserved in one warehouse.
SetReserved(x, w, r) == [x EXCEPT !.inv[w].reserved = r]

ReservedIs(st, t, w, r) ==
  /\ t \in Stocks /\ t.layers = st.layers /\ OnHand(t) = OnHand(st) /\ InTransit(t) = InTransit(st)
  /\ \A v \in Warehouses : /\ t.inv[v].qty = st.inv[v].qty /\ t.inv[v].transit = st.inv[v].transit
                           /\ t.inv[v].reserved = IF v = w THEN r ELSE st.inv[v].reserved
  /\ Backed(st) => Backed(t)

\* Setting what is reserved moves no goods.
LEMMA ReservedSet ==
  ASSUME NEW st \in Stocks, NEW w \in Warehouses, NEW r \in Nat, NEW t, t = SetReserved(st, w, r)
  PROVE  ReservedIs(st, t, w, r)
<1>1. PICK inv : inv = [st.inv EXCEPT ![w].reserved = r]
  OBVIOUS
<1>2. st.inv \in [Warehouses -> Row]
  BY RowFacts
<1>3. inv \in [Warehouses -> Row]
  BY <1>1, <1>2 DEF Row
<1>4. \A v \in Warehouses :
        /\ inv[v].qty = st.inv[v].qty /\ inv[v].transit = st.inv[v].transit
        /\ inv[v].reserved = IF v = w THEN r ELSE st.inv[v].reserved
  BY <1>1, <1>2 DEF Row
<1>5. t \in Stocks /\ t.layers = st.layers /\ t.inv = inv
  <2>1. t = [st EXCEPT !.inv = inv]
    BY <1>1, <1>2 DEF Stocks, SetReserved
  <2> QED BY <1>3, <2>1 DEF Stocks
<1>6. OnHand(t) = OnHand(st) /\ InTransit(t) = InTransit(st)
  <2>1. [v \in Warehouses |-> t.inv[v].qty] = [v \in Warehouses |-> st.inv[v].qty]
    BY <1>4, <1>5
  <2>2. [v \in Warehouses |-> t.inv[v].transit] = [v \in Warehouses |-> st.inv[v].transit]
    BY <1>4, <1>5
  <2> QED BY <2>1, <2>2 DEF OnHand, InTransit, SumOver
<1>7. Backed(st) => Backed(t)
  <2>1. \A v \in Warehouses : LayerStock(t, v) = LayerStock(st, v)
    BY <1>5, SameLayers
  <2> QED BY <1>4, <1>5, <2>1 DEF Backed
<1> QED BY <1>4, <1>5, <1>6, <1>7 DEF ReservedIs

\* A step that changes one order and what its warehouse has reserved.
LEMMA OrderStep ==
  ASSUME StockCore, UNCHANGED <<opening, ship, cancels, entries, transfer, adjusted, gl, today>>,
         NEW w \in Warehouses, NEW r \in Nat, stock' = SetReserved(stock, w, r), r <= stock.inv[w].qty,
         order' \in [Orders -> OrderRows], OrdersAgree',
         NEW o \in Orders, \A u \in Orders \ {o} : order'[u] = order[u],
         \A v \in Warehouses \ {w} : OpenOf(order', v)[o] = OpenOf(order, v)[o],
         r + OpenOf(order, w)[o] = stock.inv[w].reserved + OpenOf(order', w)[o]
  PROVE  Keeps
<1>1. /\ Types /\ stock \in Stocks /\ order \in [Orders -> OrderRows] /\ OrdersAgree
      /\ ReservedAgrees(stock, order) /\ Covered(stock)
  BY DEF StockCore, Types
<1>2. ReservedIs(stock, stock', w, r)
  <2>1. PICK t : t = stock'
    OBVIOUS
  <2>2. ReservedIs(stock, t, w, r)
    BY <1>1, <2>1, ReservedSet
  <2> QED BY <2>1, <2>2
<1>3. ReservedAgrees(stock', order')
  <2> SUFFICES ASSUME NEW v \in Warehouses
               PROVE  stock'.inv[v].reserved = SumFunctionOnSet(OpenOf(order', v), Orders)
    BY DEF ReservedAgrees
  <2>1. /\ SumFunctionOnSet(OpenOf(order', v), Orders)
             = SumFunctionOnSet(OpenOf(order, v), Orders) + OpenOf(order', v)[o] - OpenOf(order, v)[o]
        /\ SumFunctionOnSet(OpenOf(order, v), Orders) \in Nat
    <3>1. \A u \in Orders : order'[u].status = "draft" => order'[u].form \in OrderForms
      BY DEF OrdersAgree
    <3>2. \A u \in Orders : order[u].status = "draft" => order[u].form \in OrderForms
      BY <1>1 DEF OrdersAgree
    <3> QED BY <1>1, <3>1, <3>2, OneOrder
  <2>2. stock.inv[v].reserved = SumFunctionOnSet(OpenOf(order, v), Orders)
    BY <1>1 DEF ReservedAgrees
  <2>3. stock'.inv[v].reserved = IF v = w THEN r ELSE stock.inv[v].reserved
    BY <1>2 DEF ReservedIs
  <2>4. OpenOf(order', v)[o] \in Nat /\ OpenOf(order, v)[o] \in Nat
    BY <1>1, CountFacts DEF OpenOf, OrdersAgree
  <2>5. CASE v = w
    BY <2>1, <2>2, <2>3, <2>4, <2>5
  <2>6. CASE v # w
    BY <2>1, <2>2, <2>3, <2>4, <2>6
  <2> QED BY <2>5, <2>6
<1>4. Covered(stock')
  BY <1>1, <1>2 DEF Covered, ReservedIs
<1>5. GoodsNow(stock', adjusted') = GoodsNow(stock, adjusted)
  BY <1>2 DEF GoodsNow, ReservedIs
<1>6. /\ \A v \in Warehouses : stock'.inv[v].transit = stock.inv[v].transit
      /\ Backed(stock) => Backed(stock')
      /\ stock' \in Stocks /\ stock'.layers = stock.layers
  BY <1>2 DEF ReservedIs
<1>8. Kept(stock, stock')
  BY <1>1, <1>6, KeptFacts
<1>7. /\ transfer' \in [Transfers -> TransferRows] /\ adjusted' \in Seq(Int)
      /\ gl' \in [Accounts -> Int] /\ gl'["transit"] = gl["transit"] /\ today' \in 1..LastDay
  BY <1>1 DEF Types
<1> QED BY <1>3, <1>4, <1>5, <1>6, <1>7, <1>8, ShipsApart

\* CreateOrder keeps them: it reserves what is free.
LEMMA CreateOrderKeeps ==
  ASSUME StockCore, NEW o \in Orders, CreateOrder(o)
  PROVE  Keeps
<1>1. PICK f \in OrderForms :
        /\ Free(stock.inv[f.wh]) >= f.qty
        /\ order' = [order EXCEPT ![o] = [status |-> "draft", form |-> f]]
        /\ stock' = [stock EXCEPT !.inv[f.wh].reserved = @ + f.qty]
  BY DEF CreateOrder
<1>2. /\ UNCHANGED <<opening, ship, cancels, entries, transfer, adjusted, gl, today>>
      /\ order[o].status = "none" /\ stock \in Stocks /\ order \in [Orders -> OrderRows] /\ OrdersAgree
  BY DEF CreateOrder, ShippingUnchanged, StockCore, Types
<1>3. PICK w, q, r : w = f.wh /\ q = f.qty /\ r = stock.inv[f.wh].reserved + f.qty
  OBVIOUS
<1>4. /\ w \in Warehouses /\ q \in Nat /\ stock.inv[w].reserved \in Nat /\ stock.inv[w].qty \in Nat
      /\ r = stock.inv[w].reserved + q /\ r \in Nat
  <2>1. w \in Warehouses /\ q \in Nat
    BY <1>3, CountFacts
  <2>2. stock.inv[w].reserved \in Nat /\ stock.inv[w].qty \in Nat
    BY <1>2, <2>1, RowFacts
  <2> QED BY <1>3, <2>1, <2>2
<1>5. stock' = SetReserved(stock, w, r)
  BY <1>1, <1>2, <1>3, <1>4 DEF SetReserved, Stocks
<1>6. r <= stock.inv[w].qty
  <2>1. stock.inv[w].qty - stock.inv[w].reserved >= q
    BY <1>1, <1>3 DEF Free
  <2> QED BY <1>4, <2>1
<1>7. /\ order' \in [Orders -> OrderRows] /\ order'[o] = [status |-> "draft", form |-> f]
      /\ \A u \in Orders \ {o} : order'[u] = order[u]
  BY <1>1, <1>2 DEF OrderRows
<1>8. OrdersAgree'
  BY <1>2, <1>7 DEF OrdersAgree
<1>9. ASSUME NEW v \in Warehouses
      PROVE  OpenOf(order, v)[o] = 0 /\ OpenOf(order', v)[o] = IF v = w THEN q ELSE 0
  BY <1>2, <1>3, <1>7 DEF OpenOf
<1>10. r + OpenOf(order, w)[o] = stock.inv[w].reserved + OpenOf(order', w)[o]
  BY <1>4, <1>9
<1>11. \A v \in Warehouses \ {w} : OpenOf(order', v)[o] = OpenOf(order, v)[o]
  BY <1>9
<1> QED BY <1>2, <1>4, <1>5, <1>6, <1>7, <1>8, <1>10, <1>11, OrderStep

\* CancelOrder keeps them: it gives back what it had reserved.
LEMMA CancelOrderKeeps ==
  ASSUME StockCore, NEW o \in Orders, CancelOrder(o)
  PROVE  Keeps
<1> DEFINE f == order[o].form
<1>1. /\ order[o].status = "draft" /\ order' = [order EXCEPT ![o].status = "cancelled"]
      /\ stock' = [stock EXCEPT !.inv[f.wh].reserved = AtLeast(0, @ - f.qty)]
      /\ UNCHANGED <<opening, ship, cancels, entries, transfer, adjusted, gl, today>>
  BY DEF CancelOrder, ShippingUnchanged
<1>2. /\ stock \in Stocks /\ order \in [Orders -> OrderRows] /\ OrdersAgree /\ f \in OrderForms
      /\ ReservedAgrees(stock, order) /\ Covered(stock)
  BY <1>1 DEF StockCore, Types, OrdersAgree
<1>3. PICK w, q : w = f.wh /\ q = f.qty
  OBVIOUS
<1>4. /\ w \in Warehouses /\ q \in Nat /\ stock.inv[w].reserved \in Nat /\ stock.inv[w].qty \in Nat
  <2>1. w \in Warehouses /\ q \in Nat
    BY <1>2, <1>3, CountFacts
  <2> QED BY <1>2, <2>1, RowFacts
<1>5. OpenOf(order, w)[o] = q
  BY <1>1, <1>3 DEF OpenOf
<1>6. q <= stock.inv[w].reserved
  <2>1. stock.inv[w].reserved = SumFunctionOnSet(OpenOf(order, w), Orders)
    BY <1>2, <1>4 DEF ReservedAgrees
  <2>2. OpenOf(order, w)[o] <= SumFunctionOnSet(OpenOf(order, w), Orders)
    <3>1. \A u \in Orders : order[u].status = "draft" => order[u].form \in OrderForms
      BY <1>2 DEF OrdersAgree
    <3> QED BY <1>2, <3>1, OneOrder
  <2> QED BY <1>5, <2>1, <2>2
<1>7. PICK r : r = stock.inv[w].reserved - q
  OBVIOUS
<1>8. r \in Nat /\ r <= stock.inv[w].qty
  <2>1. stock.inv[w].reserved <= stock.inv[w].qty
    BY <1>2, <1>4 DEF Covered
  <2> QED BY <1>4, <1>6, <1>7, <2>1
<1>9. stock' = SetReserved(stock, w, r)
  <2>1. AtLeast(0, stock.inv[w].reserved - q) = r
    BY <1>4, <1>6, <1>7, <1>8 DEF AtLeast
  <2> QED BY <1>1, <1>2, <1>3, <1>4, <2>1 DEF SetReserved, Stocks
<1>10. /\ order' \in [Orders -> OrderRows] /\ order'[o].status = "cancelled"
       /\ \A u \in Orders \ {o} : order'[u] = order[u]
  BY <1>1, <1>2 DEF OrderRows
<1>11. OrdersAgree'
  BY <1>2, <1>10 DEF OrdersAgree
<1>12. ASSUME NEW v \in Warehouses
       PROVE  /\ OpenOf(order', v)[o] = 0
              /\ OpenOf(order, v)[o] = IF v = w THEN q ELSE 0
  BY <1>1, <1>3, <1>10 DEF OpenOf
<1>13. r + OpenOf(order, w)[o] = stock.inv[w].reserved + OpenOf(order', w)[o]
  BY <1>4, <1>7, <1>12
<1>14. \A v \in Warehouses \ {w} : OpenOf(order', v)[o] = OpenOf(order, v)[o]
  BY <1>12
<1>15. UNCHANGED <<opening, ship, cancels, entries, transfer, adjusted, gl, today>>
  BY <1>1
<1> QED BY <1>4, <1>8, <1>9, <1>10, <1>11, <1>13, <1>14, <1>15, OrderStep

\* Every step of Stock keeps the invariant's parts.
LEMMA StepKeeps ==
  ASSUME StockCore, [Next]_vars
  PROVE  Keeps
<1>1. CASE UNCHANGED vars
  BY <1>1, NothingKeeps
<1>2. CASE Next
  <2>1. ASSUME NEW s \in Shipments, CreateShipment(s) PROVE Keeps
    BY <2>1, CreateShipmentKeeps
  <2>2. ASSUME NEW s \in Shipments, Dispatch(s) PROVE Keeps
    BY <2>2, DispatchKeeps
  <2>3. ASSUME NEW s \in Shipments, Confirm(s) PROVE Keeps
    BY <2>3, ConfirmKeeps
  <2>4. ASSUME NEW s \in Shipments, CancelRead(s) PROVE Keeps
    BY <2>4, CancelReadKeeps
  <2>5. ASSUME NEW s \in Shipments, CancelWrite(s) PROVE Keeps
    BY <2>5, CancelWriteKeeps
  <2>6. ASSUME NEW t \in Transfers, TransferLookup(t) PROVE Keeps
    BY <2>6, TransferLookupKeeps
  <2>7. ASSUME NEW t \in Transfers, TransferMove(t) PROVE Keeps
    BY <2>7, TransferMoveKeeps
  <2>8. ASSUME NEW c \in Counts, Adjust(c) PROVE Keeps
    BY <2>8, AdjustKeeps
  <2>9. ASSUME NEW o \in Orders, CreateOrder(o) PROVE Keeps
    BY <2>9, CreateOrderKeeps
  <2>10. ASSUME NEW o \in Orders, CancelOrder(o) PROVE Keeps
    BY <2>10, CancelOrderKeeps
  <2>11. CASE NextDay
    BY <2>11, NextDayKeeps
  <2> QED BY <1>2, <2>1, <2>2, <2>3, <2>4, <2>5, <2>6, <2>7, <2>8, <2>9, <2>10, <2>11 DEF Next
<1> QED BY <1>1, <1>2

\* What there is at the start.
LEMMA InitHolds ==
  ASSUME Init
  PROVE  StockInv
<1>1. /\ stock \in Openings /\ opening = stock
      /\ ship = [s \in Shipments |-> NoShipment] /\ cancels = {}
      /\ transfer = [t \in Transfers |-> [at |-> "new", form |-> NoForm]]
      /\ order = [o \in Orders |-> [status |-> "none", form |-> NoForm]]
      /\ adjusted = <<>> /\ gl = [a \in Accounts |-> 0] /\ entries = {} /\ today = 1
  BY DEF Init
<1>2. /\ LastDay \in Nat \ {0} /\ IsFiniteSet(Shipments) /\ IsFiniteSet(Orders)
      /\ Openings \subseteq
           [inv : [Warehouses -> [qty : Nat, reserved : {0}, damaged : Nat, transit : Nat, avg : Nat]],
            price : Nat, layers : Seq([wh : Warehouses, left : Nat, cost : Nat, doc : {<<>>}])]
      /\ \A st \in Openings, w \in Warehouses : LayerStock(st, w) <= st.inv[w].qty
  BY StockAssumption
<1>3. /\ stock.inv \in [Warehouses -> [qty : Nat, reserved : {0}, damaged : Nat, transit : Nat, avg : Nat]]
      /\ stock.price \in Nat /\ stock.layers \in Seq(Layers)
      /\ stock = [inv |-> stock.inv, price |-> stock.price, layers |-> stock.layers]
  BY <1>1, <1>2 DEF Layers
<1>4. stock \in Stocks
  <2>1. stock.inv \in [Warehouses -> Row]
    BY <1>3 DEF Row
  <2>2. PICK i, p, l : i = stock.inv /\ p = stock.price /\ l = stock.layers
    OBVIOUS
  <2>3. i \in [Warehouses -> Row] /\ p \in Nat /\ l \in Seq(Layers)
    BY <1>3, <2>1, <2>2
  <2>4. stock = [inv |-> i, price |-> p, layers |-> l]
    BY <1>3, <2>2
  <2> QED BY <2>3, <2>4 DEF Stocks
<1>5. /\ \A s \in Shipments : ship[s] = NoShipment
      /\ NoShipment \in ShipRows /\ NoShipment.status = "none" /\ NoShipment.sent = 0
      /\ NoShipment.got = 0
  <2>1. <<>> \in Seq(Parts)
    OBVIOUS
  <2> QED BY <1>1, <2>1 DEF NoShipment, ShipRows
<1>6. Types
  <2>1. ship \in [Shipments -> ShipRows] /\ cancels \subseteq Shipments
    BY <1>1, <1>5
  <2>2. transfer \in [Transfers -> TransferRows] /\ order \in [Orders -> OrderRows]
    BY <1>1 DEF TransferRows, OrderRows
  <2>3. adjusted \in Seq(Int) /\ gl \in [Accounts -> Int]
    BY <1>1
  <2>4. entries \subseteq Shipments \X (1..LastDay) /\ today \in 1..LastDay
    BY <1>1, <1>2
  <2> QED BY <1>1, <1>4, <2>1, <2>2, <2>3, <2>4 DEF Types
<1>7. RowsAgree /\ OrdersAgree /\ EntriesAgree
  <2>1. RowAgrees(NoShipment)
    BY <1>5 DEF RowAgrees
  <2>2. RowsAgree
    BY <1>5, <2>1 DEF RowsAgree
  <2>3. OrdersAgree /\ EntriesAgree
    BY <1>1 DEF OrdersAgree, EntriesAgree
  <2> QED BY <2>2, <2>3
<1>8. \A w \in Warehouses : stock.inv[w].transit \in Nat /\ stock.inv[w].reserved = 0
                            /\ stock.inv[w].qty \in Nat
  BY <1>3
<1>9. /\ \A w : SumFunctionOnSet(FromOf(ship, w), Shipments) = 0
      /\ SumFunctionOnSet(WorthOf(ship), Shipments) = 0
  <2>1. ASSUME NEW f, \A s \in Shipments : f[s] = 0 PROVE SumFunctionOnSet(f, Shipments) = 0
    <3>1. SumFunctionOnSet(f, Shipments) = SumFunctionOnSet(f, {})
      <4>1. {} \in SUBSET Shipments
        OBVIOUS
      <4>2. \A s \in Shipments : f[s] \in Int
        BY <2>1
      <4> QED BY <1>2, <2>1, <4>1, <4>2, SumSupport
    <3> QED BY <3>1, SumNone
  <2>2. ASSUME NEW w PROVE \A s \in Shipments : FromOf(ship, w)[s] = 0
    BY <1>5 DEF FromOf, IsAway
  <2>3. \A s \in Shipments : WorthOf(ship)[s] = 0
    BY <1>5 DEF WorthOf, IsAway
  <2> QED BY <2>1, <2>2, <2>3
<1>10. TransitsAgree(stock, ship)
  BY <1>1, <1>8, <1>9 DEF TransitsAgree
<1>11. ReservedAgrees(stock, order)
  <2> SUFFICES ASSUME NEW w \in Warehouses
               PROVE  stock.inv[w].reserved = SumFunctionOnSet(OpenOf(order, w), Orders)
    BY DEF ReservedAgrees
  <2>1. \A o \in Orders : OpenOf(order, w)[o] = 0
    BY <1>1 DEF OpenOf
  <2>2. SumFunctionOnSet(OpenOf(order, w), Orders) = SumFunctionOnSet(OpenOf(order, w), {})
    <3>1. {} \in SUBSET Orders
      OBVIOUS
    <3>2. \A o \in Orders : OpenOf(order, w)[o] \in Int
      BY <2>1
    <3> QED BY <1>2, <2>1, <3>1, <3>2, SumSupport
  <2>3. SumFunctionOnSet(OpenOf(order, w), Orders) = 0
    BY <2>2, SumNone
  <2> QED BY <1>8, <2>3
<1>12. Covered(stock)
  BY <1>8 DEF Covered
<1>13. GoodsNow(stock, adjusted) = OnHand(opening) + InTransit(opening)
  <2>1. SumLines(<<>>) = 0
    <3>1. DOMAIN <<>> = {}
      OBVIOUS
    <3> QED BY <3>1, SumNone DEF SumLines, SumFunction
  <2>2. OnHand(stock) \in Nat /\ InTransit(stock) \in Nat
    <3>1. Shift(stock, stock, 0, {}, {}, {}, {})
      BY <1>4, ShiftNone
    <3>2. 0 \in Nat
      OBVIOUS
    <3> QED BY <1>4, <3>1, <3>2, ShiftTotals
  <2>3. GoodsNow(stock, <<>>) = (OnHand(stock) + InTransit(stock)) - 0
    BY <2>1 DEF GoodsNow
  <2>4. GoodsNow(stock, <<>>) = OnHand(stock) + InTransit(stock)
    BY <2>2, <2>3
  <2> QED BY <1>1, <2>4
<1>14. Backed(stock)
  BY <1>1, <1>2 DEF Backed
<1>15. WorthAgrees(gl, ship)
  <2>1. gl["transit"] = 0
    BY <1>1, AccountFacts
  <2> QED BY <1>9, <2>1 DEF WorthAgrees
<1>16. StockCore
  BY <1>6, <1>7, <1>10, <1>11, <1>12 DEF StockCore
<1> QED BY <1>13, <1>14, <1>15, <1>16 DEF StockInv

\* Every step keeps it.
LEMMA StockInvStep == StockInv /\ [Next]_vars => StockInv'
<1> SUFFICES ASSUME StockInv, [Next]_vars PROVE StockInv'
  OBVIOUS
<1>1. StockCore /\ Keeps
  BY StepKeeps DEF StockInv
<1>2. StockCore' /\ GoodsNow(stock', adjusted') = GoodsNow(stock, adjusted)
  BY <1>1, SMTT(30) DEF Keeps
<1>3. opening' = opening
  BY DEF Next, vars, CreateShipment, Dispatch, Confirm, CancelRead, CancelWrite, TransferLookup,
         TransferMove, Adjust, CreateOrder, CancelOrder, NextDay, OthersUnchanged
<1>4. (GoodsNow(stock, adjusted) = OnHand(opening) + InTransit(opening))'
  BY <1>2, <1>3 DEF StockInv
<1>5. Single(ship)' => Backed(stock)'
  BY <1>1 DEF Keeps, StockInv
<1>6. Delayed(ship)' => WorthAgrees(gl, ship)'
  BY <1>1 DEF Keeps, StockInv
<1> QED BY <1>2, <1>4, <1>5, <1>6 DEF StockInv

\* The inductive invariant of the stock.
THEOREM StockInvariant == Spec => []StockInv
<1>1. Init => StockInv
  BY InitHolds
<1> QED BY <1>1, StockInvStep, PTL DEF Spec

(***************************************************************************)
(* What the invariant says                                                 *)
(***************************************************************************)
\* The type invariant of Stock: no quantity, cost or layer goes below zero,
\* whatever shipments, transfers, counts and orders interleave.
THEOREM StockTypes == Spec => []TypeOK
<1>1. StockInv => TypeOK
  <2> SUFFICES ASSUME StockInv PROVE TypeOK
    OBVIOUS
  <2>1. Types
    BY DEF StockInv, StockCore
  <2>2. stock.inv \in [Warehouses -> Row] /\ stock.price \in Nat /\ stock.layers \in Seq(Layers)
    BY <2>1 DEF Types, Stocks
  <2>3. ASSUME NEW s \in Shipments
        PROVE  /\ ship[s].status \in {"none", "pending", "dispatched", "received", "cancelled"}
               /\ ship[s].moved \in Nat /\ ship[s].value \in Nat
    BY <2>1 DEF Types, ShipRows
  <2>4. \A t \in Transfers : transfer[t].at \in {"new", "moving", "replayed", "done"}
    BY <2>1 DEF Types, TransferRows
  <2> QED BY <2>1, <2>2, <2>3, <2>4 DEF TypeOK, Types, Layers
<1> QED BY <1>1, StockInvariant, PTL

\* What is away is a part of what all shipments have.
LEMMA AwayFrom ==
  ASSUME StockCore, NEW w
  PROVE  SumOver({s \in Shipments : Away(s) /\ ship[s].form.src = w}, LAMBDA s : ship[s].moved)
           = SumFunctionOnSet(FromOf(ship, w), Shipments)
<1> DEFINE R == {s \in Shipments : Away(s) /\ ship[s].form.src = w}
           m == [s \in R |-> ship[s].moved]
           f == FromOf(ship, w)
<1>1. IsFiniteSet(Shipments) /\ R \in SUBSET Shipments
  BY StockAssumption
<1>2. /\ \A s \in Shipments : f[s] \in Int
      /\ \A s \in Shipments \ R : f[s] = 0
      /\ \A s \in R : m[s] = f[s]
  <2>1. \A s \in Shipments : f[s] \in Nat
    BY AmountsNat DEF StockCore, Types
  <2>2. \A s \in Shipments \ R : f[s] = 0
    BY DEF FromOf, IsAway, Away
  <2>3. \A s \in R : m[s] = f[s]
    BY DEF FromOf, IsAway, Away
  <2> HIDE DEF f, R, m
  <2> QED BY <2>1, <2>2, <2>3
<1> HIDE DEF f, R, m
<1>3. SumFunctionOnSet(m, R) = SumFunctionOnSet(f, Shipments)
  BY <1>1, <1>2, SumPart
<1> QED BY <1>3 DEF SumOver, R, m, f

\* The value away, over the shipments that are away and over all of them.
LEMMA AwayWorth ==
  ASSUME StockCore
  PROVE  SumOver({s \in Shipments : Away(s)}, LAMBDA s : ship[s].value)
           = SumFunctionOnSet(WorthOf(ship), Shipments)
<1> DEFINE R == {s \in Shipments : Away(s)}
           m == [s \in R |-> ship[s].value]
           f == WorthOf(ship)
<1>1. IsFiniteSet(Shipments) /\ R \in SUBSET Shipments
  BY StockAssumption
<1>2. /\ \A s \in Shipments : f[s] \in Int
      /\ \A s \in Shipments \ R : f[s] = 0
      /\ \A s \in R : m[s] = f[s]
  <2>1. \A s \in Shipments : f[s] \in Nat
    BY AmountsNat DEF StockCore, Types
  <2>2. \A s \in Shipments \ R : f[s] = 0
    BY DEF WorthOf, IsAway, Away
  <2>3. \A s \in R : m[s] = f[s]
    BY DEF WorthOf, IsAway, Away
  <2> HIDE DEF f, R, m
  <2> QED BY <2>1, <2>2, <2>3
<1> HIDE DEF f, R, m
<1>3. SumFunctionOnSet(m, R) = SumFunctionOnSet(f, Shipments)
  BY <1>1, <1>2, SumPart
<1> QED BY <1>3 DEF SumOver, R, m, f

\* Reservations are those of the open orders, and on the shelf.
LEMMA ReservationsAre ==
  ASSUME StockCore
  PROVE  ReservationsCovered
<1> SUFFICES ASSUME NEW w \in Warehouses
             PROVE  LET open == {o \in Orders : order[o].status = "draft" /\ order[o].form.wh = w}
                    IN /\ stock.inv[w].reserved = SumOver(open, LAMBDA o : order[o].form.qty)
                       /\ stock.inv[w].reserved <= stock.inv[w].qty
  BY DEF ReservationsCovered
<1> DEFINE R == {o \in Orders : order[o].status = "draft" /\ order[o].form.wh = w}
           m == [o \in R |-> order[o].form.qty]
           f == OpenOf(order, w)
<1>1. IsFiniteSet(Orders) /\ R \in SUBSET Orders
  BY StockAssumption
<1>2. /\ \A o \in Orders : f[o] \in Int
      /\ \A o \in Orders \ R : f[o] = 0
      /\ \A o \in R : m[o] = f[o]
  <2>1. \A o \in Orders : f[o] \in Nat
    BY CountFacts DEF OpenOf, StockCore, OrdersAgree
  <2>2. \A o \in Orders \ R : f[o] = 0
    BY DEF OpenOf
  <2>3. \A o \in R : m[o] = f[o]
    BY DEF OpenOf
  <2> HIDE DEF f, R, m
  <2> QED BY <2>1, <2>2, <2>3
<1> HIDE DEF f, R, m
<1>3. SumFunctionOnSet(m, R) = SumFunctionOnSet(f, Orders)
  BY <1>1, <1>2, SumPart
<1>4. SumOver(R, LAMBDA o : order[o].form.qty) = SumFunctionOnSet(m, R)
  BY DEF SumOver, m
<1>5. stock.inv[w].reserved = SumFunctionOnSet(f, Orders) /\ stock.inv[w].reserved <= stock.inv[w].qty
  BY DEF StockCore, ReservedAgrees, Covered, f
<1> QED BY <1>3, <1>4, <1>5 DEF R

\* Nothing is made or lost but what adjustments say, and each warehouse's
\* transit is what its shipments have sent and nobody has received, for every
\* set of shipments, transfers, counts and orders, and however they interleave.
THEOREM StockAccounted == Spec => []GoodsAccountedFor
<1>1. StockInv => GoodsAccountedFor
  <2> SUFFICES ASSUME StockInv PROVE GoodsAccountedFor
    OBVIOUS
  <2>1. StockCore
    BY DEF StockInv
  <2>2. stock \in Stocks /\ opening \in Stocks /\ adjusted \in Seq(Int)
    BY <2>1 DEF StockCore, Types
  <2>3. \A st \in Stocks : OnHand(st) \in Nat /\ InTransit(st) \in Nat
    <3> SUFFICES ASSUME NEW st \in Stocks PROVE OnHand(st) \in Nat /\ InTransit(st) \in Nat
      OBVIOUS
    <3>1. Shift(st, st, 0, {}, {}, {}, {})
      BY ShiftNone
    <3>2. 0 \in Nat
      OBVIOUS
    <3> QED BY <3>1, <3>2, ShiftTotals
  <2>4. SumLines(adjusted) \in Int
    <3>1. 0 \in Int
      OBVIOUS
    <3> QED BY <2>2, <3>1, AdjustedSum
  <2>5. OnHand(stock) + InTransit(stock) = OnHand(opening) + InTransit(opening) + SumLines(adjusted)
    <3>1. (OnHand(stock) + InTransit(stock)) - SumLines(adjusted) = OnHand(opening) + InTransit(opening)
      BY DEF StockInv, GoodsNow
    <3> QED BY <2>2, <2>3, <2>4, <3>1
  <2>6. ASSUME NEW w \in Warehouses
        PROVE  stock.inv[w].transit = opening.inv[w].transit
                 + SumOver({s \in Shipments : Away(s) /\ ship[s].form.src = w}, LAMBDA s : ship[s].moved)
    <3>1. stock.inv[w].transit = opening.inv[w].transit + SumFunctionOnSet(FromOf(ship, w), Shipments)
      BY <2>1 DEF StockCore, TransitsAgree
    <3>2. SumOver({s \in Shipments : Away(s) /\ ship[s].form.src = w}, LAMBDA s : ship[s].moved)
            = SumFunctionOnSet(FromOf(ship, w), Shipments)
      BY <2>1, AwayFrom
    <3> QED BY <3>1, <3>2
  <2> QED BY <2>5, <2>6 DEF GoodsAccountedFor
<1> QED BY <1>1, StockInvariant, PTL

\* What a warehouse has promised to orders is on its shelf, and its layers hold
\* no more than is there unless a shipment with two lines arrived.
THEOREM StockCovers == Spec => []HoldingsCover
<1>1. StockInv => HoldingsCover
  <2> SUFFICES ASSUME StockInv PROVE HoldingsCover
    OBVIOUS
  <2>1. ReservationsCovered
    BY ReservationsAre DEF StockInv
  <2>2. LayersCovered
    BY DEF LayersCovered, StockInv, Single, Backed
  <2> QED BY <2>1, <2>2 DEF HoldingsCover
<1> QED BY <1>1, StockInvariant, PTL

\* The in-transit account holds the value of what is away, if each shipment
\* arrived on a later day and none has two lines.
THEOREM StockInTransit == Spec => []TransitAccount
<1>1. StockInv => TransitAccount
  <2> SUFFICES ASSUME StockInv PROVE TransitAccount
    OBVIOUS
  <2>1. Delayed(ship) => gl["transit"] = SumFunctionOnSet(WorthOf(ship), Shipments)
    BY DEF StockInv, WorthAgrees
  <2>2. SumOver({s \in Shipments : Away(s)}, LAMBDA s : ship[s].value)
          = SumFunctionOnSet(WorthOf(ship), Shipments)
    BY AwayWorth DEF StockInv
  <2> QED BY <2>1, <2>2 DEF TransitAccount, Delayed
<1> QED BY <1>1, StockInvariant, PTL
=============================================================================
