---------------------------- MODULE MCPointOfSale ----------------------------
(* A small shop for TLC. *)
EXTENDS PointOfSale, TLC

CONSTANTS shop

MCWarehouses == {shop}

Held(q, c) == [qty |-> q, reserved |-> 0, damaged |-> 0, transit |-> 0, avg |-> c]
Layer(q, c) == [wh |-> shop, left |-> q, cost |-> c, doc |-> <<>>]

\* Four pieces, in two layers, or three of them in one at a cost that rounds.
MCOpenings ==
  { [inv |-> shop :> Held(4, 20000), price |-> 20000, layers |-> ls] :
      ls \in { <<Layer(2, 10000), Layer(2, 30000)>>, <<Layer(3, 20033)>> } }

MCOrderForms == { [wh |-> shop, qty |-> 1] }
MCCounts == { [wh |-> shop, qty |-> 3] }
MCKeyOf == [t \in {} |-> "key"]

MCSaleForms == { [lines |-> <<3>>, account |-> "cash"],
                 [lines |-> <<1, 1>>, account |-> "bank"] }
Item(l, q) == [line |-> l, qty |-> q]
MCReturnForms == { [items |-> <<Item(1, 2)>>, cash |-> TRUE],
                   [items |-> <<Item(1, 1)>>, cash |-> FALSE],
                   [items |-> <<Item(2, 1), Item(1, 1)>>, cash |-> FALSE],
                   [items |-> <<Item(1, 2), Item(1, 2)>>, cash |-> TRUE] }
MCGaps == {-10000}

Symmetry == Permutations(Clerks)
=============================================================================
