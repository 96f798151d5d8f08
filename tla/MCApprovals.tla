------------------------------ MODULE MCApprovals ------------------------------
EXTENDS Approvals, TLC
CONSTANTS u1, u2, o1, e1, k1, k2, k3

MCUsers     == {u1, u2}
MCDocuments == {o1, e1}
MCOrders    == {o1}
MCKeys      == {k1, k2, k3}

\* No step, and two steps that different users approve.
MCChains    == {<<>>, <<{u1}, {u2}>>}
MCSmall     == {e1}

\* Keys only tell one action from another.
KeySymmetry == Permutations(MCKeys)
===============================================================================
