----------------------------- MODULE MCCheckout -----------------------------
EXTENDS Checkout, TLC
CONSTANTS b1, b2, l1, l2, l3, l4, o1, o2, o3, u1, u2, k1, p1

(* Two baskets that want the same two books, in opposite order.             *)
CrossedItems ==
    (o1 :> <<[book |-> b1, quantity |-> 1], [book |-> b2, quantity |-> 1]>>) @@
    (o2 :> <<[book |-> b2, quantity |-> 1], [book |-> b1, quantity |-> 1]>>)

(* Baskets of one book.                                                     *)
SingleItems == [o \in Orders |-> <<[book |-> b1, quantity |-> 1]>>]

OneOfEach == [b \in Books |-> 1]
TwoOfEach == [b \in Books |-> 2]

Symmetry == Permutations(Locks) \cup Permutations(Cancels)
=============================================================================
