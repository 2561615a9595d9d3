---------------------------- MODULE MCInventory ----------------------------
EXTENDS Inventory
CONSTANTS b1, l1, l2, l3, c1, c2

TwoOfEach == [b \in Books |-> 2]
=============================================================================
