----------------------------- MODULE MCPayments -----------------------------
EXTENDS Payments
CONSTANTS o1, o2, c1, c2
=============================================================================
