-------------------------------- MODULE Shelf --------------------------------
(***************************************************************************)
(* What the inventory service promises its callers: copies of a book are on *)
(* the shelf, reserved under a lock, or sold, and each request moves them   *)
(* from one place to the next in one step.  Columns, caches, requests cut   *)
(* off and the order of statements are not to be seen.                      *)
(***************************************************************************)
EXTENDS Integers

CONSTANTS
    Books, Locks, Quantities,
    Copies  \* of each book, at the start

VARIABLES
    shelf,  \* the copies of each book anybody may still reserve
    lock    \* what each lock reserves and how it was settled

Init ==
    /\ shelf = Copies
    /\ lock = [l \in Locks |-> [status |-> "free"]]

Reserve(b, l, q) ==
    /\ lock[l].status = "free"
    /\ shelf[b] >= q
    /\ shelf' = [shelf EXCEPT ![b] = @ - q]
    /\ lock' = [lock EXCEPT ![l] = [status |-> "locked", book |-> b, quantity |-> q]]

Release(l) ==
    /\ lock[l].status = "locked"
    /\ shelf' = [shelf EXCEPT ![lock[l].book] = @ + lock[l].quantity]
    /\ lock' = [lock EXCEPT ![l].status = "released"]

Sell(l) ==
    /\ lock[l].status = "locked"
    /\ lock' = [lock EXCEPT ![l].status = "deducted"]
    /\ UNCHANGED shelf

Next ==
    \/ \E b \in Books, l \in Locks, q \in Quantities : Reserve(b, l, q)
    \/ \E l \in Locks : Release(l) \/ Sell(l)

Spec == Init /\ [][Next]_<<shelf, lock>>
=============================================================================
