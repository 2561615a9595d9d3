------------------------------- MODULE Checkout -------------------------------
(***************************************************************************)
(* The order service at work on the inventory service: CreateOrder locks    *)
(* the stock of each item before it writes the order, CancelOrder releases  *)
(* it, and the consumer of payment events deducts it.  Every call to the    *)
(* inventory is one of the steps of module Inventory; the steps of separate *)
(* order requests, of the consumer and of the inventory interleave.         *)
(*                                                                          *)
(* A process works on one task at a time and runs its RPCs one by one: it   *)
(* goes on when its call slot of the inventory is idle again.               *)
(*                                                                          *)
(* A definition marked "Mutation:" is a plausible bug in the definition it  *)
(* precedes; putting it in that one's place must break the property named.  *)
(***************************************************************************)
EXTENDS Integers, Sequences, FiniteSets

CONSTANTS
    Books, Locks,
    Orders,           \* CreateOrder requests: each is a process, and names its order
    Items,            \* the [book, quantity] items of each
    InitialQuantity,  \* of each book
    Cancels,          \* processes that serve CancelOrder
    Clerks,           \* processes that serve UpdateOrderStatus
    Consumers,        \* instances of the payment consumer
    Cancellable,      \* the orders CancelOrder is asked for
    Payable,          \* the orders payment events arrive for
    MaxEvents,        \* events per order; an order may be paid more than once
    MaxFaults,        \* crashes, lost replies and database errors
    LostCommits       \* the reply of a COMMIT may be among what is lost

Processes == Orders \cup Cancels \cup Clerks \cup Consumers

ASSUME CheckoutConstants ==
    /\ \A o \in Orders : Items[o] \in Seq([book: Books, quantity: Nat \ {0}]) /\ Items[o] # <<>>
    /\ InitialQuantity \in [Books -> Nat]
    /\ IsFiniteSet(Locks)
    /\ Orders \cap (Cancels \cup Clerks \cup Consumers) = {}
    /\ Consumers \cap (Cancels \cup Clerks) = {}
    /\ Cancellable \subseteq Orders /\ Payable \subseteq Orders
    /\ MaxEvents \in Nat /\ MaxFaults \in Nat /\ LostCommits \in BOOLEAN

VARIABLES
    rows, stock, lock, cache, call,  \* the inventory service
    order,   \* orders.status; "none" before the INSERT
    held,    \* the lock ids of order_items
    task,    \* what each process of the order service does
    queue,   \* messages ready in order.payment.success, per order
    events,  \* payment events sent so far, per order
    faults,
    skipped, \* orders for which a release or deduction failed and was passed over
    unsure   \* orders written although CreateOrder saw an error

inventoryVars == <<rows, stock, lock, cache, call>>
orderVars == <<order, held>>
brokerVars == <<queue, events>>
faultVars == <<faults, skipped, unsure>>
vars == <<inventoryVars, orderVars, brokerVars, task, faultVars>>

Quantities == UNION {{Items[o][i].quantity : i \in DOMAIN Items[o]} : o \in Orders}

Inv == INSTANCE Inventory WITH
         Calls <- Processes, Quantities <- Quantities, SetQuantities <- {}, InitialRows <- Books,
         ExclusiveSettle <- FALSE, Faulty <- TRUE

validTransitions ==
    [pending_payment |-> {"paid", "cancelled"},
     paid |-> {"completed", "refunding"},
     refunding |-> {"refunded"},
     completed |-> {},
     cancelled |-> {},
     refunded |-> {}]

Statuses == DOMAIN validTransitions

isValidTransition(from, to) == from \in Statuses /\ to \in validTransitions[from]

Idle == [at |-> "idle"]
Done == [at |-> "done"]
Locking == [at: {"lock"}, order: Orders, locks: Seq(Locks)]
Cancelling == [at: {"cancel"}, order: Orders]
Updating == [at: {"update"}, order: Orders, to: Statuses]
Settling == [at: {"settle"}, order: Orders, op: {"release", "deduct"}, todo: Seq(Locks)]

Init ==
    /\ Inv!Init
    /\ order = [o \in Orders |-> "none"]
    /\ held = [o \in Orders |-> <<>>]
    /\ task = [p \in Processes |-> Idle]
    /\ queue = [o \in Orders |-> 0]
    /\ events = [o \in Orders |-> 0]
    /\ faults = 0
    /\ skipped = {} /\ unsure = {}

Becomes(p, t) == task' = [task EXCEPT ![p] = t]

(* The process has the reply of its last call.                              *)
Replied(p) == call[p] = Inv!Idle

(* A CreateOrder request runs once, the other processes serve again.        *)
Rest(p) == IF p \in Orders THEN Done ELSE Idle

SettleTask(o, op, locks) == [at |-> "settle", order |-> o, op |-> op, todo |-> locks]

-----------------------------------------------------------------------------
(* CreateOrder.                                                             *)

CreateOrder(o) ==
    /\ task[o] = Idle
    /\ Becomes(o, [at |-> "lock", order |-> o, locks |-> <<>>])
    /\ UNCHANGED <<inventoryVars, orderVars, brokerVars, faultVars>>

MoreToLock(o) == task[o].at = "lock" /\ Len(task[o].locks) < Len(Items[o])

NextItem(o) == Items[o][Len(task[o].locks) + 1]

LockItem(o, l) ==
    /\ MoreToLock(o)
    /\ Inv!LockStock(o, NextItem(o).book, l, NextItem(o).quantity)
    /\ task' = [task EXCEPT ![o].locks = Append(@, l)]
    /\ UNCHANGED <<orderVars, brokerVars, faultVars>>

(* Mutation: what was locked before is kept (CheckoutCompensates).          *)
LockRefusedKeepsLocks(o) ==
    /\ MoreToLock(o)
    /\ Replied(o)
    /\ ~Inv!CanLock(NextItem(o).book, NextItem(o).quantity)
    /\ Becomes(o, Done)
    /\ UNCHANGED <<inventoryVars, orderVars, brokerVars, faultVars>>

(* An item cannot be had: give back what was locked so far.                 *)
LockRefused(o) ==
    /\ MoreToLock(o)
    /\ Replied(o)
    /\ ~Inv!CanLock(NextItem(o).book, NextItem(o).quantity)
    /\ Becomes(o, SettleTask(o, "release", task[o].locks))
    /\ UNCHANGED <<inventoryVars, orderVars, brokerVars, faultVars>>

AllLocked(o) == task[o].at = "lock" /\ Len(task[o].locks) = Len(Items[o]) /\ Replied(o)

(* Mutation: the lock ids do not reach the items (NoOrphanReservation).     *)
InsertOrderWithoutLocks(o) ==
    /\ AllLocked(o)
    /\ order' = [order EXCEPT ![o] = "pending_payment"]
    /\ Becomes(o, Done)
    /\ UNCHANGED <<inventoryVars, held, brokerVars, faultVars>>

InsertOrder(o) ==
    /\ AllLocked(o)
    /\ order' = [order EXCEPT ![o] = "pending_payment"]
    /\ held' = [held EXCEPT ![o] = task[o].locks]
    /\ Becomes(o, Done)
    /\ UNCHANGED <<inventoryVars, brokerVars, faultVars>>

-----------------------------------------------------------------------------
(* CancelOrder: the status is read in one statement and written, whatever   *)
(* it has become, in a later one; only then are the locks released.         *)

(* Mutation: the locks are released first (PendingHoldsLocks).              *)
CancelReleasesFirst(p, o) ==
    /\ task[p] = Idle
    /\ order[o] = "pending_payment"
    /\ Becomes(p, SettleTask(o, "release", held[o]))
    /\ UNCHANGED <<inventoryVars, orderVars, brokerVars, faultVars>>

CancelRead(p, o) ==
    /\ task[p] = Idle
    /\ order[o] = "pending_payment"
    /\ Becomes(p, [at |-> "cancel", order |-> o])
    /\ UNCHANGED <<inventoryVars, orderVars, brokerVars, faultVars>>

CancelWrite(p) ==
    /\ task[p].at = "cancel"
    /\ LET o == task[p].order
       IN /\ order' = [order EXCEPT ![o] = "cancelled"]
          /\ Becomes(p, SettleTask(o, "release", held[o]))
    /\ UNCHANGED <<inventoryVars, held, brokerVars, faultVars>>

(* repo.UpdateStatus: read and checked, then written.                       *)
StatusRead(p, o, s) ==
    /\ task[p] = Idle
    /\ isValidTransition(order[o], s)
    /\ Becomes(p, [at |-> "update", order |-> o, to |-> s])

(* The handler UpdateOrderStatus does nothing else.                         *)
UpdateOrderStatus(p, o, s) ==
    /\ p \in Clerks
    /\ StatusRead(p, o, s)
    /\ UNCHANGED <<inventoryVars, orderVars, brokerVars, faultVars>>

(* Mutation: the broker hands out a message and keeps it (TypeOK).          *)
ReceivePaymentKept(p, o) ==
    /\ p \in Consumers
    /\ queue[o] > 0
    /\ StatusRead(p, o, "paid")
    /\ UNCHANGED <<inventoryVars, orderVars, brokerVars, faultVars>>

(* handlePaymentSuccess: the message is taken, and put back when the order  *)
(* cannot become paid (Nack with requeue, no change of state).              *)
ReceivePayment(p, o) ==
    /\ p \in Consumers
    /\ queue[o] > 0
    /\ StatusRead(p, o, "paid")
    /\ queue' = [queue EXCEPT ![o] = @ - 1]
    /\ UNCHANGED <<inventoryVars, orderVars, events, faultVars>>

(* Mutation: the consumer stops at the status (LocksFollowStatus).          *)
StatusWriteOnly(p) ==
    /\ task[p].at = "update"
    /\ order' = [order EXCEPT ![task[p].order] = task[p].to]
    /\ Becomes(p, Idle)
    /\ UNCHANGED <<inventoryVars, held, brokerVars, faultVars>>

StatusWrite(p) ==
    /\ task[p].at = "update"
    /\ LET o == task[p].order
       IN /\ order' = [order EXCEPT ![o] = task[p].to]
          /\ Becomes(p, IF p \in Consumers THEN SettleTask(o, "deduct", held[o]) ELSE Idle)
    /\ UNCHANGED <<inventoryVars, held, brokerVars, faultVars>>

-----------------------------------------------------------------------------
(* The loops over ReleaseStock and DeductStock: one lock after the other;   *)
(* an error of a call is logged and the loop goes on.                       *)

ToSettle(p) == task[p].at = "settle" /\ task[p].todo # <<>> /\ Replied(p)

(* Mutation: the loop ends after its first call (PaymentDeductsStock).      *)
SettleFirstOnly(p) ==
    /\ ToSettle(p)
    /\ Inv!BeginSettle(p, Head(task[p].todo), task[p].op)
    /\ task' = [task EXCEPT ![p].todo = <<>>]
    /\ UNCHANGED <<orderVars, brokerVars, faultVars>>

SettleNext(p) ==
    /\ ToSettle(p)
    /\ Inv!BeginSettle(p, Head(task[p].todo), task[p].op)
    /\ task' = [task EXCEPT ![p].todo = Tail(@)]
    /\ UNCHANGED <<orderVars, brokerVars, faultVars>>

SettleRefused(p) ==
    /\ ToSettle(p)
    /\ lock[Head(task[p].todo)].status # "locked"
    /\ task' = [task EXCEPT ![p].todo = Tail(@)]
    /\ UNCHANGED <<inventoryVars, orderVars, brokerVars, faultVars>>

(* The handler returns; the consumer acknowledges its message.              *)
SettleDone(p) ==
    /\ task[p].at = "settle" /\ task[p].todo = <<>> /\ Replied(p)
    /\ Becomes(p, Rest(p))
    /\ UNCHANGED <<inventoryVars, orderVars, brokerVars, faultVars>>

-----------------------------------------------------------------------------
(* The payment service (see Payments) and the broker.                       *)
PaymentEvent(o) ==
    /\ o \in Payable
    /\ order[o] # "none"
    /\ events[o] < MaxEvents
    /\ events' = [events EXCEPT ![o] = @ + 1]
    /\ queue' = [queue EXCEPT ![o] = @ + 1]
    /\ UNCHANGED <<inventoryVars, orderVars, task, faultVars>>

(* The inventory goes on with the calls it has.                             *)
InventoryStep(p) ==
    /\ Inv!Progress(p)
    /\ UNCHANGED <<orderVars, brokerVars, task, faultVars>>

-----------------------------------------------------------------------------
(* Faults, MaxFaults of them.                                               *)

Fault == faults < MaxFaults /\ faults' = faults + 1

(* A process of the order service stops, or loses its database: what it     *)
(* still had to do is lost; a message not acknowledged is delivered again.  *)
Crash(p) ==
    /\ Fault
    /\ task[p] \notin {Idle, Done}
    /\ Becomes(p, Rest(p))
    /\ queue' = IF p \in Consumers THEN [queue EXCEPT ![task[p].order] = @ + 1] ELSE queue
    /\ UNCHANGED <<inventoryVars, orderVars, events, skipped, unsure>>

(* LockStock commits but its reply is lost: CreateOrder takes it for an     *)
(* error, and nobody knows the lock id.                                     *)
LockReplyLost(o, l) ==
    /\ Fault
    /\ MoreToLock(o)
    /\ Inv!LockStock(o, NextItem(o).book, l, NextItem(o).quantity)
    /\ Becomes(o, SettleTask(o, "release", task[o].locks))
    /\ UNCHANGED <<orderVars, brokerVars, skipped, unsure>>

InsertFails(o) ==
    /\ Fault
    /\ AllLocked(o)
    /\ Becomes(o, SettleTask(o, "release", task[o].locks))
    /\ UNCHANGED <<inventoryVars, orderVars, brokerVars, skipped, unsure>>

(* The COMMIT is done but its reply is lost: CreateOrder takes it for a      *)
(* failure and releases the locks of an order that exists.                  *)
InsertReplyLost(o) ==
    /\ LostCommits
    /\ Fault
    /\ AllLocked(o)
    /\ order' = [order EXCEPT ![o] = "pending_payment"]
    /\ held' = [held EXCEPT ![o] = task[o].locks]
    /\ unsure' = unsure \cup {o}
    /\ Becomes(o, SettleTask(o, "release", task[o].locks))
    /\ UNCHANGED <<inventoryVars, brokerVars, skipped>>

(* A call fails on its way or in its transaction: CreateOrder gives back    *)
(* what it has, a loop goes on.                                             *)
CallFails(p) ==
    /\ Fault
    /\ \/ /\ MoreToLock(p) /\ Replied(p)
          /\ Becomes(p, SettleTask(p, "release", task[p].locks))
          /\ UNCHANGED inventoryVars
       \/ /\ ToSettle(p)
          /\ task' = [task EXCEPT ![p].todo = Tail(@)]
          /\ UNCHANGED inventoryVars
       \/ Inv!Abort(p) /\ UNCHANGED task
    /\ skipped' = skipped \cup {o \in Orders : task[p] \in Settling /\ task[p].order = o}
    /\ UNCHANGED <<orderVars, brokerVars, unsure>>

-----------------------------------------------------------------------------
Work(p) ==
    \/ \E l \in Locks : LockItem(p, l)
    \/ LockRefused(p) \/ InsertOrder(p)
    \/ CancelWrite(p) \/ StatusWrite(p)
    \/ SettleNext(p) \/ SettleRefused(p) \/ SettleDone(p)
    \/ InventoryStep(p)

Request ==
    \/ \E o \in Orders : CreateOrder(o) \/ PaymentEvent(o)
    \/ \E p \in Cancels, o \in Cancellable : CancelRead(p, o)
    \/ \E p \in Clerks, o \in Orders, s \in Statuses : UpdateOrderStatus(p, o, s)

Failure ==
    \/ \E p \in Processes : Crash(p) \/ CallFails(p)
    \/ \E o \in Orders : InsertFails(o) \/ InsertReplyLost(o) \/ \E l \in Locks : LockReplyLost(o, l)

Next ==
    \/ Request
    \/ Failure
    \/ \E p \in Processes : Work(p)
    \/ \E p \in Consumers, o \in Orders : ReceivePayment(p, o)

Spec == Init /\ [][Next]_vars

(* Accepted requests and calls go on, and the consumer takes messages that  *)
(* wait; new requests and faults may or may not come.                       *)
FairSpec ==
    /\ Spec
    /\ \A p \in Processes : WF_vars(Work(p))
    /\ \A p \in Consumers, o \in Orders : WF_vars(ReceivePayment(p, o))

-----------------------------------------------------------------------------
(* Properties.                                                              *)

(* The types of the order tables, the tasks and the queue.                  *)
TypeOK ==
    /\ Inv!TypeOK
    /\ order \in [Orders -> {"none"} \cup Statuses]
    /\ held \in [Orders -> Seq(Locks)]
    /\ task \in [Processes ->
                   {Idle, Done} \cup Locking \cup Cancelling \cup Updating \cup Settling]
    /\ queue \in [Orders -> 0 .. MaxEvents]
    /\ events \in [Orders -> 0 .. MaxEvents]
    /\ faults \in 0 .. MaxFaults
    /\ skipped \subseteq Orders /\ unsure \subseteq Orders

HeldLocks(o) == {held[o][i] : i \in DOMAIN held[o]}

AllHeld(o, s) == \A l \in HeldLocks(o) : lock[l].status = s

(* An order that waits for its payment holds a live reservation of exactly  *)
(* its items, whatever failed or raced before - only not one that was        *)
(* written while CreateOrder saw its transaction fail.                      *)
PendingHoldsLocks ==
    \A o \in Orders : order[o] = "pending_payment" /\ o \notin unsure =>
        /\ Len(held[o]) = Len(Items[o])
        /\ \A i \in DOMAIN Items[o] :
             lock[held[o][i]] = [status |-> "locked", book |-> Items[o][i].book,
                                 quantity |-> Items[o][i].quantity]

(* The shelf covers what is promised to orders, whatever failed; only where *)
(* CreateOrder releases the locks of an order that exists may the payment   *)
(* settle them at the same time.                                            *)
PromisesCovered == unsure = {} => Inv!NoOversell

(* The process still has to give back or take the lock.                     *)
InHand(l) ==
    \E p \in Processes :
        \/ task[p].at = "lock" /\ l \in {task[p].locks[i] : i \in DOMAIN task[p].locks}
        \/ task[p].at = "settle" /\ l \in {task[p].todo[i] : i \in DOMAIN task[p].todo}
        \/ call[p] \in Inv!Settling /\ call[p].lock = l

(* Without faults no reservation loses its owner, whoever races: the lock    *)
(* id is with a process that will settle it, or recorded with an order.     *)
NoOrphanReservation ==
    faults = 0 => \A l \in Locks : lock[l].status = "locked" =>
        InHand(l) \/ \E o \in Orders : l \in HeldLocks(o)

Busy(o) == \E p \in Processes :
    task[p].at \in {"cancel", "update", "settle"} /\ task[p].order = o

(* Once nothing works on an order any more, its locks are what its status   *)
(* says: deducted for a paid order, released for a cancelled one.  A        *)
(* consumer that stopped in between has left the payment's message in the   *)
(* queue.  For the orders CancelOrder and the consumer move, one at a time, *)
(* whose calls to the inventory were answered; a status set by              *)
(* UpdateOrderStatus moves no lock.                                         *)
LocksFollowStatus ==
    \A o \in Orders : ~Busy(o) /\ o \notin skipped \cup unsure =>
        /\ order[o] = "paid" => AllHeld(o, "deducted") \/ queue[o] > 0
        /\ order[o] = "cancelled" => AllHeld(o, "released") \/ faults > 0

(* The status of an order changes only as validTransitions allows.          *)
StatusFollowsTransitions ==
    [][\A o \in Orders : order'[o] # order[o] =>
         \/ order[o] = "none" /\ order'[o] = "pending_payment"
         \/ isValidTransition(order[o], order'[o])]_vars

(* A checkout is all or nothing: what it locks ends up in an order or is    *)
(* released again, also when two baskets take each other's books.           *)
CheckoutCompensates ==
    \A o \in Orders, l \in Locks :
        (task[o].at = "lock" /\ l \in {task[o].locks[i] : i \in DOMAIN task[o].locks}) ~>
            (order[o] # "none" \/ lock[l].status = "released" \/ faults > 0)

(* The stock of an order whose payment has arrived is deducted in the end,  *)
(* also when it is paid twice.                                              *)
PaymentDeductsStock ==
    \A o \in Orders :
        (queue[o] > 0) ~> ((order[o] = "paid" /\ AllHeld(o, "deducted")) \/ faults > 0)
=============================================================================
