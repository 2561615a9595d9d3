------------------------------ MODULE Inventory ------------------------------
(***************************************************************************)
(* The inventory service: the store_inventory rows of one shard, the        *)
(* inventory_locks that reserve copies of a book for an order, and the      *)
(* Redis cache in front of the rows.                                        *)
(*                                                                          *)
(* Requests are served concurrently.  A MySQL transaction is split where    *)
(* other requests can get in between: ReleaseStock and DeductStock first    *)
(* read the lock record with a plain SELECT and only then take the row of   *)
(* store_inventory FOR UPDATE, so each is a read step and a commit step.    *)
(* LockStock takes the row first and is one step.  What follows a commit,   *)
(* the DEL of the cache key, is a step of its own.                          *)
(*                                                                          *)
(* A definition marked "Mutation:" is a plausible bug in the definition it  *)
(* precedes; putting it in that one's place must break the property named.  *)
(***************************************************************************)
EXTENDS Integers, FiniteSets

CONSTANTS
    Books,            \* the (store_id, book_id) keys
    Locks,            \* the lock ids uuid.New() draws from, each used once
    Calls,            \* slots for the requests in flight
    Quantities,       \* the quantities LockStock is asked for
    SetQuantities,    \* the quantities SetStock is asked for
    InitialRows,      \* the books that have a row at the start
    InitialQuantity,  \* and their quantities
    ExclusiveSettle,  \* callers never settle one lock twice at the same time
    Faulty            \* requests may be cut off: crash, deadline, Redis error

ASSUME InventoryConstants ==
    /\ IsFiniteSet(Locks)
    /\ Quantities \subseteq Nat \ {0}
    /\ SetQuantities \subseteq Nat
    /\ InitialRows \subseteq Books
    /\ InitialQuantity \in [Books -> Nat]
    /\ ExclusiveSettle \in BOOLEAN
    /\ Faulty \in BOOLEAN

VARIABLES
    rows,   \* the books with a row in store_inventory
    stock,  \* the quantity and locked_quantity columns
    lock,   \* inventory_locks; "free" is an id not drawn yet
    cache,  \* Redis: {} is a miss, {r} a hit on the row value r
    call    \* what each request in flight does next

vars == <<rows, stock, lock, cache, call>>

Row == [quantity: Nat, locked: Nat]
Settled == {"released", "deducted"}
LockRecord == [status: {"free"}]
              \cup [status: {"locked"} \cup Settled, book: Books, quantity: Quantities]

Idle == [op |-> "idle"]
Settling == [op: {"release", "deduct"}, lock: Locks]
Creating == [op: {"create"}, book: Books, quantity: SetQuantities]
Invalidating == [op: {"invalidate"}, book: Books]
Filling == [op: {"fill"}, book: Books, row: Row]

Init ==
    /\ rows = InitialRows
    /\ stock = [b \in Books |->
                  [quantity |-> IF b \in InitialRows THEN InitialQuantity[b] ELSE 0,
                   locked |-> 0]]
    /\ lock = [l \in Locks |-> [status |-> "free"]]
    /\ cache = [b \in Books |-> {}]
    /\ call = [c \in Calls |-> Idle]

-----------------------------------------------------------------------------
(* LockStock: reserve q copies under a fresh lock id, or refuse.            *)

(* Mutation: reserved copies are promised again (NoOversell).               *)
AvailableOnShelf(b) == stock[b].quantity

Available(b) == stock[b].quantity - stock[b].locked

(* Mutation: no check of what is left (DeductTakesStock).                   *)
CanAlwaysLock(b, q) == b \in rows

CanLock(b, q) == b \in rows /\ Available(b) >= q

LockStock(c, b, l, q) ==
    /\ call[c] = Idle
    /\ lock[l].status = "free"
    /\ CanLock(b, q)
    /\ stock' = [stock EXCEPT ![b].locked = @ + q]
    /\ lock' = [lock EXCEPT ![l] = [status |-> "locked", book |-> b, quantity |-> q]]
    /\ call' = [call EXCEPT ![c] = [op |-> "invalidate", book |-> b]]
    /\ UNCHANGED <<rows, cache>>

(* Mutation: the record is found whatever its status (SettledForGood).      *)
BeginSettleAny(c, l, op) ==
    /\ call[c] = Idle
    /\ lock[l].status # "free"
    /\ call' = [call EXCEPT ![c] = [op |-> op, lock |-> l]]
    /\ UNCHANGED <<rows, stock, lock, cache>>

(* ReleaseStock and DeductStock: the first read finds the record only while *)
(* its status is locked; a lock already settled is an error and no step.    *)
BeginSettle(c, l, op) ==
    /\ call[c] = Idle
    /\ lock[l].status = "locked"
    /\ call' = [call EXCEPT ![c] = [op |-> op, lock |-> l]]
    /\ UNCHANGED <<rows, stock, lock, cache>>

(* The guarded UPDATE of the row: no row matches when the guard fails, and  *)
(* the code does not look at how many did.                                  *)
ReleasedRow(r, q) ==
    IF r.locked >= q THEN [r EXCEPT !.locked = @ - q] ELSE r

(* Mutations: the reservation stays counted (LedgerExact); the copies stay  *)
(* on the shelf (StockConserved); no guard on the UPDATE (TypeOK).          *)
DeductedRowStillLocked(r, q) ==
    IF r.quantity >= q /\ r.locked >= q THEN [r EXCEPT !.quantity = @ - q] ELSE r

DeductedRowStillThere(r, q) ==
    IF r.quantity >= q /\ r.locked >= q THEN [r EXCEPT !.locked = @ - q] ELSE r

DeductedRowUnguarded(r, q) == [quantity |-> r.quantity - q, locked |-> r.locked - q]

DeductedRow(r, q) ==
    IF r.quantity >= q /\ r.locked >= q
      THEN [quantity |-> r.quantity - q, locked |-> r.locked - q]
      ELSE r

(* The status is written by primary key, whatever it is by now.             *)
CommitRelease(c) ==
    /\ call[c].op = "release"
    /\ LET l == call[c].lock
           b == lock[l].book
       IN /\ stock' = [stock EXCEPT ![b] = ReleasedRow(@, lock[l].quantity)]
          /\ lock' = [lock EXCEPT ![l].status = "released"]
          /\ call' = [call EXCEPT ![c] = [op |-> "invalidate", book |-> b]]
    /\ UNCHANGED <<rows, cache>>

CommitDeduct(c) ==
    /\ call[c].op = "deduct"
    /\ LET l == call[c].lock
           b == lock[l].book
       IN /\ stock' = [stock EXCEPT ![b] = DeductedRow(@, lock[l].quantity)]
          /\ lock' = [lock EXCEPT ![l].status = "deducted"]
          /\ call' = [call EXCEPT ![c] = [op |-> "invalidate", book |-> b]]
    /\ UNCHANGED <<rows, cache>>

-----------------------------------------------------------------------------
(* SetStock: overwrite the quantity of an existing row, or create the row.  *)

(* Mutation: the whole row is saved, not the one column                     *)
(* (ReservationsCovered).                                                   *)
SetStockSavesRow(c, b, q) ==
    /\ call[c] = Idle
    /\ b \in rows
    /\ stock' = [stock EXCEPT ![b] = [quantity |-> q, locked |-> 0]]
    /\ call' = [call EXCEPT ![c] = [op |-> "invalidate", book |-> b]]
    /\ UNCHANGED <<rows, lock, cache>>

SetStockExisting(c, b, q) ==
    /\ call[c] = Idle
    /\ b \in rows
    /\ stock' = [stock EXCEPT ![b].quantity = q]
    /\ call' = [call EXCEPT ![c] = [op |-> "invalidate", book |-> b]]
    /\ UNCHANGED <<rows, lock, cache>>

SetStockMissing(c, b, q) ==
    /\ call[c] = Idle
    /\ b \notin rows
    /\ call' = [call EXCEPT ![c] = [op |-> "create", book |-> b, quantity |-> q]]
    /\ UNCHANGED <<rows, stock, lock, cache>>

(* The INSERT; the unique index on (store_id, book_id) rejects a second one. *)
CreateRow(c) ==
    /\ call[c].op = "create"
    /\ LET b == call[c].book
       IN \/ /\ b \notin rows
             /\ rows' = rows \cup {b}
             /\ stock' = [stock EXCEPT ![b] = [quantity |-> call[c].quantity, locked |-> 0]]
             /\ call' = [call EXCEPT ![c] = [op |-> "invalidate", book |-> b]]
          \/ /\ b \in rows
             /\ call' = [call EXCEPT ![c] = Idle]
             /\ UNCHANGED <<rows, stock>>
    /\ UNCHANGED <<lock, cache>>

-----------------------------------------------------------------------------
(* The cache: DEL after every commit; GetStock reads the row on a miss and  *)
(* stores what it read.  A hit changes nothing and is no step.              *)

InvalidateCache(c) ==
    /\ call[c].op = "invalidate"
    /\ cache' = [cache EXCEPT ![call[c].book] = {}]
    /\ call' = [call EXCEPT ![c] = Idle]
    /\ UNCHANGED <<rows, stock, lock>>

GetStockMiss(c, b) ==
    /\ call[c] = Idle
    /\ b \in rows
    /\ cache[b] = {}
    /\ call' = [call EXCEPT ![c] = [op |-> "fill", book |-> b, row |-> stock[b]]]
    /\ UNCHANGED <<rows, stock, lock, cache>>

CacheStock(c) ==
    /\ call[c].op = "fill"
    /\ cache' = [cache EXCEPT ![call[c].book] = {call[c].row}]
    /\ call' = [call EXCEPT ![c] = Idle]
    /\ UNCHANGED <<rows, stock, lock>>

(* Mutation: the key is stored without a TTL (StaleEntryEnds).              *)
CacheNeverExpires(b) ==
    /\ cache[b] # {} /\ cache[b] = {}
    /\ UNCHANGED vars

(* stockCacheTTL runs out.                                                  *)
CacheExpire(b) ==
    /\ cache[b] # {}
    /\ cache' = [cache EXCEPT ![b] = {}]
    /\ UNCHANGED <<rows, stock, lock, call>>

(* A request is cut off between two steps: an uncommitted transaction rolls *)
(* back, a committed one loses its DEL (Redis errors are ignored).          *)
Abort(c) ==
    /\ Faulty
    /\ call[c] # Idle
    /\ call' = [call EXCEPT ![c] = Idle]
    /\ UNCHANGED <<rows, stock, lock, cache>>

-----------------------------------------------------------------------------
(* ExclusiveSettle restricts the callers, not the service.                  *)
MaySettle(l) ==
    ExclusiveSettle => \A d \in Calls : call[d] \in Settling => call[d].lock # l

Progress(c) ==
    CommitRelease(c) \/ CommitDeduct(c) \/ CreateRow(c) \/ InvalidateCache(c) \/ CacheStock(c)

Request(c) ==
    \/ \E b \in Books, l \in Locks, q \in Quantities : LockStock(c, b, l, q)
    \/ \E l \in Locks, op \in {"release", "deduct"} : MaySettle(l) /\ BeginSettle(c, l, op)
    \/ \E b \in Books, q \in SetQuantities : SetStockExisting(c, b, q)
    \/ \E b \in Books, q \in SetQuantities : SetStockMissing(c, b, q)
    \/ \E b \in Books : GetStockMiss(c, b)

Next ==
    \/ \E c \in Calls : Request(c) \/ Progress(c) \/ Abort(c)
    \/ \E b \in Books : CacheExpire(b)

Spec == Init /\ [][Next]_vars

(* A request the service has accepted runs on; Redis expires keys.          *)
FairSpec ==
    /\ Spec
    /\ \A c \in Calls : WF_vars(Progress(c))
    /\ \A b \in Books : WF_vars(CacheExpire(b))

-----------------------------------------------------------------------------
(* Properties.  A lock of n copies stands for n units; counting units as    *)
(* the cardinality of a set keeps sums out of the formulas.                 *)

Units(l) == {l} \X (1 .. lock[l].quantity)
LocksOf(b, s) == {l \in Locks : lock[l].status = s /\ lock[l].book = b}
Reserved(b) == UNION {Units(l) : l \in LocksOf(b, "locked")}
Sold(b) == UNION {Units(l) : l \in LocksOf(b, "deducted")}

(* The types of the tables, the cache and the requests; in particular       *)
(* neither column of store_inventory ever goes below zero, whatever races.  *)
TypeOK ==
    /\ rows \subseteq Books
    /\ stock \in [Books -> Row]
    /\ lock \in [Locks -> LockRecord]
    /\ cache \in [Books -> SUBSET Row]
    /\ call \in [Calls -> {Idle} \cup Settling \cup Creating \cup Invalidating \cup Filling]

(* Every outstanding reservation is covered by locked_quantity, also while  *)
(* SetStock moves quantity under it: LockStock never promises the same copy *)
(* twice because another reservation dropped out of the count.              *)
ReservationsCovered == \A b \in Books : Cardinality(Reserved(b)) <= stock[b].locked

(* Without SetStock, locked_quantity is exactly the outstanding             *)
(* reservations: no release or deduction is lost or applied twice.          *)
LedgerExact ==
    SetQuantities = {} => \A b \in Books : stock[b].locked = Cardinality(Reserved(b))

(* The service's purpose: the copies promised to orders exist on the shelf. *)
NoOversell ==
    SetQuantities = {} => \A b \in Books : Cardinality(Reserved(b)) <= stock[b].quantity

(* Each deducted lock took its copies off the shelf exactly once.           *)
StockConserved ==
    SetQuantities = {} =>
        \A b \in rows : stock[b].quantity + Cardinality(Sold(b)) = InitialQuantity[b]

(* A settled lock stays as it was settled: what was released is not deducted *)
(* later, nor the other way round.                                          *)
SettledForGood ==
    [][\A l \in Locks : lock[l].status \in Settled => lock'[l] = lock[l]]_vars

(* Marking a lock Deducted takes its copies off the shelf in the same step. *)
DeductTakesStock ==
    [][\A l \in Locks :
         (lock[l].status # "deducted" /\ lock'[l].status = "deducted") =>
            stock'[lock[l].book].quantity = stock[lock[l].book].quantity - lock[l].quantity]_vars

(* Whatever raced, a stale entry is not served for ever.                    *)
StaleEntryEnds ==
    \A b \in Books : (cache[b] \notin {{}, {stock[b]}}) ~> (cache[b] \in {{}, {stock[b]}})

(* Where SetStock does not interfere, the service is a shelf of copies:     *)
(* what LockStock may reserve is quantity less locked_quantity, and the     *)
(* commits of the three transactions are the moves.                         *)
Promise == INSTANCE Shelf WITH
    shelf <- [b \in Books |-> Available(b)],
    Copies <- [b \in Books |-> IF b \in InitialRows THEN InitialQuantity[b] ELSE 0]

ImplementsShelf == Promise!Spec
=============================================================================
