--------------------------- MODULE InventoryProofs ---------------------------
(***************************************************************************)
(* Theorems about the inventory service, for every number of books, locks,  *)
(* requests and quantities.                                                 *)
(***************************************************************************)
EXTENDS Inventory, FiniteSetTheorems, TLAPS

(* A lock being settled was drawn: CommitRelease and CommitDeduct read the  *)
(* book and quantity of a record that is there.                             *)
SettlesDrawn ==
    \A c \in Calls : call[c] \in Settling => lock[call[c].lock].status # "free"

TypeInv == TypeOK /\ SettlesDrawn

LEMMA InitTypeInv == Init => TypeInv
BY InventoryConstants
   DEF Init, TypeInv, TypeOK, SettlesDrawn, Row, LockRecord, Idle, Settling

(* The rows the guarded UPDATEs leave behind are rows: no column goes below *)
(* zero.                                                                    *)
LEMMA UpdatedRows ==
    ASSUME NEW r \in Row, NEW q \in Quantities
    PROVE  ReleasedRow(r, q) \in Row /\ DeductedRow(r, q) \in Row
<1>1. q \in Nat
  BY InventoryConstants
<1> QED
  BY <1>1 DEF ReleasedRow, DeductedRow, Row

LEMMA NextTypeInv == TypeInv /\ [Next]_vars => TypeInv'
<1> SUFFICES ASSUME TypeInv, [Next]_vars PROVE TypeInv'
  OBVIOUS
<1> USE DEF TypeInv, TypeOK, SettlesDrawn
<1>1. ASSUME NEW c \in Calls, NEW b \in Books, NEW l \in Locks, NEW q \in Quantities,
             LockStock(c, b, l, q)
      PROVE  TypeInv'
  <2>1. q \in Nat
    BY InventoryConstants
  <2>2. stock' \in [Books -> Row]
    BY <1>1, <2>1 DEF LockStock, Row
  <2>3. lock' \in [Locks -> LockRecord]
    BY <1>1 DEF LockStock, LockRecord
  <2>4. call' \in [Calls -> {Idle} \cup Settling \cup Creating \cup Invalidating \cup Filling]
    BY <1>1 DEF LockStock, Invalidating
  <2>5. SettlesDrawn'
    BY <1>1 DEF LockStock, Settling
  <2> QED
    BY <1>1, <2>2, <2>3, <2>4, <2>5 DEF LockStock
<1>2. ASSUME NEW c \in Calls, NEW l \in Locks, NEW op \in {"release", "deduct"},
             BeginSettle(c, l, op)
      PROVE  TypeInv'
  BY <1>2 DEF BeginSettle, Settling
<1>3. ASSUME NEW c \in Calls, CommitRelease(c) \/ CommitDeduct(c)
      PROVE  TypeInv'
  <2> DEFINE l == call[c].lock
             b == lock[l].book
             q == lock[l].quantity
  <2>1. /\ call[c] \in Settling
        /\ l \in Locks
        /\ lock[l].status # "free"
    BY <1>3 DEF CommitRelease, CommitDeduct, Idle, Settling, Creating, Invalidating, Filling
  <2>2. lock[l] \in [status: {"locked"} \cup Settled, book: Books, quantity: Quantities]
    BY <2>1 DEF LockRecord
  <2>3. b \in Books /\ q \in Quantities
    BY <2>2
  <2>4. stock' \in [Books -> Row]
    BY <1>3, <2>3, UpdatedRows DEF CommitRelease, CommitDeduct
  <2>5. lock' \in [Locks -> LockRecord]
    BY <1>3, <2>1, <2>2 DEF CommitRelease, CommitDeduct, LockRecord, Settled
  <2>6. call' \in [Calls -> {Idle} \cup Settling \cup Creating \cup Invalidating \cup Filling]
    BY <1>3, <2>3 DEF CommitRelease, CommitDeduct, Invalidating
  <2>7. \A k \in Locks : lock[k].status # "free" => lock'[k].status # "free"
    BY <1>3, <2>1, <2>2 DEF CommitRelease, CommitDeduct
  <2>8. SettlesDrawn'
    BY <1>3, <2>7 DEF CommitRelease, CommitDeduct, Settling
  <2> QED
    BY <1>3, <2>4, <2>5, <2>6, <2>8 DEF CommitRelease, CommitDeduct
<1>4. ASSUME NEW c \in Calls, NEW b \in Books, NEW q \in SetQuantities,
             SetStockExisting(c, b, q) \/ SetStockMissing(c, b, q)
      PROVE  TypeInv'
  <2>1. q \in Nat
    BY InventoryConstants
  <2>2. stock' \in [Books -> Row]
    BY <1>4, <2>1 DEF SetStockExisting, SetStockMissing, Row
  <2>3. call' \in [Calls -> {Idle} \cup Settling \cup Creating \cup Invalidating \cup Filling]
    BY <1>4 DEF SetStockExisting, SetStockMissing, Creating, Invalidating
  <2>4. SettlesDrawn'
    BY <1>4 DEF SetStockExisting, SetStockMissing, Settling
  <2> QED
    BY <1>4, <2>2, <2>3, <2>4 DEF SetStockExisting, SetStockMissing
<1>5. ASSUME NEW c \in Calls, CreateRow(c)
      PROVE  TypeInv'
  <2>1. call[c] \in Creating
    BY <1>5 DEF CreateRow, Idle, Settling, Creating, Invalidating, Filling
  <2>2. call[c].book \in Books /\ call[c].quantity \in Nat
    BY <2>1, InventoryConstants DEF Creating
  <2> QED
    BY <1>5, <2>2 DEF CreateRow, Row, Idle, Settling, Invalidating
<1>6. ASSUME NEW c \in Calls, NEW b \in Books, GetStockMiss(c, b)
      PROVE  TypeInv'
  BY <1>6 DEF GetStockMiss, Filling, Settling
<1>7. ASSUME NEW c \in Calls, CacheStock(c)
      PROVE  TypeInv'
  <2>1. call[c] \in Filling
    BY <1>7 DEF CacheStock, Idle, Settling, Creating, Invalidating, Filling
  <2>2. call[c].book \in Books /\ call[c].row \in Row
    BY <2>1 DEF Filling
  <2> QED
    BY <1>7, <2>2 DEF CacheStock, Idle, Settling
<1>8. ASSUME NEW c \in Calls, InvalidateCache(c) \/ Abort(c)
      PROVE  TypeInv'
  BY <1>8 DEF InvalidateCache, Abort, Idle, Settling
<1>9. ASSUME NEW b \in Books, CacheExpire(b)
      PROVE  TypeInv'
  BY <1>9 DEF CacheExpire
<1>10. CASE UNCHANGED vars
  BY <1>10 DEF vars
<1> QED
  BY <1>1, <1>2, <1>3, <1>4, <1>5, <1>6, <1>7, <1>8, <1>9, <1>10
  DEF Next, Request, Progress

(* Whatever requests race, are cut off or settle one lock twice, the tables *)
(* keep their types; in particular quantity and locked_quantity never go    *)
(* below zero (the WHERE clauses of ReleaseStock and DeductStock).          *)
THEOREM TypeCorrect == Spec => []TypeOK
<1>1. TypeInv => TypeOK
  BY DEF TypeInv
<1> QED
  BY InitTypeInv, NextTypeInv, <1>1, PTL DEF Spec

-----------------------------------------------------------------------------
(* The ledger.  From here on callers do not settle one lock twice at once   *)
(* (ExclusiveSettle); the run MCCheckoutOversell shows what happens else.  *)

(* Between its two reads, a lock being settled stays locked ...             *)
SettlesLive ==
    \A c \in Calls : call[c] \in Settling => lock[call[c].lock].status = "locked"

(* ... because no other request settles it.                                 *)
SettlesApart ==
    \A c, d \in Calls :
        (call[c] \in Settling /\ call[d] \in Settling /\ call[c].lock = call[d].lock) => c = d

(* One book: its units are finitely many, the columns are empty while it    *)
(* has no row, locked_quantity covers the reservations, and when no SetStock *)
(* interferes the columns are exactly what the locks add up to.             *)
Balanced(b) ==
    /\ IsFiniteSet(Reserved(b)) /\ IsFiniteSet(Sold(b))
    /\ b \notin rows => stock[b].quantity = 0 /\ stock[b].locked = 0
    /\ Cardinality(Reserved(b)) <= stock[b].locked
    /\ SetQuantities = {} =>
         /\ stock[b].locked = Cardinality(Reserved(b))
         /\ Cardinality(Reserved(b)) <= stock[b].quantity
         /\ b \in rows => stock[b].quantity + Cardinality(Sold(b)) = InitialQuantity[b]

Protocol == TypeInv /\ SettlesLive /\ SettlesApart

Ledger == \A b \in Books : Balanced(b)

LedgerInv == Protocol /\ Ledger

LEMMA InitLedgerInv == Init => LedgerInv
<1> SUFFICES ASSUME Init PROVE LedgerInv
  OBVIOUS
<1>1. TypeInv
  BY InitTypeInv
<1>2. SettlesLive /\ SettlesApart
  BY DEF Init, SettlesLive, SettlesApart, Idle, Settling
<1>3. ASSUME NEW b \in Books PROVE Balanced(b)
  <2>1. Reserved(b) = {} /\ Sold(b) = {}
    BY DEF Init, Reserved, Sold, LocksOf
  <2>2. /\ IsFiniteSet(Reserved(b)) /\ IsFiniteSet(Sold(b))
        /\ Cardinality(Reserved(b)) = 0 /\ Cardinality(Sold(b)) = 0
    BY <2>1, FS_EmptySet
  <2> QED
    BY <2>2, InventoryConstants DEF Init, Balanced
<1> QED
  BY <1>1, <1>2, <1>3 DEF LedgerInv, Ledger, Protocol

LEMMA NextProtocol ==
    ASSUME ExclusiveSettle, Protocol, [Next]_vars
    PROVE  Protocol'
<1> USE DEF SettlesLive, SettlesApart
<1>1. TypeInv /\ TypeInv'
  BY NextTypeInv DEF Protocol
<1>2. call \in [Calls -> {Idle} \cup Settling \cup Creating \cup Invalidating \cup Filling]
  BY <1>1 DEF TypeInv, TypeOK
<1>3. SettlesLive' /\ SettlesApart'
  <2> USE DEF Protocol
  <2>1. ASSUME NEW c \in Calls, NEW b \in Books, NEW l \in Locks, NEW q \in Quantities,
               LockStock(c, b, l, q)
        PROVE  SettlesLive' /\ SettlesApart'
    BY <2>1, <1>1, <1>2 DEF LockStock, TypeInv, TypeOK, Settling
  <2>2. ASSUME NEW c \in Calls, NEW l \in Locks, NEW op \in {"release", "deduct"},
               MaySettle(l), BeginSettle(c, l, op)
        PROVE  SettlesLive' /\ SettlesApart'
    BY <2>2, <1>2, ExclusiveSettle DEF BeginSettle, MaySettle, Settling
  <2>3. ASSUME NEW c \in Calls, CommitRelease(c) \/ CommitDeduct(c)
        PROVE  SettlesLive' /\ SettlesApart'
    <3>1. call[c] \in Settling /\ call'[c] \notin Settling
      BY <2>3, <1>2
      DEF CommitRelease, CommitDeduct, Idle, Settling, Creating, Invalidating, Filling
    <3>2. \A d \in Calls \ {c} : call'[d] = call[d]
      BY <2>3, <1>2 DEF CommitRelease, CommitDeduct
    <3>3. \A k \in Locks \ {call[c].lock} : lock'[k] = lock[k]
      BY <2>3, <1>1 DEF CommitRelease, CommitDeduct, TypeInv, TypeOK
    <3> QED
      BY <3>1, <3>2, <3>3 DEF Settling
  <2>4. ASSUME NEW c \in Calls, NEW b \in Books, NEW q \in SetQuantities,
               SetStockExisting(c, b, q) \/ SetStockMissing(c, b, q)
        PROVE  SettlesLive' /\ SettlesApart'
    BY <2>4, <1>2 DEF SetStockExisting, SetStockMissing, Settling
  <2>5. ASSUME NEW c \in Calls, CreateRow(c) \/ InvalidateCache(c) \/ CacheStock(c) \/ Abort(c)
        PROVE  SettlesLive' /\ SettlesApart'
    BY <2>5, <1>2 DEF CreateRow, InvalidateCache, CacheStock, Abort, Idle, Settling
  <2>6. ASSUME NEW c \in Calls, NEW b \in Books, GetStockMiss(c, b)
        PROVE  SettlesLive' /\ SettlesApart'
    BY <2>6, <1>2 DEF GetStockMiss, Settling
  <2>7. CASE (\E b \in Books : CacheExpire(b)) \/ UNCHANGED vars
    BY <2>7 DEF CacheExpire, vars
  <2> QED
    BY <2>1, <2>2, <2>3, <2>4, <2>5, <2>6, <2>7 DEF Next, Request, Progress
<1> QED
  BY <1>1, <1>3 DEF Protocol

-----------------------------------------------------------------------------
(* Counting: n units of a lock added to, or taken from, a finite set.       *)

Lot(l, n) == {l} \X (1 .. n)

LEMMA UnitsOfLock ==
    ASSUME NEW l, NEW n \in Nat
    PROVE  IsFiniteSet(Lot(l, n)) /\ Cardinality(Lot(l, n)) = n
<1>1. IsFiniteSet({l}) /\ Cardinality({l}) = 1
  BY FS_Singleton
<1>2. IsFiniteSet(1 .. n) /\ Cardinality(1 .. n) = IF 1 > n THEN 0 ELSE n - 1 + 1
  BY FS_Interval
<1>3. Cardinality(1 .. n) = n
  BY <1>2
<1>4. IsFiniteSet(Lot(l, n)) /\ Cardinality(Lot(l, n)) = Cardinality({l}) * Cardinality(1 .. n)
  BY <1>1, <1>2, FS_Product DEF Lot
<1> QED
  BY <1>1, <1>3, <1>4

LEMMA AddUnits ==
    ASSUME NEW S, IsFiniteSet(S), NEW l, NEW n \in Nat, S \cap Lot(l, n) = {}
    PROVE  /\ IsFiniteSet(S \cup Lot(l, n))
           /\ Cardinality(S \cup Lot(l, n)) = Cardinality(S) + n
<1>1. IsFiniteSet(Lot(l, n)) /\ Cardinality(Lot(l, n)) = n
  BY UnitsOfLock
<1>2. /\ IsFiniteSet(S \cup Lot(l, n))
      /\ Cardinality(S \cup Lot(l, n)) =
            Cardinality(S) + Cardinality(Lot(l, n)) - Cardinality(S \cap Lot(l, n))
  BY <1>1, FS_Union
<1>3. Cardinality(S) \in Nat /\ Cardinality(S \cap Lot(l, n)) = 0
  BY FS_CardinalityType, FS_EmptySet, Zenon
<1> QED
  BY <1>1, <1>2, <1>3

LEMMA RemoveUnits ==
    ASSUME NEW S, IsFiniteSet(S), NEW l, NEW n \in Nat, Lot(l, n) \subseteq S
    PROVE  /\ IsFiniteSet(S \ Lot(l, n))
           /\ Cardinality(S \ Lot(l, n)) = Cardinality(S) - n
           /\ n <= Cardinality(S)
<1>1. IsFiniteSet(Lot(l, n)) /\ Cardinality(Lot(l, n)) = n
  BY UnitsOfLock
<1>2. S \cap Lot(l, n) = Lot(l, n)
  OBVIOUS
<1>3. /\ IsFiniteSet(S \ Lot(l, n))
      /\ Cardinality(S \ Lot(l, n)) = Cardinality(S) - Cardinality(S \cap Lot(l, n))
  BY FS_Difference
<1>4. Cardinality(Lot(l, n)) <= Cardinality(S)
  BY FS_Subset
<1> QED
  BY <1>1, <1>2, <1>3, <1>4, Zenon

(* What LockStock, ReleaseStock and DeductStock do to the units counted.    *)

LEMMA LockedUnits ==
    ASSUME TypeInv,
           NEW c \in Calls, NEW b \in Books, NEW l \in Locks, NEW q \in Quantities,
           LockStock(c, b, l, q)
    PROVE  /\ Reserved(b) \cap Lot(l, q) = {}
           /\ Reserved(b)' = Reserved(b) \cup Lot(l, q)
           /\ \A a \in Books \ {b} : Reserved(a)' = Reserved(a)
           /\ \A a \in Books : Sold(a)' = Sold(a)
<1>1. /\ lock[l].status = "free"
      /\ lock'[l] = [status |-> "locked", book |-> b, quantity |-> q]
      /\ \A k \in Locks \ {l} : lock'[k] = lock[k]
  BY DEF LockStock, TypeInv, TypeOK
<1>2. /\ LocksOf(b, "locked")' = LocksOf(b, "locked") \cup {l}
      /\ l \notin LocksOf(b, "locked")
      /\ \A a \in Books \ {b} : LocksOf(a, "locked")' = LocksOf(a, "locked")
      /\ \A a \in Books : LocksOf(a, "deducted")' = LocksOf(a, "deducted")
      /\ \A a \in Books : l \notin LocksOf(a, "locked") /\ l \notin LocksOf(a, "deducted")
  BY <1>1 DEF LocksOf
<1>3. /\ \A k \in Locks \ {l} : Units(k)' = Units(k)
      /\ Units(l)' = Lot(l, q)
  BY <1>1 DEF Units, Lot
<1>4. \A a \in Books : LocksOf(a, "locked") \subseteq Locks \ {l}
                       /\ LocksOf(a, "deducted") \subseteq Locks \ {l}
  BY <1>2 DEF LocksOf
<1>5. \A a \in Books \ {b} : Reserved(a)' = Reserved(a)
  BY <1>2, <1>3, <1>4 DEF Reserved
<1>6. \A a \in Books : Sold(a)' = Sold(a)
  BY <1>2, <1>3, <1>4 DEF Sold
<1>7. Reserved(b)' = Reserved(b) \cup Lot(l, q)
  BY <1>2, <1>3, <1>4 DEF Reserved
<1>8. Reserved(b) \cap Lot(l, q) = {}
  BY <1>4 DEF Reserved, Units, Lot
<1> QED
  BY <1>5, <1>6, <1>7, <1>8

LEMMA SettledUnits ==
    ASSUME Protocol, NEW c \in Calls, CommitRelease(c) \/ CommitDeduct(c)
    PROVE  \E l \in Locks, b \in Books, q \in Quantities :
             /\ l = call[c].lock /\ b = lock[l].book /\ q = lock[l].quantity
             /\ Lot(l, q) \subseteq Reserved(b)
             /\ Sold(b) \cap Lot(l, q) = {}
             /\ Reserved(b)' = Reserved(b) \ Lot(l, q)
             /\ CommitDeduct(c) => Sold(b)' = Sold(b) \cup Lot(l, q)
             /\ CommitRelease(c) => Sold(b)' = Sold(b)
             /\ \A a \in Books \ {b} : Reserved(a)' = Reserved(a) /\ Sold(a)' = Sold(a)
<1> PICK l, b, q : l = call[c].lock /\ b = lock[l].book /\ q = lock[l].quantity
  OBVIOUS
<1>1. /\ l \in Locks
      /\ lock[l].status = "locked"
      /\ lock[l] \in [status: {"locked"} \cup Settled, book: Books, quantity: Quantities]
  BY DEF Protocol, TypeInv, TypeOK, SettlesLive, CommitRelease, CommitDeduct, LockRecord,
         Idle, Settling, Creating, Invalidating, Filling
<1>2. b \in Books /\ q \in Quantities
  BY <1>1
<1>3. /\ CommitDeduct(c) => lock'[l].status = "deducted"
      /\ CommitRelease(c) => lock'[l].status = "released"
      /\ lock'[l].book = b
      /\ lock'[l].quantity = q
      /\ \A k \in Locks \ {l} : lock'[k] = lock[k]
  BY <1>1 DEF Protocol, TypeInv, TypeOK, CommitRelease, CommitDeduct
<1>4. \A k \in Locks : Units(k)' = Units(k)
  BY <1>1, <1>3 DEF Units
<1>5. /\ l \in LocksOf(b, "locked")
      /\ LocksOf(b, "locked")' = LocksOf(b, "locked") \ {l}
      /\ \A a \in Books \ {b} : LocksOf(a, "locked")' = LocksOf(a, "locked")
      /\ \A a \in Books \ {b} : LocksOf(a, "deducted")' = LocksOf(a, "deducted")
      /\ l \notin LocksOf(b, "deducted")
      /\ CommitDeduct(c) => LocksOf(b, "deducted")' = LocksOf(b, "deducted") \cup {l}
      /\ CommitRelease(c) => LocksOf(b, "deducted")' = LocksOf(b, "deducted")
  BY <1>1, <1>3 DEF LocksOf
<1>6. Units(l) = Lot(l, q)
  BY <1>1 DEF Units, Lot
<1>7. \A a, s : LocksOf(a, s) \subseteq Locks /\ LocksOf(a, s)' \subseteq Locks
  BY DEF LocksOf
<1>8. \A k, m \in Locks : k # m => Units(k) \cap Units(m) = {}
  BY DEF Units
<1>9. Lot(l, q) \subseteq Reserved(b)
  BY <1>5, <1>6 DEF Reserved
<1>10. Sold(b) \cap Lot(l, q) = {}
  BY <1>1, <1>5, <1>6, <1>7, <1>8 DEF Sold
<1>11. Reserved(b)' = Reserved(b) \ Lot(l, q)
  BY <1>4, <1>5, <1>6, <1>7, <1>8 DEF Reserved
<1>12. /\ CommitDeduct(c) => Sold(b)' = Sold(b) \cup Lot(l, q)
       /\ CommitRelease(c) => Sold(b)' = Sold(b)
  BY <1>1, <1>4, <1>5, <1>6, <1>7 DEF Sold
<1>13. \A a \in Books \ {b} : Reserved(a)' = Reserved(a) /\ Sold(a)' = Sold(a)
  BY <1>4, <1>5, <1>7 DEF Reserved, Sold
<1> QED
  BY <1>1, <1>2, <1>9, <1>10, <1>11, <1>12, <1>13

-----------------------------------------------------------------------------
(* Every step keeps the ledger.                                             *)

LEMMA SameBook ==
    ASSUME NEW b \in Books, Balanced(b), stock'[b] = stock[b], b \in rows' <=> b \in rows,
           Reserved(b)' = Reserved(b), Sold(b)' = Sold(b)
    PROVE  Balanced(b)'
BY Zenon DEF Balanced

LEMMA SettleLedger ==
    ASSUME Protocol, Ledger, NEW c \in Calls, CommitRelease(c) \/ CommitDeduct(c)
    PROVE  Ledger'
<1>1. PICK l \in Locks, b \in Books, q \in Quantities :
      /\ l = call[c].lock /\ b = lock[l].book /\ q = lock[l].quantity
      /\ Lot(l, q) \subseteq Reserved(b)
      /\ Sold(b) \cap Lot(l, q) = {}
      /\ Reserved(b)' = Reserved(b) \ Lot(l, q)
      /\ CommitDeduct(c) => Sold(b)' = Sold(b) \cup Lot(l, q)
      /\ CommitRelease(c) => Sold(b)' = Sold(b)
      /\ \A a \in Books \ {b} : Reserved(a)' = Reserved(a) /\ Sold(a)' = Sold(a)
  BY SettledUnits
<1>2. q \in Nat /\ q # 0
  BY <1>1, InventoryConstants
<1>3. Balanced(b)
  BY <1>1 DEF Ledger
<1>4. /\ IsFiniteSet(Reserved(b)) /\ IsFiniteSet(Sold(b))
      /\ Cardinality(Reserved(b)) \in Nat /\ Cardinality(Sold(b)) \in Nat
  BY <1>3, FS_CardinalityType DEF Balanced
<1>5. /\ IsFiniteSet(Reserved(b)')
      /\ Cardinality(Reserved(b)') = Cardinality(Reserved(b)) - q
      /\ q <= Cardinality(Reserved(b))
  <2>1. /\ IsFiniteSet(Reserved(b) \ Lot(l, q))
        /\ Cardinality(Reserved(b) \ Lot(l, q)) = Cardinality(Reserved(b)) - q
        /\ q <= Cardinality(Reserved(b))
    BY <1>1, <1>2, <1>4, RemoveUnits
  <2> QED
    BY <1>1, <2>1, Zenon
<1>6. stock[b].quantity \in Nat /\ stock[b].locked \in Nat
  BY <1>1 DEF Protocol, TypeInv, TypeOK, Row
<1>7. stock[b].locked >= q
  BY <1>2, <1>3, <1>4, <1>5, <1>6 DEF Balanced
<1>8. b \in rows
  BY <1>2, <1>3, <1>6, <1>7 DEF Balanced
<1>9. (\A a \in Books \ {b} : stock'[a] = stock[a]) /\ rows' = rows
  BY <1>1 DEF Protocol, TypeInv, TypeOK, CommitRelease, CommitDeduct
<1>10. ASSUME CommitDeduct(c) PROVE Balanced(b)'
  <2>1. IsFiniteSet(Sold(b)') /\ Cardinality(Sold(b)') = Cardinality(Sold(b)) + q
    BY <1>1, <1>2, <1>4, <1>10, AddUnits
  <2>2. stock'[b] = DeductedRow(stock[b], q)
    BY <1>1, <1>10 DEF Protocol, TypeInv, TypeOK, CommitDeduct
  <2>3. CASE stock[b].quantity >= q
    <3>1. stock'[b].locked = stock[b].locked - q /\ stock'[b].quantity = stock[b].quantity - q
      BY <2>2, <1>7, <2>3 DEF DeductedRow
    <3> QED
      BY <3>1, <2>1, <1>2, <1>3, <1>4, <1>5, <1>6, <1>8, <1>9 DEF Balanced
  <2>4. CASE ~(stock[b].quantity >= q)
    <3>1. stock'[b] = stock[b]
      BY <2>2, <2>4 DEF DeductedRow
    <3>2. SetQuantities # {}
      BY <2>4, <1>2, <1>3, <1>4, <1>5, <1>6 DEF Balanced
    <3> QED
      BY <3>1, <3>2, <2>1, <1>2, <1>3, <1>4, <1>5, <1>6, <1>8, <1>9 DEF Balanced
  <2> QED
    BY <2>3, <2>4
<1>11. ASSUME CommitRelease(c) PROVE Balanced(b)'
  <2>1. stock'[b] = ReleasedRow(stock[b], q)
    BY <1>1, <1>11 DEF Protocol, TypeInv, TypeOK, CommitRelease
  <2>2. stock'[b].locked = stock[b].locked - q /\ stock'[b].quantity = stock[b].quantity
    BY <2>1, <1>1, <1>7, SMTT(30) DEF ReleasedRow, Protocol, TypeInv, TypeOK, Row
  <2>3. Sold(b)' = Sold(b)
    BY <1>1, <1>11
  <2> QED
    BY <2>2, <2>3, <1>2, <1>3, <1>4, <1>5, <1>6, <1>8, <1>9 DEF Balanced
<1>12. ASSUME NEW a \in Books \ {b} PROVE Balanced(a)'
  BY <1>1, <1>9, SameBook DEF Ledger
<1> QED
  BY <1>10, <1>11, <1>12 DEF Ledger

LEMMA LockStockLedger ==
    ASSUME Protocol, Ledger,
           NEW c \in Calls, NEW b \in Books, NEW l \in Locks, NEW q \in Quantities,
           LockStock(c, b, l, q)
    PROVE  Ledger'
<1>1. /\ Reserved(b) \cap Lot(l, q) = {}
      /\ Reserved(b)' = Reserved(b) \cup Lot(l, q)
      /\ \A a \in Books \ {b} : Reserved(a)' = Reserved(a)
      /\ \A a \in Books : Sold(a)' = Sold(a)
  BY LockedUnits DEF Protocol
<1>2. q \in Nat
  BY InventoryConstants
<1>3. IsFiniteSet(Reserved(b)) /\ Cardinality(Reserved(b)) \in Nat
  BY FS_CardinalityType DEF Ledger, Balanced
<1>4. /\ IsFiniteSet(Reserved(b)')
      /\ Cardinality(Reserved(b)') = Cardinality(Reserved(b)) + q
  <2>1. /\ IsFiniteSet(Reserved(b) \cup Lot(l, q))
        /\ Cardinality(Reserved(b) \cup Lot(l, q)) = Cardinality(Reserved(b)) + q
    BY <1>1, <1>2, <1>3, AddUnits
  <2> QED
    BY <1>1, <2>1, Zenon
<1>5. /\ stock[b].quantity \in Nat /\ stock[b].locked \in Nat
      /\ stock'[b].locked = stock[b].locked + q
      /\ stock'[b].quantity = stock[b].quantity
      /\ \A a \in Books \ {b} : stock'[a] = stock[a]
      /\ stock[b].quantity - stock[b].locked >= q
      /\ b \in rows /\ rows' = rows
  BY DEF Protocol, TypeInv, TypeOK, LockStock, CanLock, Available, Row
<1>6. Balanced(b)
  BY DEF Ledger
<1>7. Balanced(b)'
  BY <1>1, <1>2, <1>3, <1>4, <1>5, <1>6 DEF Balanced
<1>8. ASSUME NEW a \in Books \ {b} PROVE Balanced(a)'
  BY <1>1, <1>5, SameBook DEF Ledger
<1> QED
  BY <1>7, <1>8 DEF Ledger

LEMMA NextLedger ==
    ASSUME ExclusiveSettle, LedgerInv, [Next]_vars
    PROVE  Ledger'
<1> USE DEF LedgerInv
<1>1. /\ rows \subseteq Books
      /\ stock \in [Books -> Row]
      /\ call \in [Calls -> {Idle} \cup Settling \cup Creating \cup Invalidating \cup Filling]
  BY DEF Protocol, TypeInv, TypeOK
<1>2. ASSUME lock' = lock
      PROVE  \A b \in Books : Reserved(b)' = Reserved(b) /\ Sold(b)' = Sold(b)
  BY <1>2 DEF Reserved, Sold, LocksOf, Units
<1>3. ASSUME rows' = rows, stock' = stock, lock' = lock PROVE Ledger'
  BY <1>2, <1>3, SameBook DEF Ledger
<1>4. ASSUME NEW c \in Calls, NEW b \in Books, NEW l \in Locks, NEW q \in Quantities,
             LockStock(c, b, l, q)
      PROVE  Ledger'
  BY <1>4, LockStockLedger
<1>5. ASSUME NEW c \in Calls, CommitRelease(c) \/ CommitDeduct(c)
      PROVE  Ledger'
  BY <1>5, SettleLedger
<1>6. ASSUME NEW c \in Calls, NEW b \in Books, NEW q \in SetQuantities,
             SetStockExisting(c, b, q)
      PROVE  Ledger'
  <2>1. /\ b \in rows /\ rows' = rows /\ lock' = lock
        /\ stock'[b].locked = stock[b].locked
        /\ \A a \in Books \ {b} : stock'[a] = stock[a]
    BY <1>1, <1>6 DEF SetStockExisting, Row
  <2>2. Balanced(b)'
    BY <1>2, <2>1 DEF Ledger, Balanced
  <2>3. ASSUME NEW a \in Books \ {b} PROVE Balanced(a)'
    BY <1>2, <2>1, SameBook DEF Ledger
  <2> QED
    BY <2>2, <2>3 DEF Ledger
<1>7. ASSUME NEW c \in Calls, CreateRow(c)
      PROVE  Ledger'
  <2>1. PICK b \in Books, q \in SetQuantities : b = call[c].book /\ q = call[c].quantity
    BY <1>1, <1>7 DEF CreateRow, Idle, Settling, Creating, Invalidating, Filling
  <2>2. CASE b \in rows
    BY <1>3, <1>7, <2>1, <2>2 DEF CreateRow
  <2>3. CASE b \notin rows
    <3>1. /\ rows' = rows \cup {b} /\ lock' = lock
          /\ stock'[b].locked = 0
          /\ \A a \in Books \ {b} : stock'[a] = stock[a]
      BY <1>1, <1>7, <2>1, <2>3 DEF CreateRow
    <3>2. /\ IsFiniteSet(Reserved(b)) /\ IsFiniteSet(Sold(b))
          /\ Cardinality(Reserved(b)) <= stock[b].locked
          /\ stock[b].locked = 0
      BY <2>3 DEF Ledger, Balanced
    <3>3. Balanced(b)'
      BY <1>2, <2>1, <3>1, <3>2 DEF Balanced
    <3>4. ASSUME NEW a \in Books \ {b} PROVE Balanced(a)'
      BY <1>2, <3>1, SameBook DEF Ledger
    <3> QED
      BY <3>3, <3>4 DEF Ledger
  <2> QED
    BY <2>2, <2>3
<1>8. ASSUME NEW c \in Calls, NEW b \in Books, NEW q \in SetQuantities,
             SetStockMissing(c, b, q)
      PROVE  Ledger'
  BY <1>3, <1>8 DEF SetStockMissing
<1>9. ASSUME NEW c \in Calls, InvalidateCache(c) \/ CacheStock(c) \/ Abort(c)
      PROVE  Ledger'
  BY <1>3, <1>9 DEF InvalidateCache, CacheStock, Abort
<1>10. ASSUME NEW c \in Calls, NEW b \in Books, GetStockMiss(c, b)
       PROVE  Ledger'
  BY <1>3, <1>10 DEF GetStockMiss
<1>11. ASSUME NEW c \in Calls, NEW l \in Locks, NEW op \in {"release", "deduct"},
              BeginSettle(c, l, op)
       PROVE  Ledger'
  BY <1>3, <1>11 DEF BeginSettle
<1>12. CASE (\E b \in Books : CacheExpire(b)) \/ UNCHANGED vars
  BY <1>3, <1>12 DEF CacheExpire, vars
<1> QED
  BY <1>4, <1>5, <1>6, <1>7, <1>8, <1>9, <1>10, <1>11, <1>12 DEF Next, Request, Progress

LEMMA LedgerInvariant ==
    ASSUME ExclusiveSettle
    PROVE  Spec => []LedgerInv
<1>1. LedgerInv /\ [Next]_vars => LedgerInv'
  BY NextProtocol, NextLedger DEF LedgerInv
<1> QED
  BY InitLedgerInv, <1>1, PTL DEF Spec

(* While callers settle each lock one at a time, every outstanding          *)
(* reservation stays covered by locked_quantity, with SetStock and cut-off  *)
(* requests interleaved in any way (LockStock, ReleaseStock, DeductStock).  *)
THEOREM ReservationsStayCovered ==
    ASSUME ExclusiveSettle
    PROVE  Spec => []ReservationsCovered
<1>1. LedgerInv => ReservationsCovered
  BY DEF LedgerInv, Ledger, Balanced, ReservationsCovered
<1> QED
  BY LedgerInvariant, <1>1, PTL

(* Without SetStock locked_quantity is the outstanding reservations of the  *)
(* book, to the copy, whatever is refused, aborted or interleaved           *)
(* (LockStock adds, ReleaseStock and DeductStock take away).                *)
THEOREM LedgerStaysExact ==
    ASSUME ExclusiveSettle
    PROVE  Spec => []LedgerExact
<1>1. LedgerInv => LedgerExact
  BY DEF LedgerInv, Protocol, TypeInv, TypeOK, Ledger, Balanced, LedgerExact
<1> QED
  BY LedgerInvariant, <1>1, PTL

(* Without SetStock the shelf covers what is promised: the check of         *)
(* LockStock on quantity - locked_quantity is enough.                       *)
THEOREM NothingOversold ==
    ASSUME ExclusiveSettle
    PROVE  Spec => []NoOversell
<1>1. LedgerInv => NoOversell
  BY DEF LedgerInv, Protocol, TypeInv, TypeOK, Ledger, Balanced, NoOversell
<1> QED
  BY LedgerInvariant, <1>1, PTL

(* Without SetStock no copy is lost or made: what is on the shelf and what  *)
(* the deducted locks took is what the shelf began with (DeductStock takes  *)
(* the copies of a lock once, ReleaseStock takes none).                     *)
THEOREM CopiesConserved ==
    ASSUME ExclusiveSettle
    PROVE  Spec => []StockConserved
<1>1. LedgerInv => StockConserved
  <2>1. LedgerInv => rows \subseteq Books
    BY DEF LedgerInv, Protocol, TypeInv, TypeOK
  <2> QED
    BY <2>1 DEF LedgerInv, Ledger, Balanced, StockConserved
<1> QED
  BY LedgerInvariant, <1>1, PTL

(* No step leaves a settled lock other than it was, so nothing released is  *)
(* deducted later and nothing deducted is released (the status writes by    *)
(* primary key of ReleaseStock and DeductStock).                            *)
THEOREM SettledStaysSettled ==
    ASSUME ExclusiveSettle
    PROVE  Spec => SettledForGood
<1>1. ASSUME LedgerInv, [Next]_vars, NEW l \in Locks, lock[l].status \in Settled
      PROVE  lock'[l] = lock[l]
  <2> USE <1>1 DEF LedgerInv, Protocol, TypeInv, TypeOK
  <2>1. ASSUME NEW c \in Calls, NEW b \in Books, NEW k \in Locks, NEW q \in Quantities,
               LockStock(c, b, k, q)
        PROVE  lock'[l] = lock[l]
    BY <2>1 DEF LockStock, Settled
  <2>2. ASSUME NEW c \in Calls, CommitRelease(c) \/ CommitDeduct(c)
        PROVE  lock'[l] = lock[l]
    <3>1. lock[call[c].lock].status = "locked"
      BY <2>2 DEF SettlesLive, CommitRelease, CommitDeduct,
                  Idle, Settling, Creating, Invalidating, Filling
    <3> QED
      BY <2>2, <3>1 DEF CommitRelease, CommitDeduct, Settled
  <2>3. CASE lock' = lock
    BY <2>3
  <2> QED
    BY <2>1, <2>2, <2>3
    DEF Next, Request, Progress, vars, BeginSettle, SetStockExisting, SetStockMissing,
        CreateRow, InvalidateCache, GetStockMiss, CacheStock, CacheExpire, Abort
<1>2. LedgerInv /\ [Next]_vars =>
        [\A l \in Locks : lock[l].status \in Settled => lock'[l] = lock[l]]_vars
  BY <1>1
<1> QED
  BY LedgerInvariant, <1>2, PTL DEF Spec, SettledForGood

(* Where nobody moves quantity below what is reserved, DeductStock's guarded *)
(* UPDATE always finds its row: no lock is marked Deducted for nothing.     *)
THEOREM DeductAlwaysTakesStock ==
    ASSUME ExclusiveSettle, SetQuantities = {}
    PROVE  Spec => DeductTakesStock
<1> DEFINE Took(l) == (lock[l].status # "deducted" /\ lock'[l].status = "deducted") =>
                stock'[lock[l].book].quantity = stock[lock[l].book].quantity - lock[l].quantity
<1>1. ASSUME LedgerInv, [Next]_vars, NEW l \in Locks, ~Took(l) PROVE FALSE
  <2> USE <1>1 DEF LedgerInv, Protocol, TypeInv, TypeOK
  <2>1. PICK c \in Calls : CommitDeduct(c)
    <3> SUFFICES ASSUME \A c \in Calls : ~CommitDeduct(c) PROVE FALSE
      OBVIOUS
    <3>1. lock[l].status # "deducted" /\ lock'[l].status = "deducted"
      OBVIOUS
    <3>2. ASSUME NEW c \in Calls, NEW b \in Books, NEW k \in Locks, NEW q \in Quantities,
                 LockStock(c, b, k, q)
          PROVE  FALSE
      BY <3>1, <3>2 DEF LockStock
    <3>3. ASSUME NEW c \in Calls, CommitRelease(c) PROVE FALSE
      <4>1. call[c].lock \in Locks /\ lock[call[c].lock].status = "locked"
        BY <3>3 DEF SettlesLive, CommitRelease, Idle, Settling, Creating, Invalidating, Filling
      <4> QED
        BY <3>1, <3>3, <4>1 DEF CommitRelease
    <3>4. lock' # lock
      BY <3>1
    <3> QED
      BY <3>2, <3>3, <3>4
      DEF Next, Request, Progress, vars, BeginSettle, SetStockExisting, SetStockMissing,
          CreateRow, InvalidateCache, GetStockMiss, CacheStock, CacheExpire, Abort
  <2>2. PICK k \in Locks, b \in Books, q \in Quantities :
             /\ k = call[c].lock /\ b = lock[k].book /\ q = lock[k].quantity
             /\ Lot(k, q) \subseteq Reserved(b)
    BY <2>1, SettledUnits
  <2>3. l = k
    BY <2>1, <2>2 DEF CommitDeduct
  <2>4. /\ q \in Nat
        /\ IsFiniteSet(Reserved(b)) /\ Cardinality(Reserved(b)) \in Nat
        /\ stock[b].quantity \in Nat /\ stock[b].locked \in Nat
    BY <2>2, InventoryConstants, FS_CardinalityType DEF Ledger, Balanced, Row
  <2>5. q <= Cardinality(Reserved(b))
    BY <2>2, <2>4, RemoveUnits
  <2>6. stock[b].quantity >= q /\ stock[b].locked >= q
    BY <2>2, <2>4, <2>5, SetQuantities = {} DEF Ledger, Balanced
  <2>7. stock'[b] = DeductedRow(stock[b], q)
    BY <2>1, <2>2 DEF CommitDeduct
  <2> QED
    BY <2>2, <2>3, <2>6, <2>7, <1>1 DEF DeductedRow
<1>2. LedgerInv /\ [Next]_vars => [\A l \in Locks : Took(l)]_vars
  BY <1>1
<1> QED
  BY LedgerInvariant, <1>2, PTL DEF Spec, DeductTakesStock

-----------------------------------------------------------------------------
(* The service implements the shelf.                                        *)

LEMMA SettleMovesShelf ==
    ASSUME LedgerInv, SetQuantities = {}, NEW c \in Calls, CommitRelease(c) \/ CommitDeduct(c)
    PROVE  \E l \in Locks : Promise!Release(l) \/ Promise!Sell(l)
<1> USE DEF LedgerInv, Protocol, TypeInv, TypeOK
<1>1. PICK l \in Locks, b \in Books, q \in Quantities :
           /\ l = call[c].lock /\ b = lock[l].book /\ q = lock[l].quantity
           /\ Lot(l, q) \subseteq Reserved(b)
  BY SettledUnits
<1>2. /\ q \in Nat
      /\ IsFiniteSet(Reserved(b)) /\ Cardinality(Reserved(b)) \in Nat
      /\ stock[b].quantity \in Nat /\ stock[b].locked \in Nat
  BY <1>1, InventoryConstants, FS_CardinalityType DEF Ledger, Balanced, Row
<1>3. q <= Cardinality(Reserved(b))
  BY <1>1, <1>2, RemoveUnits
<1>4. stock[b].quantity >= q /\ stock[b].locked >= q
  BY <1>1, <1>2, <1>3 DEF Ledger, Balanced
<1>5. lock[l].status = "locked"
  BY <1>1 DEF SettlesLive, CommitRelease, CommitDeduct,
              Idle, Settling, Creating, Invalidating, Filling
<1>6. CASE CommitRelease(c)
  <2>1. stock'[b] = ReleasedRow(stock[b], q) /\ \A a \in Books \ {b} : stock'[a] = stock[a]
    BY <1>1, <1>6 DEF CommitRelease
  <2>2. stock'[b].locked = stock[b].locked - q /\ stock'[b].quantity = stock[b].quantity
    BY <2>1, <1>1, <1>4 DEF ReleasedRow, Row
  <2>3. /\ Available(b)' = Available(b) + q
        /\ \A a \in Books \ {b} : Available(a)' = Available(a)
    <3>1. PICK n, k \in Nat : n = stock[b].quantity /\ k = stock[b].locked
      BY <1>2
    <3>2. stock'[b].locked = k - q /\ stock'[b].quantity = n
      BY <2>2, <3>1
    <3>3. n - (k - q) = (n - k) + q
      BY <1>2
    <3>4. Available(b)' = Available(b) + q
      BY <3>1, <3>2, <3>3 DEF Available
    <3>5. \A a \in Books \ {b} : Available(a)' = Available(a)
      BY <2>1 DEF Available
    <3> QED
      BY <3>4, <3>5
  <2>4. /\ lock' = [lock EXCEPT ![l].status = "released"]
        /\ b = lock[l].book /\ q = lock[l].quantity
    BY <1>1, <1>6 DEF CommitRelease
  <2>5. Promise!Release(l)
    BY <1>1, <1>5, <2>3, <2>4 DEF Promise!Release
  <2> QED
    BY <2>5
<1>7. CASE CommitDeduct(c)
  <2>1. stock'[b] = DeductedRow(stock[b], q) /\ \A a \in Books \ {b} : stock'[a] = stock[a]
    BY <1>1, <1>7 DEF CommitDeduct
  <2>2. stock'[b].locked = stock[b].locked - q /\ stock'[b].quantity = stock[b].quantity - q
    BY <2>1, <1>1, <1>4 DEF DeductedRow, Row
  <2>3. \A a \in Books : Available(a)' = Available(a)
    BY <1>1, <1>2, <2>1, <2>2 DEF Available
  <2>4. lock' = [lock EXCEPT ![l].status = "deducted"]
    BY <1>1, <1>7 DEF CommitDeduct
  <2>5. Promise!Sell(l)
    BY <1>1, <1>5, <2>3, <2>4 DEF Promise!Sell
  <2> QED
    BY <2>5
<1> QED
  BY <1>6, <1>7

(* To its callers the service is the shelf of copies of module Shelf:       *)
(* LockStock, ReleaseStock and DeductStock take effect at one instant each  *)
(* and nothing else can be seen.                                            *)
THEOREM InventoryImplementsShelf ==
    ASSUME ExclusiveSettle, SetQuantities = {}
    PROVE  Spec => ImplementsShelf
<1> DEFINE shelf == [b \in Books |-> Available(b)]
           Seen == <<shelf, lock>>
<1>1. Init => Promise!Init
  BY InventoryConstants DEF Init, Promise!Init, Available
<1>2. ASSUME LedgerInv, [Next]_vars PROVE [Promise!Next]_Seen
  <2> USE <1>2 DEF LedgerInv, Protocol, TypeInv, TypeOK
  <2>1. ASSUME NEW c \in Calls, NEW b \in Books, NEW l \in Locks, NEW q \in Quantities,
               LockStock(c, b, l, q)
        PROVE  Promise!Next
    <3>1. q \in Nat
      BY InventoryConstants
    <3>2. /\ stock[b].quantity \in Nat /\ stock[b].locked \in Nat
          /\ stock'[b].quantity = stock[b].quantity /\ stock'[b].locked = stock[b].locked + q
          /\ \A a \in Books \ {b} : stock'[a] = stock[a]
      BY <2>1 DEF LockStock, Row
    <3>3. /\ Available(b)' = Available(b) - q
          /\ \A a \in Books \ {b} : Available(a)' = Available(a)
      BY <3>1, <3>2 DEF Available
    <3>4. /\ lock[l].status = "free" /\ Available(b) >= q
          /\ lock' = [lock EXCEPT ![l] = [status |-> "locked", book |-> b, quantity |-> q]]
      BY <2>1 DEF LockStock, CanLock
    <3>5. Promise!Reserve(b, l, q)
      BY <3>3, <3>4 DEF Promise!Reserve
    <3> QED
      BY <3>5 DEF Promise!Next
  <2>2. ASSUME NEW c \in Calls, CommitRelease(c) \/ CommitDeduct(c) PROVE Promise!Next
    BY <2>2, SettleMovesShelf, SetQuantities = {} DEF Promise!Next
  <2>3. ASSUME NEW c \in Calls, CreateRow(c) PROVE FALSE
    BY <2>3, SetQuantities = {} DEF CreateRow, Idle, Settling, Creating, Invalidating, Filling
  <2>4. ASSUME stock' = stock, lock' = lock PROVE UNCHANGED Seen
    BY <2>4 DEF Available
  <2> QED
    BY <2>1, <2>2, <2>3, <2>4, SetQuantities = {}
    DEF Next, Request, Progress, vars, BeginSettle, SetStockExisting, SetStockMissing,
        InvalidateCache, GetStockMiss, CacheStock, CacheExpire, Abort
<1>3. LedgerInv /\ [Next]_vars => [Promise!Next]_Seen
  BY <1>2
<1> QED
  BY LedgerInvariant, <1>1, <1>3, PTL DEF Spec, ImplementsShelf, Promise!Spec
=============================================================================
