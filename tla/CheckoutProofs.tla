---------------------------- MODULE CheckoutProofs ----------------------------
(***************************************************************************)
(* Theorems about the order service at work on the inventory service, for   *)
(* every number of orders, items, processes, events and faults.             *)
(***************************************************************************)
EXTENDS Checkout, FiniteSetTheorems, SequenceTheorems, TLAPS

\* The theorems of the inventory service, for the calls made here.
Stock == INSTANCE InventoryProofs WITH
           Calls <- Processes, Quantities <- Quantities, SetQuantities <- {}, InitialRows <- Books,
           ExclusiveSettle <- FALSE, Faulty <- TRUE

LEMMA ItemsAreItems ==
    ASSUME NEW o \in Orders, NEW i \in DOMAIN Items[o]
    PROVE  /\ Items[o][i] \in [book: Books, quantity: Nat \ {0}]
           /\ Items[o][i].book \in Books /\ Items[o][i].quantity \in Quantities
<1>1. PICK s \in Seq([book: Books, quantity: Nat \ {0}]) : s = Items[o]
  BY CheckoutConstants
<1>2. DOMAIN s = 1 .. Len(s)
  OBVIOUS
<1>3. s[i] \in [book: Books, quantity: Nat \ {0}]
  BY <1>1, <1>2, ElementOfSeq
<1>4. Items[o][i].quantity \in {Items[o][j].quantity : j \in DOMAIN Items[o]}
  OBVIOUS
<1> QED
  BY <1>1, <1>3, <1>4 DEF Quantities

\* What the inventory assumes of its constants holds here.
LEMMA StockConstants == Stock!InventoryConstants
<1>1. Quantities \subseteq Nat \ {0}
  <2> SUFFICES ASSUME NEW o \in Orders, NEW i \in DOMAIN Items[o]
               PROVE  Items[o][i].quantity \in Nat \ {0}
    BY DEF Quantities
  <2> QED
    BY ItemsAreItems
<1>2. Stock!IsFiniteSet(Locks)
  BY CheckoutConstants DEF IsFiniteSet, Stock!IsFiniteSet
<1> QED
  BY <1>1, <1>2, CheckoutConstants DEF Stock!InventoryConstants

Tasks == {Idle, Done} \cup Locking \cup Cancelling \cup Updating \cup Settling

Working(p) == task[p] \notin {Idle, Done}

\* The messages of an order the consumers have in hand.
Taken(o) == {p \in Consumers : Working(p) /\ task[p].order = o}

\* Only a request locks, and a message is in the queue or in hand once.
OwnRequest == \A p \in Processes : task[p].at = "lock" => p \in Orders
Delivered ==
    \A o \in Orders : IsFiniteSet(Taken(o)) /\ queue[o] + Cardinality(Taken(o)) <= events[o]

OrderTypes ==
    /\ order \in [Orders -> {"none"} \cup Statuses]
    /\ held \in [Orders -> Seq(Locks)]
    /\ task \in [Processes -> Tasks]
    /\ OwnRequest

QueueTypes ==
    /\ queue \in [Orders -> Nat]
    /\ events \in [Orders -> 0 .. MaxEvents]
    /\ Delivered

FaultTypes == faults \in 0 .. MaxFaults /\ skipped \subseteq Orders /\ unsure \subseteq Orders

TypeInv == Stock!TypeInv /\ OrderTypes /\ QueueTypes /\ FaultTypes

\* The field `at' tells the tasks apart.
LEMMA TaskKinds ==
    ASSUME NEW t \in Tasks
    PROVE  /\ t.at = "idle" <=> t = Idle
           /\ t.at = "done" <=> t = Done
           /\ t.at = "lock" <=> t \in Locking
           /\ t.at = "cancel" <=> t \in Cancelling
           /\ t.at = "update" <=> t \in Updating
           /\ t.at = "settle" <=> t \in Settling
           /\ t \notin {Idle, Done} => t.order \in Orders
BY DEF Tasks, Idle, Done, Locking, Cancelling, Updating, Settling

-----------------------------------------------------------------------------
(* The inventory sees only calls it may get.                                *)

LEMMA InitStock == Init => Stock!Init
BY DEF Init, Inv!Init, Stock!Init, Inv!Idle, Stock!Idle

LEMMA LockIsNext ==
    ASSUME NEW o \in Orders, NEW i \in DOMAIN Items[o], NEW l \in Locks,
           Inv!LockStock(o, Items[o][i].book, l, Items[o][i].quantity)
    PROVE  Stock!Next
<1> DEFINE b == Items[o][i].book
           q == Items[o][i].quantity
<1>1. b \in Books /\ q \in Quantities
  BY ItemsAreItems
<1>2. Stock!LockStock(o, b, l, q)
  BY DEF Inv!LockStock, Stock!LockStock, Inv!CanLock, Stock!CanLock, Inv!Available,
         Stock!Available, Inv!Idle, Stock!Idle
<1>3. o \in Processes
  BY DEF Processes
<1> QED
  BY <1>1, <1>2, <1>3 DEF Stock!Next, Stock!Request

LEMMA SettleIsNext ==
    ASSUME NEW p \in Processes, NEW l \in Locks, NEW op \in {"release", "deduct"},
           Inv!BeginSettle(p, l, op)
    PROVE  Stock!Next
<1>1. Stock!BeginSettle(p, l, op)
  BY DEF Inv!BeginSettle, Stock!BeginSettle, Inv!Idle, Stock!Idle
<1>2. Stock!MaySettle(l)
  BY DEF Stock!MaySettle
<1> QED
  BY <1>1, <1>2 DEF Stock!Next, Stock!Request

LEMMA ProgressIsNext ==
    ASSUME NEW p \in Processes, Inv!Progress(p)
    PROVE  Stock!Next
<1>1. Stock!Progress(p)
  BY DEF Inv!Progress, Stock!Progress, Inv!CommitRelease, Stock!CommitRelease,
         Inv!CommitDeduct, Stock!CommitDeduct, Inv!ReleasedRow, Stock!ReleasedRow,
         Inv!DeductedRow, Stock!DeductedRow, Inv!CreateRow, Stock!CreateRow,
         Inv!InvalidateCache, Stock!InvalidateCache, Inv!CacheStock, Stock!CacheStock,
         Inv!Idle, Stock!Idle
<1> QED
  BY <1>1 DEF Stock!Next

LEMMA AbortIsNext ==
    ASSUME NEW p \in Processes, Inv!Abort(p)
    PROVE  Stock!Next
<1>1. Stock!Abort(p)
  BY DEF Inv!Abort, Stock!Abort, Inv!Idle, Stock!Idle
<1> QED
  BY <1>1 DEF Stock!Next

\* The same notions, written once in each instance.
LEMMA SameNotions ==
    /\ Inv!TypeOK = Stock!TypeOK
    /\ Inv!Idle = Stock!Idle
    /\ Inv!Settling = Stock!Settling
BY DEF Inv!TypeOK, Stock!TypeOK, Inv!Row, Stock!Row, Inv!LockRecord, Stock!LockRecord,
       Inv!Settled, Stock!Settled, Inv!Idle, Stock!Idle, Inv!Settling, Stock!Settling,
       Inv!Creating, Stock!Creating, Inv!Invalidating, Stock!Invalidating, Inv!Filling,
       Stock!Filling

-----------------------------------------------------------------------------
(* Types.                                                                   *)

LEMMA SettleTasks ==
    ASSUME NEW o \in Orders, NEW op \in {"release", "deduct"}, NEW s \in Seq(Locks)
    PROVE  SettleTask(o, op, s) \in Settling /\ SettleTask(o, op, s) \in Tasks
BY DEF SettleTask, Settling, Tasks

\* A step that moves one process on, without a message taken or given back.
LEMMA Move ==
    ASSUME OrderTypes, QueueTypes, NEW p \in Processes, NEW t \in Tasks,
           task' = [task EXCEPT ![p] = t],
           t.at = "lock" => p \in Orders,
           p \in Consumers => Working(p) /\ t \notin {Idle, Done} /\ t.order = task[p].order,
           UNCHANGED brokerVars,
           order' \in [Orders -> {"none"} \cup Statuses],
           held' \in [Orders -> Seq(Locks)]
    PROVE  OrderTypes' /\ QueueTypes'
<1>1. task' \in [Processes -> Tasks] /\ task'[p] = t /\ \A q \in Processes \ {p} : task'[q] = task[q]
  BY DEF OrderTypes
<1>2. OwnRequest'
  BY <1>1 DEF OrderTypes, OwnRequest
<1>3. \A o \in Orders : Taken(o)' = Taken(o)
  BY <1>1 DEF Taken, Working, Processes
<1>4. Delivered'
  BY <1>3 DEF QueueTypes, Delivered, brokerVars
<1> QED
  BY <1>1, <1>2, <1>4 DEF OrderTypes, QueueTypes, brokerVars

\* A consumer takes a message, or is done with one, and the queue with it.
LEMMA MessageTaken ==
    ASSUME OrderTypes, QueueTypes, NEW p \in Consumers, NEW t \in Tasks,
           ~Working(p), t \notin {Idle, Done}, t.at # "lock", queue[t.order] > 0,
           task' = [task EXCEPT ![p] = t],
           queue' = [queue EXCEPT ![t.order] = @ - 1],
           UNCHANGED <<order, held, events>>
    PROVE  OrderTypes' /\ QueueTypes'
<1> DEFINE o == t.order
<1>1. p \in Processes /\ o \in Orders
  BY TaskKinds DEF Processes
<1>2. task' \in [Processes -> Tasks] /\ task'[p] = t /\ \A q \in Processes \ {p} : task'[q] = task[q]
  BY <1>1 DEF OrderTypes
<1>3. OwnRequest'
  BY <1>2 DEF OrderTypes, OwnRequest
<1>4. /\ Taken(o)' = Taken(o) \cup {p} /\ p \notin Taken(o)
      /\ \A x \in Orders \ {o} : Taken(x)' = Taken(x)
  BY <1>2 DEF Taken, Working, Processes
<1>5. IsFiniteSet(Taken(o)') /\ Cardinality(Taken(o)') = Cardinality(Taken(o)) + 1
  BY <1>1, <1>4, FS_AddElement DEF QueueTypes, Delivered
<1>6. queue' \in [Orders -> Nat] /\ queue'[o] = queue[o] - 1 /\ \A x \in Orders \ {o} : queue'[x] = queue[x]
  BY <1>1 DEF QueueTypes
<1>7. Cardinality(Taken(o)) \in Nat /\ events[o] \in Nat
  BY <1>1, FS_CardinalityType DEF QueueTypes, Delivered
<1>8. queue'[o] + Cardinality(Taken(o)') <= events[o]
  BY <1>1, <1>5, <1>6, <1>7 DEF QueueTypes, Delivered
<1>9. Delivered'
  BY <1>4, <1>5, <1>6, <1>8 DEF QueueTypes, Delivered
<1> QED
  BY <1>2, <1>3, <1>6, <1>9 DEF OrderTypes, QueueTypes

LEMMA MessageLeft ==
    ASSUME OrderTypes, QueueTypes, NEW p \in Consumers, Working(p),
           task' = [task EXCEPT ![p] = Idle],
           \/ UNCHANGED queue
           \/ queue' = [queue EXCEPT ![task[p].order] = @ + 1],
           UNCHANGED <<order, held, events>>
    PROVE  OrderTypes' /\ QueueTypes'
<1>1. p \in Processes /\ task[p].order \in Orders
  BY TaskKinds DEF Processes, OrderTypes, Working
<1> PICK o \in Orders : o = task[p].order
  BY <1>1
<1>2. task' \in [Processes -> Tasks] /\ task'[p] = Idle /\ \A q \in Processes \ {p} : task'[q] = task[q]
  BY <1>1 DEF OrderTypes, Tasks
<1>3. OwnRequest'
  BY <1>2 DEF OrderTypes, OwnRequest, Idle
<1>4. /\ Taken(o)' = Taken(o) \ {p} /\ p \in Taken(o)
      /\ \A x \in Orders \ {o} : Taken(x)' = Taken(x)
  BY <1>2 DEF Taken, Working, Processes
<1>5. IsFiniteSet(Taken(o)') /\ Cardinality(Taken(o)') = Cardinality(Taken(o)) - 1
  BY <1>1, <1>4, FS_RemoveElement DEF QueueTypes, Delivered
<1>6. /\ queue' \in [Orders -> Nat] /\ queue'[o] \in {queue[o], queue[o] + 1}
      /\ \A x \in Orders \ {o} : queue'[x] = queue[x]
  BY <1>1 DEF QueueTypes
<1>7. Cardinality(Taken(o)) \in Nat /\ events[o] \in Nat /\ queue[o] \in Nat
  BY <1>1, FS_CardinalityType DEF QueueTypes, Delivered
<1>8. queue'[o] + Cardinality(Taken(o)') <= events[o]
  BY <1>1, <1>5, <1>6, <1>7 DEF QueueTypes, Delivered
<1>9. Delivered'
  BY <1>4, <1>5, <1>6, <1>8 DEF QueueTypes, Delivered
<1> QED
  BY <1>2, <1>3, <1>6, <1>9 DEF OrderTypes, QueueTypes

LEMMA MessageSent ==
    ASSUME OrderTypes, QueueTypes, NEW o \in Orders, PaymentEvent(o)
    PROVE  OrderTypes' /\ QueueTypes'
<1>1. OrderTypes' /\ \A x \in Orders : Taken(x)' = Taken(x)
  BY DEF PaymentEvent, orderVars, OrderTypes, OwnRequest, Taken, Working
<1>2. /\ queue' \in [Orders -> Nat] /\ queue'[o] = queue[o] + 1
      /\ \A x \in Orders \ {o} : queue'[x] = queue[x]
  BY DEF PaymentEvent, QueueTypes
<1>3. /\ events' \in [Orders -> 0 .. MaxEvents] /\ events'[o] = events[o] + 1
      /\ \A x \in Orders \ {o} : events'[x] = events[x]
  BY CheckoutConstants DEF PaymentEvent, QueueTypes
<1>4. Cardinality(Taken(o)) \in Nat /\ events[o] \in Nat /\ queue[o] \in Nat
  BY FS_CardinalityType, CheckoutConstants DEF QueueTypes, Delivered
<1>5. queue'[o] + Cardinality(Taken(o)') <= events'[o]
  BY <1>1, <1>2, <1>3, <1>4 DEF QueueTypes, Delivered
<1>6. Delivered'
  BY <1>1, <1>2, <1>3, <1>5 DEF QueueTypes, Delivered
<1> QED
  BY <1>1, <1>2, <1>3, <1>6 DEF QueueTypes

LEMMA NextFaults == FaultTypes /\ Next => FaultTypes'
<1> SUFFICES ASSUME FaultTypes, Next PROVE FaultTypes'
  OBVIOUS
<1>1. Fault => faults' \in 0 .. MaxFaults
  BY CheckoutConstants DEF FaultTypes, Fault
<1>2. CASE UNCHANGED faultVars
  BY <1>2 DEF FaultTypes, faultVars
<1>3. ASSUME NEW p \in Processes, Crash(p) PROVE FaultTypes'
  BY <1>1, <1>3 DEF Crash, FaultTypes
<1>4. ASSUME NEW p \in Processes, CallFails(p) PROVE FaultTypes'
  BY <1>1, <1>4 DEF CallFails, FaultTypes
<1>5. ASSUME NEW o \in Orders, NEW l \in Locks, LockReplyLost(o, l) PROVE FaultTypes'
  BY <1>1, <1>5 DEF LockReplyLost, FaultTypes
<1>6. ASSUME NEW o \in Orders, InsertFails(o) \/ InsertReplyLost(o) PROVE FaultTypes'
  BY <1>1, <1>6 DEF InsertFails, InsertReplyLost, FaultTypes
<1>7. Request => UNCHANGED faultVars
  BY DEF Request, CreateOrder, PaymentEvent, CancelRead, UpdateOrderStatus
<1>8. \A p \in Processes : Work(p) => UNCHANGED faultVars
  BY DEF Work, LockItem, LockRefused, InsertOrder, CancelWrite, StatusWrite, SettleNext,
         SettleRefused, SettleDone, InventoryStep
<1>9. \A p \in Consumers, o \in Orders : ReceivePayment(p, o) => UNCHANGED faultVars
  BY DEF ReceivePayment
<1> QED
  BY <1>2, <1>3, <1>4, <1>5, <1>6, <1>7, <1>8, <1>9 DEF Next, Failure

\* What a process that locks has in hand.
LEMMA LockingTask ==
    ASSUME OrderTypes, NEW p \in Processes, task[p].at = "lock"
    PROVE  p \in Orders /\ task[p] \in Locking /\ task[p].locks \in Seq(Locks) /\ p \notin Consumers
<1>1. task[p] \in Locking /\ p \in Orders
  BY TaskKinds DEF OrderTypes, OwnRequest
<1> QED
  BY <1>1, CheckoutConstants DEF Locking

LEMMA SettlingTask ==
    ASSUME OrderTypes, NEW p \in Processes, task[p].at = "settle"
    PROVE  task[p] \in Settling /\ task[p].todo \in Seq(Locks) /\ task[p].order \in Orders
<1>1. task[p] \in Settling
  BY TaskKinds DEF OrderTypes
<1> QED
  BY <1>1 DEF Settling

LEMMA Rests ==
    ASSUME NEW p \in Processes
    PROVE  Rest(p) \in {Idle, Done} /\ Rest(p) \in Tasks /\ Rest(p).at # "lock"
BY DEF Rest, Idle, Done, Tasks

\* A request gives back what it has locked.
LEMMA GiveBackTypes ==
    ASSUME OrderTypes, QueueTypes, NEW p \in Processes, task[p].at = "lock",
           Becomes(p, SettleTask(p, "release", task[p].locks)),
           UNCHANGED brokerVars,
           order' \in [Orders -> {"none"} \cup Statuses],
           held' \in [Orders -> Seq(Locks)]
    PROVE  OrderTypes' /\ QueueTypes'
<1>1. PICK t \in Tasks : t = SettleTask(p, "release", task[p].locks)
  BY LockingTask, SettleTasks
<1>2. t.at # "lock" /\ p \notin Consumers
  BY <1>1, LockingTask DEF SettleTask
<1>3. task' = [task EXCEPT ![p] = t]
  BY <1>1 DEF Becomes
<1> QED
  BY <1>2, <1>3, Move

\* A request or another process rests.
LEMMA RestTypes ==
    ASSUME OrderTypes, QueueTypes, NEW p \in Processes, Working(p), Becomes(p, Rest(p)),
           \/ UNCHANGED queue
           \/ p \in Consumers /\ queue' = [queue EXCEPT ![task[p].order] = @ + 1],
           UNCHANGED events,
           p \in Consumers => UNCHANGED <<order, held>>,
           order' \in [Orders -> {"none"} \cup Statuses],
           held' \in [Orders -> Seq(Locks)]
    PROVE  OrderTypes' /\ QueueTypes'
<1>1. CASE p \in Consumers
  <2>1. Rest(p) = Idle
    BY <1>1, CheckoutConstants DEF Rest
  <2> QED
    BY <1>1, <2>1, MessageLeft DEF Becomes
<1>2. CASE p \notin Consumers
  <2>1. PICK t \in Tasks : t = Rest(p) /\ t.at # "lock"
    BY Rests
  <2> QED
    BY <1>2, <2>1, Move DEF Becomes, brokerVars
<1> QED
  BY <1>1, <1>2

LEMMA RequestTypes ==
    ASSUME OrderTypes, QueueTypes, Request
    PROVE  OrderTypes' /\ QueueTypes'
<1>1. ASSUME NEW o \in Orders, CreateOrder(o) PROVE OrderTypes' /\ QueueTypes'
  <2>1. PICK t \in Tasks : t = [at |-> "lock", order |-> o, locks |-> <<>>]
    BY EmptySeq DEF Tasks, Locking
  <2>2. o \in Processes /\ o \notin Consumers
    BY CheckoutConstants DEF Processes
  <2> QED
    BY <1>1, <2>1, <2>2, Move DEF CreateOrder, Becomes, orderVars, OrderTypes
<1>2. ASSUME NEW p \in Cancels, NEW o \in Orders, CancelRead(p, o)
      PROVE  OrderTypes' /\ QueueTypes'
  <2>1. PICK t \in Tasks : t = [at |-> "cancel", order |-> o]
    BY DEF Tasks, Cancelling
  <2>2. p \in Processes /\ p \notin Consumers /\ t.at # "lock"
    BY <2>1, CheckoutConstants DEF Processes
  <2> QED
    BY <1>2, <2>1, <2>2, Move DEF CancelRead, Becomes, orderVars, OrderTypes
<1>3. ASSUME NEW p \in Clerks, NEW o \in Orders, NEW st \in Statuses, UpdateOrderStatus(p, o, st)
      PROVE  OrderTypes' /\ QueueTypes'
  <2>1. PICK t \in Tasks : t = [at |-> "update", order |-> o, to |-> st]
    BY DEF Tasks, Updating
  <2>2. p \in Processes /\ p \notin Consumers /\ t.at # "lock"
    BY <2>1, CheckoutConstants DEF Processes
  <2> QED
    BY <1>3, <2>1, <2>2, Move DEF UpdateOrderStatus, StatusRead, Becomes, orderVars, OrderTypes
<1> QED
  BY <1>1, <1>2, <1>3, MessageSent, CheckoutConstants DEF Request

LEMMA ReceiveTypes ==
    ASSUME OrderTypes, QueueTypes, NEW p \in Consumers, NEW o \in Orders, ReceivePayment(p, o)
    PROVE  OrderTypes' /\ QueueTypes'
<1>1. PICK t \in Tasks : t = [at |-> "update", order |-> o, to |-> "paid"]
  BY DEF Tasks, Updating, Statuses, validTransitions
<1>2. t \notin {Idle, Done} /\ t.at # "lock" /\ t.order = o /\ ~Working(p)
  BY <1>1 DEF Idle, Done, Working, ReceivePayment, StatusRead
<1> QED
  BY <1>1, <1>2, MessageTaken DEF ReceivePayment, StatusRead, Becomes, orderVars

LEMMA StatusTypes ==
    ASSUME OrderTypes, QueueTypes, NEW p \in Processes, CancelWrite(p) \/ StatusWrite(p)
    PROVE  OrderTypes' /\ QueueTypes'
<1>1. PICK o \in Orders : o = task[p].order
  BY TaskKinds DEF CancelWrite, StatusWrite, OrderTypes, Idle, Done
<1>2. held[o] \in Seq(Locks) /\ Working(p)
  BY DEF OrderTypes, Working, CancelWrite, StatusWrite, Idle, Done
<1>3. CASE CancelWrite(p)
  <2>1. PICK t \in Tasks : t = SettleTask(o, "release", held[o])
    BY <1>2, SettleTasks
  <2>2. t.at # "lock" /\ t \notin {Idle, Done} /\ t.order = o
    BY <2>1 DEF SettleTask, Idle, Done
  <2>3. order' \in [Orders -> {"none"} \cup Statuses]
    BY <1>1, <1>3 DEF CancelWrite, OrderTypes, Statuses, validTransitions
  <2> QED
    BY <1>1, <1>2, <1>3, <2>1, <2>2, <2>3, Move DEF CancelWrite, Becomes, OrderTypes
<1>4. CASE StatusWrite(p)
  <2>1. task[p].to \in Statuses
    BY <1>4, TaskKinds DEF StatusWrite, OrderTypes, Updating
  <2>2. order' \in [Orders -> {"none"} \cup Statuses]
    BY <1>1, <1>4, <2>1 DEF StatusWrite, OrderTypes
  <2>3. CASE p \in Consumers
    <3>1. PICK t \in Tasks : t = SettleTask(o, "deduct", held[o])
      BY <1>2, SettleTasks
    <3>2. t.at # "lock" /\ t \notin {Idle, Done} /\ t.order = o
      BY <3>1 DEF SettleTask, Idle, Done
    <3> QED
      BY <1>1, <1>2, <1>4, <2>2, <2>3, <3>1, <3>2, Move DEF StatusWrite, Becomes, OrderTypes
  <2>4. CASE p \notin Consumers
    <3>1. Idle \in Tasks
      BY DEF Tasks
    <3>2. PICK t \in Tasks : t = Idle /\ t.at # "lock"
      BY <3>1 DEF Idle
    <3> QED
      BY <1>4, <2>2, <2>4, <3>2, Move DEF StatusWrite, Becomes, OrderTypes
  <2> QED
    BY <2>3, <2>4
<1> QED
  BY <1>3, <1>4

\* Locking, writing the order, settling.
LEMMA LockTypes ==
    ASSUME OrderTypes, QueueTypes, NEW o \in Orders, NEW l \in Locks, LockItem(o, l)
    PROVE  OrderTypes' /\ QueueTypes'
<1>1. o \in Processes /\ task[o].at = "lock"
  BY DEF Processes, LockItem, MoreToLock
<1>2. task[o] \in Locking /\ o \notin Consumers /\ Append(task[o].locks, l) \in Seq(Locks)
  BY <1>1, LockingTask, AppendProperties
<1>3. PICK t \in Tasks : t = [task[o] EXCEPT !.locks = Append(task[o].locks, l)]
  BY <1>2 DEF Tasks, Locking
<1>4. task' = [task EXCEPT ![o] = t]
  BY <1>3 DEF LockItem
<1> QED
  BY <1>1, <1>2, <1>4, Move DEF LockItem, orderVars, OrderTypes

LEMMA TodoTypes ==
    ASSUME OrderTypes, QueueTypes, NEW p \in Processes, ToSettle(p),
           task' = [task EXCEPT ![p].todo = Tail(@)],
           UNCHANGED <<orderVars, brokerVars>>
    PROVE  OrderTypes' /\ QueueTypes'
<1>1. /\ task[p] \in Settling /\ task[p].at = "settle"
      /\ Tail(task[p].todo) \in Seq(Locks)
  BY SettlingTask, HeadTailProperties DEF ToSettle
<1>2. PICK t \in Tasks : t = [task[p] EXCEPT !.todo = Tail(task[p].todo)]
  BY <1>1 DEF Tasks, Settling
<1>3. t.at = "settle" /\ t.order = task[p].order /\ t \notin {Idle, Done} /\ Working(p)
  BY <1>1, <1>2 DEF Idle, Done, Settling, Working
<1>4. task' = [task EXCEPT ![p] = t]
  BY <1>2
<1> QED
  BY <1>3, <1>4, Move DEF orderVars, OrderTypes

LEMMA WorkTypes ==
    ASSUME OrderTypes, QueueTypes, NEW p \in Processes, Work(p)
    PROVE  OrderTypes' /\ QueueTypes'
<1>1. ASSUME NEW l \in Locks, LockItem(p, l) PROVE OrderTypes' /\ QueueTypes'
  BY <1>1, LockingTask, LockTypes DEF LockItem, MoreToLock
<1>2. CASE LockRefused(p)
  BY <1>2, GiveBackTypes DEF LockRefused, MoreToLock, orderVars, OrderTypes
<1>3. CASE InsertOrder(p)
  <2>1. task[p].at = "lock" /\ p \in Orders /\ task[p].locks \in Seq(Locks) /\ Rest(p) = Done /\ Working(p)
    BY <1>3, LockingTask DEF InsertOrder, AllLocked, Rest, Working, Idle, Done
  <2>2. /\ order' \in [Orders -> {"none"} \cup Statuses]
        /\ held' \in [Orders -> Seq(Locks)]
    BY <1>3, <2>1 DEF InsertOrder, OrderTypes, Statuses, validTransitions
  <2>3. p \notin Consumers
    BY <2>1, CheckoutConstants
  <2> QED
    BY <1>3, <2>1, <2>2, <2>3, RestTypes DEF InsertOrder, brokerVars
<1>4. CASE CancelWrite(p) \/ StatusWrite(p)
  BY <1>4, StatusTypes
<1>5. CASE SettleNext(p) \/ SettleRefused(p)
  BY <1>5, TodoTypes DEF SettleNext, SettleRefused
<1>6. CASE SettleDone(p)
  <2>1. Working(p)
    BY <1>6 DEF SettleDone, Working, Idle, Done
  <2> QED
    BY <1>6, <2>1, RestTypes DEF SettleDone, brokerVars, orderVars, OrderTypes
<1>7. CASE InventoryStep(p)
  BY <1>7 DEF InventoryStep, OrderTypes, QueueTypes, orderVars, brokerVars, OwnRequest,
              Delivered, Taken, Working
<1> QED
  BY <1>1, <1>2, <1>3, <1>4, <1>5, <1>6, <1>7 DEF Work

LEMMA FailureTypes ==
    ASSUME OrderTypes, QueueTypes, Failure
    PROVE  OrderTypes' /\ QueueTypes'
<1>1. ASSUME NEW p \in Processes, Crash(p) PROVE OrderTypes' /\ QueueTypes'
  BY <1>1, RestTypes DEF Crash, Working, orderVars, OrderTypes
<1>2. ASSUME NEW p \in Processes, CallFails(p) PROVE OrderTypes' /\ QueueTypes'
  <2>1. CASE MoreToLock(p) /\ Becomes(p, SettleTask(p, "release", task[p].locks))
    BY <1>2, <2>1, GiveBackTypes DEF CallFails, MoreToLock, orderVars, OrderTypes
  <2>2. CASE ToSettle(p) /\ task' = [task EXCEPT ![p].todo = Tail(@)]
    BY <1>2, <2>2, TodoTypes DEF CallFails
  <2>3. CASE UNCHANGED task
    BY <1>2, <2>3 DEF CallFails, OrderTypes, QueueTypes, orderVars, brokerVars, OwnRequest,
                      Delivered, Taken, Working
  <2> QED
    BY <1>2, <2>1, <2>2, <2>3 DEF CallFails
<1>3. ASSUME NEW o \in Orders, NEW l \in Locks, LockReplyLost(o, l)
      PROVE  OrderTypes' /\ QueueTypes'
  <2>1. o \in Processes
    BY DEF Processes
  <2> QED
    BY <1>3, <2>1, GiveBackTypes DEF LockReplyLost, MoreToLock, orderVars, OrderTypes
<1>4. ASSUME NEW o \in Orders, InsertFails(o) \/ InsertReplyLost(o)
      PROVE  OrderTypes' /\ QueueTypes'
  <2>1. o \in Processes /\ task[o].at = "lock"
    BY <1>4 DEF Processes, InsertFails, InsertReplyLost, AllLocked
  <2>2. task[o].locks \in Seq(Locks)
    BY <2>1, LockingTask
  <2>3. /\ order' \in [Orders -> {"none"} \cup Statuses]
        /\ held' \in [Orders -> Seq(Locks)]
    BY <1>4, <2>2 DEF InsertFails, InsertReplyLost, orderVars, OrderTypes, Statuses, validTransitions
  <2>4. Becomes(o, SettleTask(o, "release", task[o].locks)) /\ UNCHANGED brokerVars
    BY <1>4 DEF InsertFails, InsertReplyLost
  <2> QED
    BY <2>1, <2>3, <2>4, GiveBackTypes
<1> QED
  BY <1>1, <1>2, <1>3, <1>4 DEF Failure

\* The orders, tasks, messages and bounds keep their types.
LEMMA NextTypes == OrderTypes /\ QueueTypes /\ Next => OrderTypes' /\ QueueTypes'
BY RequestTypes, ReceiveTypes, WorkTypes, FailureTypes DEF Next

\* Every call the inventory gets is one it may get.
LEMMA CallsAllowed == OrderTypes /\ Next => [Stock!Next]_(Stock!vars)
<1> SUFFICES ASSUME OrderTypes, Next PROVE Stock!Next \/ UNCHANGED inventoryVars
  BY DEF Stock!vars, inventoryVars
<1>1. ASSUME NEW o \in Orders, NEW l \in Locks, LockItem(o, l) \/ LockReplyLost(o, l)
      PROVE  Stock!Next
  <2>1. /\ MoreToLock(o)
        /\ Inv!LockStock(o, NextItem(o).book, l, NextItem(o).quantity)
    BY <1>1 DEF LockItem, LockReplyLost
  <2>2. o \in Processes /\ task[o].at = "lock"
    BY <2>1 DEF Processes, MoreToLock
  <2>3. PICK n \in Nat : n = Len(task[o].locks)
    BY <2>2, LockingTask, LenProperties
  <2>4. n + 1 \in DOMAIN Items[o]
    <3>1. PICK s \in Seq([book: Books, quantity: Nat \ {0}]) : s = Items[o]
      BY CheckoutConstants
    <3>2. DOMAIN s = 1 .. Len(s) /\ Len(s) \in Nat
      BY LenProperties
    <3>3. n < Len(s)
      BY <2>1, <2>3, <3>1 DEF MoreToLock
    <3> QED
      BY <3>1, <3>2, <3>3
  <2> QED
    BY <2>1, <2>3, <2>4, LockIsNext DEF NextItem
<1>2. ASSUME NEW p \in Processes, SettleNext(p) PROVE Stock!Next
  <2>1. task[p] \in Settling /\ Head(task[p].todo) \in Locks
    BY <1>2, SettlingTask, HeadTailProperties DEF SettleNext, ToSettle
  <2>2. task[p].op \in {"release", "deduct"}
    BY <2>1 DEF Settling
  <2> QED
    BY <1>2, <2>1, <2>2, SettleIsNext DEF SettleNext
<1>3. ASSUME NEW p \in Processes, CallFails(p) PROVE Stock!Next \/ UNCHANGED inventoryVars
  BY <1>3, AbortIsNext DEF CallFails
<1>4. ASSUME NEW p \in Processes, Work(p) PROVE Stock!Next \/ UNCHANGED inventoryVars
  <2>1. ASSUME NEW l \in Locks, LockItem(p, l) PROVE Stock!Next
    BY <1>1, <2>1, LockingTask DEF LockItem, MoreToLock
  <2>2. CASE InventoryStep(p)
    BY <2>2, ProgressIsNext DEF InventoryStep
  <2>3. CASE \/ LockRefused(p) \/ InsertOrder(p) \/ CancelWrite(p) \/ StatusWrite(p)
             \/ SettleRefused(p) \/ SettleDone(p)
    BY <2>3 DEF LockRefused, InsertOrder, CancelWrite, StatusWrite, SettleRefused, SettleDone
  <2> QED
    BY <1>2, <1>4, <2>1, <2>2, <2>3 DEF Work
<1>5. Request => UNCHANGED inventoryVars
  BY DEF Request, CreateOrder, PaymentEvent, CancelRead, UpdateOrderStatus
<1>6. \A p \in Consumers, o \in Orders : ReceivePayment(p, o) => UNCHANGED inventoryVars
  BY DEF ReceivePayment
<1>7. \A p \in Processes : Crash(p) => UNCHANGED inventoryVars
  BY DEF Crash
<1>8. \A o \in Orders : InsertFails(o) \/ InsertReplyLost(o) => UNCHANGED inventoryVars
  BY DEF InsertFails, InsertReplyLost
<1> QED
  BY <1>1, <1>3, <1>4, <1>5, <1>6, <1>7, <1>8 DEF Next, Failure

LEMMA InitTypes == Init => OrderTypes /\ QueueTypes /\ FaultTypes
<1> SUFFICES ASSUME Init PROVE OrderTypes /\ QueueTypes /\ FaultTypes
  OBVIOUS
<1>1. task \in [Processes -> Tasks] /\ OwnRequest
  BY DEF Init, Tasks, OwnRequest, Idle
<1>2. held \in [Orders -> Seq(Locks)]
  BY EmptySeq DEF Init
<1>3. \A o \in Orders : Taken(o) = {}
  BY DEF Init, Taken, Working, Processes
<1>4. Delivered
  BY <1>3, FS_EmptySet DEF Init, Delivered
<1> QED
  BY <1>1, <1>2, <1>4, CheckoutConstants DEF Init, OrderTypes, QueueTypes, FaultTypes

LEMMA StutterTypes ==
    OrderTypes /\ QueueTypes /\ FaultTypes /\ UNCHANGED vars => OrderTypes' /\ QueueTypes' /\ FaultTypes'
BY DEF vars, inventoryVars, orderVars, brokerVars, faultVars, OrderTypes, QueueTypes, FaultTypes,
       OwnRequest, Delivered, Taken, Working

LEMMA TypeInvariant == Spec => []TypeInv
<1>1. Init => TypeInv
  BY InitTypes, InitStock, StockConstants, Stock!InitTypeInv DEF TypeInv
<1>2. TypeInv /\ [Next]_vars => TypeInv'
  <2>1. TypeInv /\ [Next]_vars => OrderTypes' /\ QueueTypes' /\ FaultTypes'
    BY NextTypes, NextFaults, StutterTypes DEF TypeInv
  <2>2. TypeInv /\ [Next]_vars => [Stock!Next]_(Stock!vars)
    BY CallsAllowed DEF TypeInv, vars, inventoryVars, Stock!vars
  <2>3. TypeInv /\ [Next]_vars => Stock!TypeInv'
    BY <2>2, StockConstants, Stock!NextTypeInv DEF TypeInv
  <2> QED
    BY <2>1, <2>3 DEF TypeInv
<1> QED
  BY <1>1, <1>2, PTL DEF Spec

(* The order tables, the tasks of the processes, the queue and the           *)
(* inventory's tables keep their types; in particular no column of the      *)
(* stock goes below zero, and no message multiplies, whatever the order     *)
(* service's requests, the consumers and the faults interleave to.          *)
THEOREM CheckoutTypes == Spec => []TypeOK
<1>1. TypeInv => TypeOK
  <2> SUFFICES ASSUME TypeInv PROVE TypeOK
    OBVIOUS
  <2>1. Inv!TypeOK
    BY SameNotions DEF TypeInv, Stock!TypeInv
  <2>2. ASSUME NEW o \in Orders PROVE queue[o] \in 0 .. MaxEvents
    <3>1. Cardinality(Taken(o)) \in Nat /\ queue[o] \in Nat /\ events[o] \in 0 .. MaxEvents
      BY FS_CardinalityType DEF TypeInv, QueueTypes, Delivered
    <3>2. queue[o] + Cardinality(Taken(o)) <= events[o]
      BY DEF TypeInv, QueueTypes, Delivered
    <3> QED
      BY <3>1, <3>2, CheckoutConstants
  <2>3. queue \in [Orders -> 0 .. MaxEvents]
    BY <2>2 DEF TypeInv, QueueTypes
  <2> QED
    BY <2>1, <2>3 DEF TypeInv, OrderTypes, QueueTypes, FaultTypes, TypeOK, Tasks
<1> QED
  BY TypeInvariant, <1>1, PTL

(* The order service never makes a call the inventory service does not      *)
(* expect, so all that is true of every run of module Inventory is true     *)
(* here too.                                                                *)
THEOREM CheckoutUsesInventory == Spec => Inv!Spec
<1>1. Init => Inv!Init
  BY DEF Init
<1>2. TypeInv /\ [Next]_vars => [Inv!Next]_(Inv!vars)
  <2>1. TypeInv /\ [Next]_vars => [Stock!Next]_(Stock!vars)
    BY CallsAllowed DEF TypeInv, vars, inventoryVars, Stock!vars
  <2>2. Stock!Next => Inv!Next
    BY DEF Inv!Next, Stock!Next, Inv!Request, Stock!Request, Inv!LockStock, Stock!LockStock,
           Inv!CanLock, Stock!CanLock, Inv!Available, Stock!Available,
           Inv!BeginSettle, Stock!BeginSettle, Inv!MaySettle, Stock!MaySettle,
           Inv!SetStockExisting, Stock!SetStockExisting, Inv!SetStockMissing, Stock!SetStockMissing,
           Inv!GetStockMiss, Stock!GetStockMiss, Inv!CacheExpire, Stock!CacheExpire,
           Inv!Abort, Stock!Abort, Inv!Progress, Stock!Progress, Inv!CommitRelease,
           Stock!CommitRelease, Inv!CommitDeduct, Stock!CommitDeduct, Inv!ReleasedRow,
           Stock!ReleasedRow, Inv!DeductedRow, Stock!DeductedRow, Inv!CreateRow,
           Stock!CreateRow, Inv!InvalidateCache, Stock!InvalidateCache, Inv!CacheStock,
           Stock!CacheStock, Inv!Idle, Stock!Idle, Inv!Settling, Stock!Settling
  <2> QED
    BY <2>1, <2>2 DEF Inv!vars, Stock!vars
<1> QED
  BY TypeInvariant, <1>1, <1>2, PTL DEF Spec, Inv!Spec

-----------------------------------------------------------------------------
(* A waiting order holds its locks.  While a request locks, its locks are    *)
(* those of its task; once the order is written, those of its items.        *)

Own(o) == IF task[o].at = "lock" THEN task[o].locks ELSE held[o]
Owns(o, l) == \E i \in DOMAIN Own(o) : Own(o)[i] = l

\* The order waits for its payment, and CreateOrder knows of it.
Waiting(o) == order[o] = "pending_payment" /\ o \notin unsure
Live(o) == task[o].at = "lock" \/ Waiting(o)

\* Some process will settle the lock, or is at it.
Doomed(l) ==
    \E p \in Processes :
        \/ task[p].at = "settle" /\ \E i \in DOMAIN task[p].todo : task[p].todo[i] = l
        \/ call[p] \in Stock!Settling /\ call[p].lock = l

Reserves(l, item) ==
    lock[l] = [status |-> "locked", book |-> item.book, quantity |-> item.quantity]

Stages ==
    /\ \A o \in Orders : order[o] = "none" => held[o] = <<>>
    /\ \A o \in Orders : order[o] # "none" => task[o].at \in {"settle", "done"}
    /\ \A p \in Processes : task[p].at \in {"cancel", "update"} =>
         p \notin Orders /\ order[task[p].order] # "none"
    /\ \A p \in Processes : task[p].at = "update" => task[p].to # "pending_payment"

Drawn == \A l \in Locks : Doomed(l) \/ (\E o \in Orders : Owns(o, l)) => lock[l].status # "free"
Apart == \A o1, o2 \in Orders, l \in Locks : Owns(o1, l) /\ Owns(o2, l) => o1 = o2
Kept ==
    \A o \in Orders : Live(o) => \A i \in DOMAIN Own(o) :
        ~Doomed(Own(o)[i]) /\ Reserves(Own(o)[i], Items[o][i])
Complete == \A o \in Orders : Waiting(o) => Len(held[o]) = Len(Items[o])

LockInv == Drawn /\ Apart /\ Kept

LEMMA OwnIsSeq ==
    ASSUME OrderTypes, NEW o \in Orders
    PROVE  /\ Own(o) \in Seq(Locks)
           /\ \A i \in DOMAIN Own(o) : Own(o)[i] \in Locks
<1>1. o \in Processes
  BY DEF Processes
<1>2. Own(o) \in Seq(Locks)
  BY <1>1, LockingTask DEF Own, OrderTypes
<1>3. PICK s \in Seq(Locks) : s = Own(o)
  BY <1>2
<1>4. \A i \in DOMAIN s : s[i] \in Locks
  BY LenProperties, ElementOfSeq
<1> QED
  BY <1>3, <1>4

\* Locks change hands only from an order to those who settle for it, and only
\* locks not drawn or to be settled change.
LEMMA HandOver ==
    ASSUME OrderTypes, LockInv,
           \A o \in Orders : Own(o)' = Own(o) \/ Own(o)' = <<>>,
           \A o \in Orders : Live(o)' /\ Own(o)' # <<>> => Live(o),
           \A l \in Locks : Doomed(l)' => Doomed(l) \/ \E o \in Orders : ~Live(o)' /\ Owns(o, l),
           \A l \in Locks : \/ lock'[l] = lock[l]
                            \/ lock'[l].status # "free" /\ (Doomed(l) \/ lock[l].status = "free")
    PROVE  LockInv'
<1>1. \A o \in Orders, l \in Locks : Owns(o, l)' => Owns(o, l) /\ Own(o)' = Own(o) /\ Own(o)' # <<>>
  <2> SUFFICES ASSUME NEW o \in Orders, NEW l \in Locks, Owns(o, l)'
               PROVE  Own(o)' # <<>>
    BY DEF Owns
  <2>1. Own(o)' = <<>> => DOMAIN Own(o)' = {}
    BY EmptySeq
  <2> QED
    BY <2>1 DEF Owns
<1>2. Drawn'
  <2> SUFFICES ASSUME NEW l \in Locks, Doomed(l)' \/ \E o \in Orders : Owns(o, l)'
               PROVE  lock'[l].status # "free"
    BY DEF Drawn
  <2>1. lock[l].status # "free"
    BY <1>1 DEF LockInv, Drawn
  <2> QED
    BY <2>1
<1>3. Apart'
  BY <1>1 DEF LockInv, Apart
<1>4. Kept'
  <2> SUFFICES ASSUME NEW o \in Orders, Live(o)', NEW i \in DOMAIN Own(o)'
               PROVE  ~Doomed(Own(o)[i])' /\ Reserves(Own(o)[i], Items[o][i])'
    BY DEF Kept
  <2>1. Own(o)' = Own(o) /\ Live(o)
    <3>1. Own(o)' = <<>> => DOMAIN Own(o)' = {}
      BY EmptySeq
    <3> QED
      BY <3>1
  <2>2. PICK l \in Locks : l = Own(o)[i]
    BY <2>1, OwnIsSeq
  <2>3. Own(o)'[i] = l /\ Owns(o, l) /\ ~Doomed(l) /\ Reserves(l, Items[o][i])
    BY <2>1, <2>2 DEF LockInv, Kept, Owns
  <2>4. ~Doomed(l)'
    BY <2>1, <2>3 DEF LockInv, Apart
  <2>5. lock'[l] = lock[l]
    BY <2>3 DEF Reserves
  <2>6. Reserves(l, Items[o][i])'
    BY <2>3, <2>5 DEF Reserves
  <2> QED
    BY <2>3, <2>4, <2>6 DEF Doomed, Reserves
<1> QED
  BY <1>2, <1>3, <1>4 DEF LockInv

\* One process moves on: what the others have in hand stays.
LEMMA Others ==
    ASSUME OrderTypes, NEW p \in Processes, NEW t, task' = [task EXCEPT ![p] = t]
    PROVE  task'[p] = t /\ \A q \in Processes \ {p} : task'[q] = task[q]
BY DEF OrderTypes


\* What is doomed when one process gets other work and the calls stay.
LEMMA DoomedBy ==
    ASSUME NEW p \in Processes,
           \A q \in Processes \ {p} : task'[q] = task[q],
           \A q \in Processes : call'[q] \in Stock!Settling => call'[q] = call[q],
           NEW l \in Locks, Doomed(l)'
    PROVE  \/ Doomed(l)
           \/ task'[p].at = "settle" /\ \E i \in DOMAIN task'[p].todo : task'[p].todo[i] = l
<1>1. PICK q \in Processes :
          \/ task'[q].at = "settle" /\ \E i \in DOMAIN task'[q].todo : task'[q].todo[i] = l
          \/ call'[q] \in Stock!Settling /\ call'[q].lock = l
  BY DEF Doomed, Stock!Settling
<1> QED
  BY <1>1 DEF Doomed

\* A request gives back what it has.
LEMMA GiveBackLocks ==
    ASSUME OrderTypes, Stages, LockInv, NEW o \in Orders, task[o].at = "lock",
           Becomes(o, SettleTask(o, "release", task[o].locks)),
           UNCHANGED <<order, held, unsure>>,
           \A q \in Processes : call'[q] \in Stock!Settling => call'[q] = call[q],
           \A l \in Locks : lock'[l] = lock[l] \/ (lock[l].status = "free" /\ lock'[l].status # "free")
    PROVE  LockInv' /\ Stages'
<1>1. o \in Processes
  BY DEF Processes
<1>2. PICK t : t = SettleTask(o, "release", task[o].locks)
  OBVIOUS
<1>3. t.at = "settle" /\ t.todo = task[o].locks
  BY <1>2 DEF SettleTask
<1>4. task'[o] = t /\ \A q \in Processes \ {o} : task'[q] = task[q]
  BY <1>1, <1>2, Others DEF Becomes
<1>5. order[o] = "none" /\ held[o] = <<>>
  BY DEF Stages
<1>6. \A x \in Orders \ {o} : Own(x)' = Own(x) /\ (Live(x)' => Live(x))
  BY <1>4 DEF Own, Live, Waiting, Processes
<1>7. Own(o)' = <<>> /\ ~Live(o)'
  BY <1>3, <1>4, <1>5 DEF Own, Live, Waiting
<1>8. ASSUME NEW l \in Locks, Doomed(l)' PROVE Doomed(l) \/ Owns(o, l)
  <2>1. Doomed(l) \/ \E i \in DOMAIN t.todo : t.todo[i] = l
    BY <1>1, <1>4, <1>8, DoomedBy
  <2> QED
    BY <1>3, <2>1 DEF Owns, Own
<1>9. LockInv'
  BY <1>6, <1>7, <1>8, HandOver
<1>10. Stages'
  BY <1>3, <1>4, <1>5 DEF Stages, Processes
<1> QED
  BY <1>9, <1>10

\* Requests only begin.
LEMMA BeginLocks ==
    ASSUME OrderTypes, Stages, LockInv, NEW o \in Orders, CreateOrder(o)
    PROVE  Stages' /\ LockInv'
<1>1. o \in Processes /\ order[o] = "none" /\ held[o] = <<>>
  BY DEF Processes, CreateOrder, Stages, Idle, OrderTypes
<1>2. /\ task'[o] = [at |-> "lock", order |-> o, locks |-> <<>>]
      /\ \A q \in Processes \ {o} : task'[q] = task[q]
  BY <1>1, Others DEF CreateOrder, Becomes
<1>3. \A x \in Orders \ {o} : Own(x)' = Own(x) /\ (Live(x)' => Live(x))
  BY <1>2 DEF Own, Live, Waiting, Processes, CreateOrder, orderVars, faultVars
<1>4. Own(o)' = <<>>
  BY <1>2 DEF Own
<1>5. \A l \in Locks : Doomed(l)' => Doomed(l)
  BY <1>1, <1>2, DoomedBy DEF CreateOrder, inventoryVars
<1>6. LockInv'
  BY <1>3, <1>4, <1>5, HandOver DEF CreateOrder, inventoryVars
<1>7. task'[o].at = "lock" /\ UNCHANGED <<order, held>>
  BY <1>2 DEF CreateOrder, orderVars
<1>8. Stages'
  BY <1>1, <1>2, <1>7 DEF Stages, Processes
<1> QED
  BY <1>6, <1>8

\* A status is read.
LEMMA ReadLocks ==
    ASSUME OrderTypes, Stages, LockInv, NEW p \in Processes, p \notin Orders, NEW o \in Orders,
           order[o] # "none", NEW t, t.at \in {"cancel", "update"}, t.order = o,
           t.at = "update" => t.to # "pending_payment",
           Becomes(p, t), UNCHANGED <<inventoryVars, orderVars, faultVars>>
    PROVE  Stages' /\ LockInv'
<1>1. task'[p] = t /\ \A q \in Processes \ {p} : task'[q] = task[q]
  BY Others DEF Becomes
<1>2. \A x \in Orders : Own(x)' = Own(x) /\ (Live(x)' => Live(x))
  BY <1>1 DEF Own, Live, Waiting, Processes, orderVars, faultVars
<1>3. \A l \in Locks : Doomed(l)' => Doomed(l)
  BY <1>1, DoomedBy DEF inventoryVars
<1>4. LockInv'
  BY <1>2, <1>3, HandOver DEF inventoryVars
<1>5. Stages'
  BY <1>1 DEF Stages, orderVars, Processes
<1> QED
  BY <1>4, <1>5

LEMMA TransitionsGoOn ==
    ASSUME NEW from, NEW to, isValidTransition(from, to)
    PROVE  from # "none" /\ to # "pending_payment" /\ to # "none" /\ to \in Statuses
BY DEF isValidTransition, Statuses, validTransitions

\* A status is written: the order no longer waits.
LEMMA WriteLocks ==
    ASSUME OrderTypes, Stages, LockInv, NEW p \in Processes, CancelWrite(p) \/ StatusWrite(p)
    PROVE  Stages' /\ LockInv'
<1>1. PICK o \in Orders : o = task[p].order
  BY TaskKinds DEF CancelWrite, StatusWrite, OrderTypes, Idle, Done
<1>2. p \notin Orders /\ order[o] # "none" /\ o \in Processes /\ task[o].at \in {"settle", "done"}
  BY <1>1 DEF Stages, CancelWrite, StatusWrite, Processes
<1>3. PICK to : order' = [order EXCEPT ![o] = to] /\ to # "pending_payment" /\ to # "none"
  <2>1. CASE CancelWrite(p)
    BY <1>1, <2>1 DEF CancelWrite
  <2>2. CASE StatusWrite(p)
    <3>1. task[p].to \in Statuses /\ task[p].to # "pending_payment"
      BY <2>2, TaskKinds DEF StatusWrite, OrderTypes, Updating, Stages
    <3>2. task[p].to # "none"
      BY <3>1 DEF Statuses, validTransitions
    <3> QED
      BY <1>1, <2>2, <3>1, <3>2 DEF StatusWrite
  <2> QED
    BY <2>1, <2>2
<1>4. PICK t : /\ task' = [task EXCEPT ![p] = t]
               /\ t.at \in {"settle", "idle"}
               /\ t.at = "settle" => t.todo = held[o]
  <2>1. CASE CancelWrite(p)
    <3>1. PICK t : t = SettleTask(o, "release", held[o])
      OBVIOUS
    <3>2. task' = [task EXCEPT ![p] = t]
      BY <1>1, <2>1, <3>1 DEF CancelWrite, Becomes
    <3>3. t.at = "settle" /\ t.todo = held[o]
      BY <3>1 DEF SettleTask
    <3> QED
      BY <3>2, <3>3
  <2>2. CASE StatusWrite(p)
    <3>1. PICK t : t = IF p \in Consumers THEN SettleTask(o, "deduct", held[o]) ELSE Idle
      OBVIOUS
    <3>2. task' = [task EXCEPT ![p] = t]
      BY <1>1, <2>2, <3>1 DEF StatusWrite, Becomes
    <3>3. t.at \in {"settle", "idle"} /\ (t.at = "settle" => t.todo = held[o])
      BY <3>1 DEF SettleTask, Idle
    <3> QED
      BY <3>2, <3>3
  <2> QED
    BY <2>1, <2>2
<1>5. task'[p] = t /\ \A q \in Processes \ {p} : task'[q] = task[q]
  BY <1>4, Others
<1>6. UNCHANGED <<inventoryVars, held, faultVars>>
  BY DEF CancelWrite, StatusWrite
<1>7. order'[o] = to /\ \A x \in Orders \ {o} : order'[x] = order[x]
  BY <1>3 DEF OrderTypes
<1>8. \A x \in Orders : Own(x)' = Own(x) /\ (Live(x)' => Live(x))
  BY <1>2, <1>3, <1>5, <1>6, <1>7 DEF Own, Live, Waiting, Processes, faultVars
<1>9. ~Live(o)'
  BY <1>2, <1>3, <1>5, <1>7 DEF Live, Waiting
<1>10. ASSUME NEW l \in Locks, Doomed(l)' PROVE Doomed(l) \/ Owns(o, l)
  <2>1. Doomed(l) \/ (task'[p].at = "settle" /\ \E i \in DOMAIN task'[p].todo : task'[p].todo[i] = l)
    BY <1>5, <1>6, <1>10, DoomedBy DEF inventoryVars
  <2>2. task'[p].at = "settle" => task'[p].todo = Own(o)
    BY <1>2, <1>4, <1>5 DEF Own
  <2> QED
    BY <2>1, <2>2 DEF Owns
<1>11. LockInv'
  BY <1>6, <1>8, <1>9, <1>10, HandOver DEF inventoryVars
<1>12. Stages'
  BY <1>1, <1>2, <1>3, <1>4, <1>5, <1>6, <1>7 DEF Stages, Processes
<1> QED
  BY <1>11, <1>12

\* A lock is drawn: its record, and the call that deletes the cache key.
LEMMA Draws ==
    ASSUME Stock!TypeOK, NEW p \in Processes, NEW b, NEW l \in Locks, NEW q,
           Inv!LockStock(p, b, l, q)
    PROVE  /\ lock[l].status = "free"
           /\ lock'[l].status # "free"
           /\ \A k \in Locks \ {l} : lock'[k] = lock[k]
           /\ \A r \in Processes : call'[r] \in Stock!Settling => call'[r] = call[r]
<1>1. /\ lock[l].status = "free"
      /\ lock' = [lock EXCEPT ![l] = [status |-> "locked", book |-> b, quantity |-> q]]
      /\ call' = [call EXCEPT ![p] = [op |-> "invalidate", book |-> b]]
  BY DEF Inv!LockStock
<1>2. lock'[l] = [status |-> "locked", book |-> b, quantity |-> q] /\ \A k \in Locks \ {l} : lock'[k] = lock[k]
  BY <1>1 DEF Stock!TypeOK
<1>3. call'[p].op = "invalidate" /\ \A r \in Processes \ {p} : call'[r] = call[r]
  BY <1>1 DEF Stock!TypeOK
<1> QED
  BY <1>1, <1>2, <1>3 DEF Stock!Settling

LEMMA LockItemLocks ==
    ASSUME Stock!TypeOK, OrderTypes, Stages, LockInv, NEW o \in Orders, NEW l \in Locks, LockItem(o, l)
    PROVE  Stages' /\ LockInv'
<1>1. o \in Processes /\ task[o].at = "lock" /\ order[o] = "none"
  BY DEF Processes, LockItem, MoreToLock, Stages
<1>2. PICK s \in Seq(Locks) : s = task[o].locks
  BY <1>1, LockingTask
<1>3. PICK n \in Nat : n = Len(s)
  BY LenProperties
<1>4. /\ lock[l].status = "free"
      /\ \A k \in Locks \ {l} : lock'[k] = lock[k]
      /\ \A r \in Processes : call'[r] \in Stock!Settling => call'[r] = call[r]
  BY <1>1, Draws DEF LockItem
<1>5. Reserves(l, Items[o][n + 1])'
  <2>1. NextItem(o) = Items[o][n + 1]
    BY <1>2, <1>3 DEF NextItem
  <2>2. PICK item : item = NextItem(o)
    OBVIOUS
  <2>3. PICK b, q : b = item.book /\ q = item.quantity
    OBVIOUS
  <2>4. Inv!LockStock(o, b, l, q)
    BY <2>2, <2>3 DEF LockItem
  <2>5. lock'[l] = [status |-> "locked", book |-> b, quantity |-> q]
    <3>1. lock' = [lock EXCEPT ![l] = [status |-> "locked", book |-> b, quantity |-> q]]
      BY <2>4 DEF Inv!LockStock
    <3> QED
      BY <3>1 DEF Stock!TypeOK
  <2> QED
    BY <2>1, <2>2, <2>3, <2>5 DEF Reserves
<1>6. PICK t : t = [task[o] EXCEPT !.locks = Append(s, l)]
  OBVIOUS
<1>7. task' = [task EXCEPT ![o] = t]
  BY <1>2, <1>6 DEF LockItem
<1>8. t.at = "lock" /\ t.locks = Append(s, l)
  BY <1>1, <1>6, LockingTask DEF Locking
<1>9. task'[o] = t /\ \A q \in Processes \ {o} : task'[q] = task[q]
  BY <1>1, <1>7, Others
<1>10. UNCHANGED <<order, held, unsure>>
  BY DEF LockItem, orderVars, faultVars
<1>11. \A x \in Orders \ {o} : Own(x)' = Own(x) /\ (Live(x)' => Live(x))
  BY <1>9, <1>10 DEF Own, Live, Waiting, Processes
<1>12. Own(o) = s /\ Own(o)' = Append(s, l) /\ Live(o)
  BY <1>1, <1>2, <1>8, <1>9 DEF Own, Live
<1>13. /\ DOMAIN s = 1 .. n /\ DOMAIN Append(s, l) = 1 .. n + 1
       /\ \A i \in 1 .. n : Append(s, l)[i] = s[i]
       /\ Append(s, l)[n + 1] = l
  BY <1>3, LenProperties, AppendProperties
<1>14. \A k \in Locks : Doomed(k)' => Doomed(k)
  BY <1>1, <1>4, <1>8, <1>9, DoomedBy
<1>15. \A x \in Orders, k \in Locks : Owns(x, k)' => Owns(x, k) \/ (x = o /\ k = l)
  <2>1. \A k \in Locks : Owns(o, k)' => Owns(o, k) \/ k = l
    BY <1>12, <1>13 DEF Owns
  <2> QED
    BY <1>11, <2>1 DEF Owns
<1>16. ~Doomed(l) /\ \A x \in Orders : ~Owns(x, l)
  BY <1>4 DEF LockInv, Drawn
<1>17. lock'[l].status = "locked"
  BY <1>5 DEF Reserves
<1>18. Drawn'
  BY <1>4, <1>14, <1>15, <1>17 DEF LockInv, Drawn
<1>19. Apart'
  BY <1>15, <1>16 DEF LockInv, Apart
<1>20. Kept'
  <2> SUFFICES ASSUME NEW x \in Orders, Live(x)', NEW i \in DOMAIN Own(x)'
               PROVE  ~Doomed(Own(x)[i])' /\ Reserves(Own(x)[i], Items[x][i])'
    BY DEF Kept
  <2>1. CASE x = o /\ i = n + 1
    BY <1>5, <1>12, <1>13, <1>14, <1>16, <2>1 DEF Reserves, Doomed
  <2>2. CASE ~(x = o /\ i = n + 1)
    <3>1. i \in DOMAIN Own(x) /\ Own(x)'[i] = Own(x)[i] /\ Live(x)
      BY <1>11, <1>12, <1>13, <2>2
    <3>2. PICK k \in Locks : k = Own(x)[i]
      BY <3>1, OwnIsSeq
    <3>3. ~Doomed(k) /\ Reserves(k, Items[x][i])
      BY <3>1, <3>2 DEF LockInv, Kept
    <3>4. k # l
      BY <1>4, <3>3 DEF Reserves
    <3>5. ~Doomed(k)' /\ Reserves(k, Items[x][i])'
      BY <1>4, <1>14, <3>3, <3>4 DEF Reserves
    <3> QED
      BY <3>1, <3>2, <3>5 DEF Doomed, Reserves
  <2> QED
    BY <2>1, <2>2
<1>21. Stages'
  BY <1>1, <1>8, <1>9, <1>10 DEF Stages, Processes
<1> QED
  BY <1>18, <1>19, <1>20, <1>21 DEF LockInv

\* A lock is settled after the other.
LEMMA TodoLocks ==
    ASSUME OrderTypes, Stages, LockInv, NEW p \in Processes, ToSettle(p),
           task' = [task EXCEPT ![p].todo = Tail(@)],
           UNCHANGED <<order, held, unsure, lock>>,
           \A q \in Processes : call'[q] \in Stock!Settling =>
             call'[q] = call[q] \/ (q = p /\ call'[q].lock = Head(task[p].todo))
    PROVE  Stages' /\ LockInv'
<1>1. task[p].at = "settle" /\ task[p] \in Settling
  BY SettlingTask DEF ToSettle
<1>2. PICK s \in Seq(Locks) : s = task[p].todo /\ s # <<>>
  BY <1>1, SettlingTask DEF ToSettle
<1>3. PICK t : t = [task[p] EXCEPT !.todo = Tail(s)]
  OBVIOUS
<1>4. t.at = "settle" /\ t.todo = Tail(s) /\ t.order = task[p].order
  BY <1>1, <1>3 DEF Settling
<1>5. task' = [task EXCEPT ![p] = t]
  BY <1>2, <1>3
<1>6. task'[p] = t /\ \A q \in Processes \ {p} : task'[q] = task[q]
  BY <1>5, Others
<1>7. \A x \in Orders : Own(x)' = Own(x) /\ (Live(x)' => Live(x))
  BY <1>1, <1>4, <1>6 DEF Own, Live, Waiting, Processes
<1>8. /\ \E i \in DOMAIN s : s[i] = Head(s)
      /\ \A i \in DOMAIN Tail(s) : \E j \in DOMAIN s : s[j] = Tail(s)[i]
  <2>1. /\ Len(s) \in Nat /\ DOMAIN s = 1 .. Len(s) /\ Len(s) > 0
        /\ Head(s) = s[1]
        /\ Tail(s) \in Seq(Locks) /\ Len(Tail(s)) = Len(s) - 1
        /\ \A i \in 1 .. Len(Tail(s)) : Tail(s)[i] = s[i + 1]
    BY <1>2, LenProperties, HeadTailProperties, EmptySeq
  <2>2. DOMAIN Tail(s) = 1 .. Len(Tail(s))
    BY <2>1, LenProperties
  <2> QED
    BY <2>1, <2>2
<1>9. ASSUME NEW l \in Locks, Doomed(l)' PROVE Doomed(l)
  <2>1. PICK q \in Processes :
            \/ task'[q].at = "settle" /\ \E i \in DOMAIN task'[q].todo : task'[q].todo[i] = l
            \/ call'[q] \in Stock!Settling /\ call'[q].lock = l
    BY <1>9 DEF Doomed, Stock!Settling
  <2>2. CASE task'[q].at = "settle" /\ \E i \in DOMAIN task'[q].todo : task'[q].todo[i] = l
    BY <1>1, <1>2, <1>4, <1>6, <1>8, <2>2 DEF Doomed
  <2>3. CASE call'[q] \in Stock!Settling /\ call'[q].lock = l
    BY <1>1, <1>2, <1>8, <2>3 DEF Doomed
  <2> QED
    BY <2>1, <2>2, <2>3
<1>10. LockInv'
  BY <1>7, <1>9, HandOver
<1>11. Stages'
  BY <1>1, <1>4, <1>6 DEF Stages, Processes
<1> QED
  BY <1>10, <1>11

\* A process stops, having done its work or not.
LEMMA RestLocks ==
    ASSUME OrderTypes, Stages, LockInv, NEW p \in Processes, Working(p), Becomes(p, Rest(p)),
           UNCHANGED <<order, held, unsure, lock, call>>
    PROVE  Stages' /\ LockInv'
<1>1. PICK t : t = Rest(p) /\ t \in {Idle, Done} /\ (p \in Orders => t = Done)
  BY Rests DEF Rest
<1>2. t.at \in {"idle", "done"} /\ (p \in Orders => t.at = "done")
  BY <1>1 DEF Idle, Done
<1>3. task'[p] = t /\ \A q \in Processes \ {p} : task'[q] = task[q]
  BY <1>1, Others DEF Becomes
<1>4. \A x \in Orders : Own(x)' = Own(x) \/ Own(x)' = <<>>
  BY <1>2, <1>3 DEF Own, Stages, Processes
<1>5. \A x \in Orders : Live(x)' => Live(x)
  BY <1>2, <1>3 DEF Live, Waiting, Processes
<1>6. \A l \in Locks : Doomed(l)' => Doomed(l)
  BY <1>2, <1>3, DoomedBy
<1>7. LockInv'
  BY <1>4, <1>5, <1>6, HandOver
<1>8. Stages'
  BY <1>2, <1>3 DEF Stages, Processes
<1> QED
  BY <1>7, <1>8

\* The order is written with its locks, and CreateOrder may not know.
LEMMA InsertLocks ==
    ASSUME OrderTypes, Stages, LockInv, NEW o \in Orders, InsertOrder(o) \/ InsertReplyLost(o)
    PROVE  Stages' /\ LockInv'
<1>1. o \in Processes /\ task[o].at = "lock"
  BY DEF Processes, InsertOrder, InsertReplyLost, AllLocked
<1>2. PICK s \in Seq(Locks) : s = task[o].locks
  BY <1>1, LockingTask
<1>3. PICK t : /\ task' = [task EXCEPT ![o] = t]
               /\ t.at \in {"settle", "done"}
               /\ t.at = "settle" => t.todo = s /\ o \in unsure'
  <2>1. CASE InsertOrder(o)
    <3>1. Done.at = "done"
      BY DEF Done
    <3> QED
      BY <2>1, <3>1 DEF InsertOrder, Becomes
  <2>2. CASE InsertReplyLost(o)
    <3>1. PICK t : t = SettleTask(o, "release", task[o].locks)
      OBVIOUS
    <3>2. t.at = "settle" /\ t.todo = s
      BY <1>2, <3>1 DEF SettleTask
    <3> QED
      BY <2>2, <3>1, <3>2 DEF InsertReplyLost, Becomes
  <2> QED
    BY <2>1, <2>2
<1>4. task'[o] = t /\ \A q \in Processes \ {o} : task'[q] = task[q]
  BY <1>1, <1>3, Others
<1>5. /\ order' = [order EXCEPT ![o] = "pending_payment"]
      /\ held' = [held EXCEPT ![o] = s]
      /\ UNCHANGED inventoryVars
      /\ unsure \subseteq unsure'
  BY <1>2 DEF InsertOrder, InsertReplyLost, faultVars
<1>6. /\ order'[o] = "pending_payment" /\ held'[o] = s
      /\ \A x \in Orders \ {o} : order'[x] = order[x] /\ held'[x] = held[x]
  BY <1>5 DEF OrderTypes
<1>7. \A x \in Orders : Own(x)' = Own(x) /\ (Live(x)' => Live(x))
  BY <1>1, <1>2, <1>3, <1>4, <1>5, <1>6 DEF Own, Live, Waiting, Processes
<1>8. ASSUME NEW l \in Locks, Doomed(l)' PROVE Doomed(l) \/ (~Live(o)' /\ Owns(o, l))
  <2>1. Doomed(l) \/ (task'[o].at = "settle" /\ \E i \in DOMAIN task'[o].todo : task'[o].todo[i] = l)
    BY <1>1, <1>4, <1>5, <1>8, DoomedBy DEF inventoryVars
  <2>2. task'[o].at = "settle" => task'[o].todo = Own(o) /\ ~Live(o)'
    BY <1>1, <1>2, <1>3, <1>4 DEF Own, Live, Waiting
  <2> QED
    BY <2>1, <2>2 DEF Owns
<1>9. LockInv'
  BY <1>5, <1>7, <1>8, HandOver DEF inventoryVars
<1>10. ASSUME NEW q \in Processes, task'[q].at \in {"cancel", "update"}
       PROVE  /\ task'[q] = task[q] /\ task[q].order \in Orders /\ q \notin Orders
              /\ order[task[q].order] # "none"
  <2>1. q # o /\ task'[q] = task[q]
    BY <1>3, <1>4, <1>10
  <2> QED
    BY <1>10, <2>1, TaskKinds DEF Stages, OrderTypes, Idle, Done
<1>11. Stages'
  BY <1>3, <1>4, <1>6, <1>10 DEF Stages, Processes
<1> QED
  BY <1>9, <1>11

\* The inventory goes on: it changes only the lock of a call that settles it.
LEMMA Settles ==
    ASSUME Stock!TypeOK, NEW p \in Processes, Inv!Progress(p) \/ Inv!Abort(p)
    PROVE  /\ \A l \in Locks : \/ lock'[l] = lock[l]
                               \/ /\ lock'[l].status \in {"released", "deducted"}
                                  /\ call[p] \in Stock!Settling /\ call[p].lock = l
           /\ \A q \in Processes : call'[q] \in Stock!Settling => call'[q] = call[q]
<1>1. CASE Inv!CommitRelease(p) \/ Inv!CommitDeduct(p)
  <2>1. call[p].op \in {"release", "deduct"}
    BY <1>1 DEF Inv!CommitRelease, Inv!CommitDeduct
  <2>2. call[p] \in Stock!Settling
    BY <2>1 DEF Stock!TypeOK, Stock!Idle, Stock!Settling, Stock!Creating,
                Stock!Invalidating, Stock!Filling
  <2>3. PICK l \in Locks : l = call[p].lock
    BY <2>2 DEF Stock!Settling
  <2>4. PICK st \in {"released", "deducted"} : lock' = [lock EXCEPT ![l].status = st]
    BY <1>1, <2>3 DEF Inv!CommitRelease, Inv!CommitDeduct
  <2>5. lock'[l].status = st /\ \A k \in Locks \ {l} : lock'[k] = lock[k]
    <3>1. lock[l] \in Stock!LockRecord
      BY DEF Stock!TypeOK
    <3>2. [lock[l] EXCEPT !.status = st].status = st
      BY <3>1 DEF Stock!LockRecord
    <3> QED
      BY <2>4, <3>2 DEF Stock!TypeOK
  <2>6. PICK b : call' = [call EXCEPT ![p] = [op |-> "invalidate", book |-> b]]
    BY <1>1 DEF Inv!CommitRelease, Inv!CommitDeduct
  <2>7. call'[p].op = "invalidate" /\ \A q \in Processes \ {p} : call'[q] = call[q]
    BY <2>6 DEF Stock!TypeOK
  <2>8. \A q \in Processes : call'[q] \in Stock!Settling => call'[q] = call[q]
    BY <2>7 DEF Stock!Settling
  <2> QED
    BY <2>2, <2>3, <2>5, <2>8
<1>2. ~Inv!CreateRow(p)
  <2>1. call[p].op = "create" => call[p] \in [op: {"create"}, book: Books, quantity: {}]
    BY DEF Stock!TypeOK, Stock!Idle, Stock!Settling, Stock!Creating, Stock!Invalidating, Stock!Filling
  <2> QED
    BY <2>1 DEF Inv!CreateRow
<1>3. CASE Inv!InvalidateCache(p) \/ Inv!CacheStock(p) \/ Inv!Abort(p)
  <2>1. call' = [call EXCEPT ![p] = Inv!Idle] /\ UNCHANGED lock
    BY <1>3 DEF Inv!InvalidateCache, Inv!CacheStock, Inv!Abort
  <2>2. call'[p] = Inv!Idle /\ \A q \in Processes \ {p} : call'[q] = call[q]
    BY <2>1 DEF Stock!TypeOK
  <2> QED
    BY <2>1, <2>2 DEF Inv!Idle, Stock!Settling
<1> QED
  BY <1>1, <1>2, <1>3 DEF Inv!Progress

LEMMA InventoryLocks ==
    ASSUME Stock!TypeOK, Stages, LockInv, OrderTypes, NEW p \in Processes,
           Inv!Progress(p) \/ Inv!Abort(p), UNCHANGED <<task, order, held, unsure>>
    PROVE  Stages' /\ LockInv'
<1>1. \A l \in Locks : Doomed(l)' => Doomed(l)
  <2> SUFFICES ASSUME NEW l \in Locks, Doomed(l)' PROVE Doomed(l)
    OBVIOUS
  <2> PICK q \in Processes :
          \/ task[q].at = "settle" /\ \E i \in DOMAIN task[q].todo : task[q].todo[i] = l
          \/ call'[q] \in Stock!Settling /\ call'[q].lock = l
    BY DEF Doomed, Stock!Settling
  <2> QED
    BY Settles DEF Doomed
<1>2. \A l \in Locks : lock'[l] = lock[l] \/ (lock'[l].status # "free" /\ Doomed(l))
  BY Settles DEF Doomed
<1>3. \A o \in Orders : Own(o)' = Own(o) /\ (Live(o)' => Live(o))
  BY DEF Own, Live, Waiting
<1>4. LockInv'
  BY <1>1, <1>2, <1>3, HandOver
<1>5. Stages'
  BY DEF Stages
<1> QED
  BY <1>4, <1>5

\* An order is written with a lock for every item.
LEMMA NextComplete ==
    ASSUME OrderTypes, Stages, Complete, Next
    PROVE  Complete'
<1>1. CASE UNCHANGED <<orderVars, unsure>>
  BY <1>1 DEF Complete, Waiting, orderVars
<1>2. ASSUME NEW o \in Orders, InsertOrder(o) PROVE Complete'
  <2>1. /\ order' = [order EXCEPT ![o] = "pending_payment"]
        /\ held' = [held EXCEPT ![o] = task[o].locks]
        /\ Len(task[o].locks) = Len(Items[o]) /\ UNCHANGED unsure
    BY <1>2 DEF InsertOrder, AllLocked, faultVars
  <2>2. /\ held'[o] = task[o].locks
        /\ \A x \in Orders \ {o} : order'[x] = order[x] /\ held'[x] = held[x]
    BY <2>1 DEF OrderTypes
  <2> QED
    BY <2>1, <2>2 DEF Complete, Waiting
<1>3. ASSUME NEW o \in Orders, InsertReplyLost(o) PROVE Complete'
  <2>1. /\ order' = [order EXCEPT ![o] = "pending_payment"]
        /\ held' = [held EXCEPT ![o] = task[o].locks]
        /\ unsure' = unsure \cup {o}
    BY <1>3 DEF InsertReplyLost
  <2>2. \A x \in Orders \ {o} : order'[x] = order[x] /\ held'[x] = held[x]
    BY <2>1 DEF OrderTypes
  <2> QED
    BY <2>1, <2>2 DEF Complete, Waiting
<1>4. ASSUME NEW p \in Processes, CancelWrite(p) \/ StatusWrite(p) PROVE Complete'
  <2>1. PICK o : o = task[p].order
    OBVIOUS
  <2>2. PICK to : to # "pending_payment" /\ order' = [order EXCEPT ![o] = to]
    <3>1. CASE CancelWrite(p)
      BY <2>1, <3>1 DEF CancelWrite
    <3>2. CASE StatusWrite(p)
      BY <2>1, <3>2 DEF StatusWrite, Stages
    <3> QED
      BY <1>4, <3>1, <3>2
  <2>3. \A x \in Orders : Waiting(x)' => order[x] = "pending_payment"
    BY <2>2 DEF Waiting, OrderTypes
  <2> QED
    BY <1>4, <2>3 DEF CancelWrite, StatusWrite, Complete, Waiting, faultVars
<1>5. Request => UNCHANGED <<orderVars, unsure>>
  BY DEF Request, CreateOrder, PaymentEvent, CancelRead, UpdateOrderStatus, faultVars
<1>6. \A p \in Consumers, o \in Orders : ReceivePayment(p, o) => UNCHANGED <<orderVars, unsure>>
  BY DEF ReceivePayment, faultVars
<1>7. \A p \in Processes : Crash(p) \/ CallFails(p) => UNCHANGED <<orderVars, unsure>>
  BY DEF Crash, CallFails
<1>8. \A o \in Orders, l \in Locks : LockReplyLost(o, l) => UNCHANGED <<orderVars, unsure>>
  BY DEF LockReplyLost
<1>9. \A o \in Orders : InsertFails(o) => UNCHANGED <<orderVars, unsure>>
  BY DEF InsertFails
<1>10. ASSUME NEW p \in Processes, Work(p) PROVE Complete'
  <2>1. CASE InsertOrder(p)
    BY <1>2, <2>1, LockingTask DEF InsertOrder, AllLocked
  <2>2. CASE \/ LockRefused(p) \/ SettleNext(p) \/ SettleRefused(p) \/ SettleDone(p)
             \/ InventoryStep(p) \/ \E l \in Locks : LockItem(p, l)
    BY <1>1, <2>2 DEF LockRefused, SettleNext, SettleRefused, SettleDone, InventoryStep,
                      LockItem, faultVars
  <2> QED
    BY <1>4, <1>10, <2>1, <2>2 DEF Work
<1> QED
  BY <1>1, <1>3, <1>5, <1>6, <1>7, <1>8, <1>9, <1>10 DEF Next, Failure

LEMMA RequestLocks ==
    ASSUME OrderTypes, Stages, LockInv, Request
    PROVE  Stages' /\ LockInv'
<1>1. ASSUME NEW p \in Cancels, NEW o \in Orders, CancelRead(p, o) PROVE Stages' /\ LockInv'
  <2>1. PICK t : t = [at |-> "cancel", order |-> o]
    OBVIOUS
  <2>2. p \in Processes /\ p \notin Orders /\ t.at = "cancel" /\ t.order = o
    BY <2>1, CheckoutConstants DEF Processes
  <2>3. order[o] # "none" /\ Becomes(p, t) /\ UNCHANGED <<inventoryVars, orderVars, faultVars>>
    BY <1>1, <2>1 DEF CancelRead
  <2> QED
    BY <2>2, <2>3, ReadLocks
<1>2. ASSUME NEW p \in Clerks, NEW o \in Orders, NEW st \in Statuses, UpdateOrderStatus(p, o, st)
      PROVE  Stages' /\ LockInv'
  <2>1. PICK t : t = [at |-> "update", order |-> o, to |-> st]
    OBVIOUS
  <2>2. p \in Processes /\ p \notin Orders /\ t.at = "update" /\ t.order = o /\ t.to = st
    BY <2>1, CheckoutConstants DEF Processes
  <2>3. order[o] # "none" /\ st # "pending_payment"
    BY <1>2, TransitionsGoOn DEF UpdateOrderStatus, StatusRead
  <2>4. Becomes(p, t) /\ UNCHANGED <<inventoryVars, orderVars, faultVars>>
    BY <1>2, <2>1 DEF UpdateOrderStatus, StatusRead
  <2> QED
    BY <2>2, <2>3, <2>4, ReadLocks
<1>3. ASSUME NEW o \in Orders, PaymentEvent(o) PROVE Stages' /\ LockInv'
  <2>1. UNCHANGED <<lock, call, order, held, task, unsure>>
    BY <1>3 DEF PaymentEvent, inventoryVars, orderVars, faultVars
  <2>2. \A x \in Orders : Own(x)' = Own(x) /\ (Live(x)' => Live(x))
    BY <2>1 DEF Own, Live, Waiting
  <2>3. \A l \in Locks : Doomed(l)' => Doomed(l)
    BY <2>1 DEF Doomed, Stock!Settling
  <2>4. LockInv'
    BY <2>1, <2>2, <2>3, HandOver
  <2>5. Stages'
    BY <2>1 DEF Stages
  <2> QED
    BY <2>4, <2>5
<1> QED
  BY <1>1, <1>2, <1>3, BeginLocks, CheckoutConstants DEF Request

LEMMA SettleLocks ==
    ASSUME Stock!TypeOK, OrderTypes, Stages, LockInv, NEW p \in Processes,
           SettleNext(p) \/ SettleRefused(p) \/ (ToSettle(p) /\ CallFails(p))
    PROVE  Stages' /\ LockInv'
<1>1. CASE SettleNext(p)
  <2>1. call' = [call EXCEPT ![p] = [op |-> task[p].op, lock |-> Head(task[p].todo)]]
    BY <1>1 DEF SettleNext, Inv!BeginSettle
  <2>2. call'[p].lock = Head(task[p].todo) /\ \A q \in Processes \ {p} : call'[q] = call[q]
    BY <2>1 DEF Stock!TypeOK
  <2>3. UNCHANGED <<order, held, unsure, lock>>
    BY <1>1 DEF SettleNext, Inv!BeginSettle, orderVars, faultVars
  <2> QED
    BY <1>1, <2>2, <2>3, TodoLocks DEF SettleNext
<1>2. CASE SettleRefused(p)
  BY <1>2, TodoLocks DEF SettleRefused, inventoryVars, orderVars, faultVars
<1>3. CASE ToSettle(p) /\ CallFails(p)
  <2>1. UNCHANGED <<order, held, unsure>> /\ ~MoreToLock(p)
    BY <1>3 DEF CallFails, orderVars, ToSettle, MoreToLock
  <2>2. CASE task' = [task EXCEPT ![p].todo = Tail(@)] /\ UNCHANGED inventoryVars
    BY <1>3, <2>1, <2>2, TodoLocks DEF inventoryVars
  <2>3. CASE Inv!Abort(p) /\ UNCHANGED task
    BY <2>1, <2>3, InventoryLocks
  <2> QED
    BY <1>3, <2>1, <2>2, <2>3 DEF CallFails
<1> QED
  BY <1>1, <1>2, <1>3

LEMMA WorkLocks ==
    ASSUME Stock!TypeOK, OrderTypes, Stages, LockInv, NEW p \in Processes, Work(p)
    PROVE  Stages' /\ LockInv'
<1>1. ASSUME NEW l \in Locks, LockItem(p, l) PROVE Stages' /\ LockInv'
  BY <1>1, LockingTask, LockItemLocks DEF LockItem, MoreToLock
<1>2. CASE LockRefused(p)
  BY <1>2, LockingTask, GiveBackLocks DEF LockRefused, MoreToLock, inventoryVars, orderVars, faultVars
<1>3. CASE InsertOrder(p)
  BY <1>3, LockingTask, InsertLocks DEF InsertOrder, AllLocked
<1>4. CASE CancelWrite(p) \/ StatusWrite(p)
  BY <1>4, WriteLocks
<1>5. CASE SettleNext(p) \/ SettleRefused(p)
  BY <1>5, SettleLocks
<1>6. CASE SettleDone(p)
  <2>1. Working(p)
    BY <1>6 DEF SettleDone, Working, Idle, Done
  <2> QED
    BY <1>6, <2>1, RestLocks DEF SettleDone, inventoryVars, orderVars, faultVars
<1>7. CASE InventoryStep(p)
  BY <1>7, InventoryLocks DEF InventoryStep, orderVars, faultVars
<1> QED
  BY <1>1, <1>2, <1>3, <1>4, <1>5, <1>6, <1>7 DEF Work

LEMMA FailureLocks ==
    ASSUME Stock!TypeOK, OrderTypes, Stages, LockInv, Failure
    PROVE  Stages' /\ LockInv'
<1>1. ASSUME NEW p \in Processes, Crash(p) PROVE Stages' /\ LockInv'
  BY <1>1, RestLocks DEF Crash, Working, inventoryVars, orderVars
<1>2. ASSUME NEW p \in Processes, CallFails(p) PROVE Stages' /\ LockInv'
  <2>1. UNCHANGED <<order, held, unsure>>
    BY <1>2 DEF CallFails, orderVars
  <2>2. CASE MoreToLock(p) /\ Becomes(p, SettleTask(p, "release", task[p].locks)) /\ UNCHANGED inventoryVars
    BY <2>1, <2>2, LockingTask, GiveBackLocks DEF MoreToLock, inventoryVars
  <2>3. CASE ToSettle(p)
    BY <1>2, <2>3, SettleLocks
  <2>4. CASE Inv!Abort(p) /\ UNCHANGED task
    BY <2>1, <2>4, InventoryLocks
  <2> QED
    BY <1>2, <2>2, <2>3, <2>4 DEF CallFails
<1>3. ASSUME NEW o \in Orders, NEW l \in Locks, LockReplyLost(o, l) PROVE Stages' /\ LockInv'
  <2>1. o \in Processes /\ task[o].at = "lock"
    BY <1>3 DEF Processes, LockReplyLost, MoreToLock
  <2>2. PICK b, q : Inv!LockStock(o, b, l, q)
    BY <1>3 DEF LockReplyLost
  <2>3. /\ lock[l].status = "free" /\ lock'[l].status # "free"
        /\ \A k \in Locks \ {l} : lock'[k] = lock[k]
        /\ \A r \in Processes : call'[r] \in Stock!Settling => call'[r] = call[r]
    BY <2>1, <2>2, Draws
  <2>4. \A k \in Locks : lock'[k] = lock[k] \/ (lock[k].status = "free" /\ lock'[k].status # "free")
    BY <2>3
  <2> QED
    BY <1>3, <2>1, <2>3, <2>4, GiveBackLocks DEF LockReplyLost, orderVars
<1>4. ASSUME NEW o \in Orders, InsertFails(o) PROVE Stages' /\ LockInv'
  BY <1>4, GiveBackLocks DEF InsertFails, AllLocked, inventoryVars, orderVars
<1> QED
  BY <1>1, <1>2, <1>3, <1>4, InsertLocks DEF Failure

LEMMA ReceiveLocks ==
    ASSUME OrderTypes, Stages, LockInv, NEW p \in Consumers, NEW o \in Orders, ReceivePayment(p, o)
    PROVE  Stages' /\ LockInv'
<1>1. PICK t : t = [at |-> "update", order |-> o, to |-> "paid"]
  OBVIOUS
<1>2. p \in Processes /\ p \notin Orders /\ t.at = "update" /\ t.order = o /\ t.to = "paid"
  BY <1>1, CheckoutConstants DEF Processes
<1>3. order[o] # "none"
  BY TransitionsGoOn DEF ReceivePayment, StatusRead
<1>4. Becomes(p, t) /\ UNCHANGED <<inventoryVars, orderVars, faultVars>>
  BY <1>1 DEF ReceivePayment, StatusRead
<1> QED
  BY <1>2, <1>3, <1>4, ReadLocks

LEMMA InitHold == Init => Stages /\ LockInv /\ Complete
<1> SUFFICES ASSUME Init PROVE Stages /\ LockInv /\ Complete
  OBVIOUS
<1>1. \A p \in Processes : task[p].at = "idle" /\ call[p] \notin Stock!Settling
  BY DEF Init, Idle, Inv!Init, Inv!Idle, Stock!Settling
<1>2. \A o \in Orders : order[o] = "none" /\ held[o] = <<>> /\ Own(o) = <<>> /\ ~Live(o)
  BY <1>1 DEF Init, Own, Live, Waiting, Processes
<1>3. \A l \in Locks : ~Doomed(l)
  BY <1>1 DEF Doomed
<1>4. \A o \in Orders, l \in Locks : ~Owns(o, l)
  BY <1>2, EmptySeq DEF Owns
<1>5. Stages
  BY <1>1, <1>2 DEF Stages
<1>6. LockInv
  BY <1>2, <1>3, <1>4 DEF LockInv, Drawn, Apart, Kept
<1> QED
  BY <1>2, <1>5, <1>6 DEF Complete, Waiting

LEMMA HoldInvariant == Spec => [](TypeInv /\ Stages /\ LockInv /\ Complete)
<1> DEFINE Hold == Stages /\ LockInv /\ Complete
<1>1. TypeInv /\ Hold /\ [Next]_vars => Hold'
  <2> SUFFICES ASSUME TypeInv, Hold, [Next]_vars PROVE Hold'
    OBVIOUS
  <2>1. OrderTypes /\ Stock!TypeOK
    BY DEF TypeInv, Stock!TypeInv
  <2>2. CASE Next
    <3>1. Stages' /\ LockInv'
      BY <2>1, <2>2, RequestLocks, FailureLocks, WorkLocks, ReceiveLocks DEF Next
    <3> QED
      BY <2>1, <2>2, <3>1, NextComplete
  <2>3. CASE UNCHANGED vars
    <3>1. UNCHANGED <<lock, call, order, held, task, unsure>>
      BY <2>3 DEF vars, inventoryVars, orderVars, faultVars
    <3>2. \A x \in Orders : Own(x)' = Own(x) /\ (Live(x)' => Live(x)) /\ (Waiting(x)' => Waiting(x))
      BY <3>1 DEF Own, Live, Waiting
    <3>3. \A l \in Locks : Doomed(l)' => Doomed(l)
      BY <3>1 DEF Doomed, Stock!Settling
    <3>4. LockInv'
      BY <2>1, <3>1, <3>2, <3>3, HandOver
    <3>5. Stages' /\ Complete'
      BY <3>1, <3>2 DEF Stages, Complete
    <3> QED
      BY <3>4, <3>5
  <2> QED
    BY <2>2, <2>3
<1> QED
  BY TypeInvariant, InitHold, <1>1, PTL DEF Spec

(* An order that waits for its payment holds a live reservation of exactly   *)
(* its items, whatever else races, crashes or is refused: nobody else can    *)
(* release, deduct or own its locks (CreateOrder, CancelOrder, the payment  *)
(* consumer, UpdateOrderStatus).                                            *)
THEOREM PendingOrdersHoldLocks == Spec => []PendingHoldsLocks
<1>1. TypeInv /\ Stages /\ LockInv /\ Complete => PendingHoldsLocks
  <2> SUFFICES ASSUME TypeInv, Stages, LockInv, Complete, NEW o \in Orders, Waiting(o)
               PROVE  /\ Len(held[o]) = Len(Items[o])
                      /\ \A i \in DOMAIN Items[o] : Reserves(held[o][i], Items[o][i])
    BY DEF PendingHoldsLocks, Waiting, Reserves
  <2>1. Len(held[o]) = Len(Items[o])
    BY DEF Complete
  <2>2. Own(o) = held[o] /\ Live(o)
    BY DEF Own, Live, Stages, Waiting
  <2>3. \A i \in DOMAIN held[o] : Reserves(held[o][i], Items[o][i])
    BY <2>2 DEF LockInv, Kept
  <2>4. DOMAIN held[o] = DOMAIN Items[o]
    <3>1. PICK s \in Seq(Locks) : s = held[o]
      BY DEF TypeInv, OrderTypes
    <3>2. PICK r \in Seq([book: Books, quantity: Nat \ {0}]) : r = Items[o]
      BY CheckoutConstants
    <3>3. DOMAIN s = 1 .. Len(s) /\ DOMAIN r = 1 .. Len(r)
      BY LenProperties
    <3> QED
      BY <2>1, <3>1, <3>2, <3>3
  <2> QED
    BY <2>1, <2>3, <2>4
<1> QED
  BY HoldInvariant, <1>1, PTL

-----------------------------------------------------------------------------
(* Without faults every reservation is somebody's.                          *)

Placed(l) == Doomed(l) \/ \E o \in Orders : Owns(o, l)
AllPlaced == faults = 0 => \A l \in Locks : lock[l].status = "locked" => Placed(l)

\* A step after which whoever had a lock that is still open has it, or has given
\* it to somebody.
LEMMA StillPlaced ==
    ASSUME AllPlaced, UNCHANGED faults,
           \A l \in Locks : lock'[l].status = "locked" => lock[l].status = "locked" \/ Placed(l)',
           \A o \in Orders, l \in Locks : Owns(o, l) => Placed(l)',
           \A l \in Locks : lock'[l].status = "locked" /\ Doomed(l) => Placed(l)'
    PROVE  AllPlaced'
BY DEF AllPlaced, Placed

\* One process moves on, having had nothing to settle.
LEMMA DoomedStays ==
    ASSUME NEW p \in Processes,
           \A q \in Processes \ {p} : task'[q] = task[q],
           task[p].at # "settle" \/ task[p].todo = <<>>,
           \A q \in Processes : call[q] \in Stock!Settling => call'[q] = call[q],
           NEW l \in Locks, Doomed(l)
    PROVE  Doomed(l)'
<1>1. task[p].at = "settle" => \A i \in DOMAIN task[p].todo : FALSE
  BY EmptySeq
<1>2. PICK q \in Processes :
          \/ task[q].at = "settle" /\ \E i \in DOMAIN task[q].todo : task[q].todo[i] = l
          \/ call[q] \in Stock!Settling /\ call[q].lock = l
  BY DEF Doomed, Stock!Settling
<1> QED
  BY <1>1, <1>2 DEF Doomed, Stock!Settling

LEMMA LockItemPlaced ==
    ASSUME Stock!TypeOK, OrderTypes, Stages, AllPlaced, NEW o \in Orders, NEW l \in Locks, LockItem(o, l)
    PROVE  AllPlaced'
<1>1. o \in Processes /\ task[o].at = "lock"
  BY DEF Processes, LockItem, MoreToLock
<1>2. PICK s \in Seq(Locks) : s = task[o].locks
  BY <1>1, LockingTask
<1>3. PICK t : t = [task[o] EXCEPT !.locks = Append(s, l)]
  OBVIOUS
<1>4. task' = [task EXCEPT ![o] = t]
  BY <1>2, <1>3 DEF LockItem
<1>5. t.at = "lock" /\ t.locks = Append(s, l)
  BY <1>1, <1>3, LockingTask DEF Locking
<1>6. task'[o] = t /\ \A q \in Processes \ {o} : task'[q] = task[q]
  BY <1>1, <1>4, Others
<1>7. \A x \in Orders \ {o} : Own(x)' = Own(x)
  BY <1>6 DEF Own, Processes, LockItem, orderVars
<1>8. Own(o) = s /\ Own(o)' = Append(s, l)
  BY <1>1, <1>2, <1>5, <1>6 DEF Own
<1>9. /\ \A i \in DOMAIN s : i \in DOMAIN Append(s, l) /\ Append(s, l)[i] = s[i]
      /\ \E i \in DOMAIN Append(s, l) : Append(s, l)[i] = l
  <2>1. PICK n \in Nat : n = Len(s)
    BY LenProperties
  <2>2. /\ DOMAIN s = 1 .. n /\ DOMAIN Append(s, l) = 1 .. n + 1
        /\ \A i \in 1 .. n : Append(s, l)[i] = s[i]
        /\ Append(s, l)[n + 1] = l
    BY <2>1, LenProperties, AppendProperties
  <2> QED
    BY <2>2
<1>10. \A x \in Orders, k \in Locks : Owns(x, k) => Owns(x, k)'
  BY <1>7, <1>8, <1>9 DEF Owns
<1>11. Owns(o, l)'
  BY <1>8, <1>9 DEF Owns
<1>12. PICK b, q : Inv!LockStock(o, b, l, q)
  BY DEF LockItem
<1>13. \A k \in Locks \ {l} : lock'[k] = lock[k]
  BY <1>1, <1>12, Draws
<1>14. \A r \in Processes : call[r] \in Stock!Settling => call'[r] = call[r]
  <2>1. call[o] = Inv!Idle /\ call' = [call EXCEPT ![o] = [op |-> "invalidate", book |-> b]]
    BY <1>12 DEF Inv!LockStock
  <2> QED
    BY <2>1 DEF Stock!TypeOK, Stock!Settling, Inv!Idle
<1>15. \A k \in Locks : Doomed(k) => Doomed(k)'
  BY <1>1, <1>6, <1>14, DoomedStays
<1> QED
  BY <1>10, <1>11, <1>13, <1>15, StillPlaced DEF Placed, LockItem, faultVars

\* Nobody's locks change hands.
LEMMA HandsStay ==
    ASSUME OrderTypes, AllPlaced, NEW p \in Processes, NEW t, task' = [task EXCEPT ![p] = t],
           task[p].at # "settle" \/ task[p].todo = <<>>,
           \A o \in Orders, l \in Locks : Owns(o, l) => Placed(l)',
           UNCHANGED <<lock, call, faults>>
    PROVE  AllPlaced'
<1>1. \A q \in Processes \ {p} : task'[q] = task[q]
  BY Others
<1>2. \A l \in Locks : Doomed(l) => Doomed(l)'
  BY <1>1, DoomedStays
<1> QED
  BY <1>2, StillPlaced DEF Placed

LEMMA SettleNextPlaced ==
    ASSUME Stock!TypeOK, OrderTypes, AllPlaced, NEW p \in Processes, SettleNext(p) \/ SettleRefused(p)
    PROVE  AllPlaced'
<1>1. task[p].at = "settle" /\ task[p] \in Settling /\ call[p] = Inv!Idle
  BY SettlingTask DEF SettleNext, SettleRefused, ToSettle, Replied
<1>2. PICK s \in Seq(Locks) : s = task[p].todo /\ s # <<>>
  BY <1>1, SettlingTask DEF SettleNext, SettleRefused, ToSettle
<1>3. PICK t : t = [task[p] EXCEPT !.todo = Tail(s)]
  OBVIOUS
<1>4. t.at = "settle" /\ t.todo = Tail(s)
  BY <1>1, <1>3 DEF Settling
<1>5. task' = [task EXCEPT ![p] = t]
  BY <1>2, <1>3 DEF SettleNext, SettleRefused
<1>6. task'[p] = t /\ \A q \in Processes \ {p} : task'[q] = task[q]
  BY <1>5, Others
<1>7. \A i \in DOMAIN s : s[i] = Head(s) \/ \E j \in DOMAIN Tail(s) : Tail(s)[j] = s[i]
  <2>1. /\ Len(s) \in Nat /\ DOMAIN s = 1 .. Len(s) /\ Len(s) > 0
        /\ Head(s) = s[1]
        /\ Tail(s) \in Seq(Locks) /\ Len(Tail(s)) = Len(s) - 1
        /\ \A i \in 1 .. Len(Tail(s)) : Tail(s)[i] = s[i + 1]
    BY <1>2, LenProperties, HeadTailProperties, EmptySeq
  <2>2. DOMAIN Tail(s) = 1 .. Len(Tail(s))
    BY <2>1, LenProperties
  <2>3. ASSUME NEW i \in DOMAIN s, i # 1
        PROVE  i - 1 \in DOMAIN Tail(s) /\ Tail(s)[i - 1] = s[i]
    BY <2>1, <2>2, <2>3
  <2> QED
    BY <2>1, <2>3
<1>8. UNCHANGED <<lock, held, faults>>
  BY DEF SettleNext, SettleRefused, Inv!BeginSettle, inventoryVars, orderVars, faultVars
<1>9. /\ \A q \in Processes : call[q] \in Stock!Settling => call'[q] = call[q]
      /\ lock[Head(s)].status = "locked" => call'[p] \in Stock!Settling /\ call'[p].lock = Head(s)
  <2>1. CASE SettleNext(p)
    <3>1. call' = [call EXCEPT ![p] = [op |-> task[p].op, lock |-> Head(s)]]
      BY <1>2, <2>1 DEF SettleNext, Inv!BeginSettle
    <3>2. task[p].op \in {"release", "deduct"} /\ Head(s) \in Locks
      BY <1>1, <1>2, HeadTailProperties DEF Settling
    <3> QED
      BY <1>1, <3>1, <3>2 DEF Stock!TypeOK, Stock!Settling, Inv!Idle
  <2>2. CASE SettleRefused(p)
    BY <1>2, <2>2 DEF SettleRefused, inventoryVars
  <2> QED
    BY <2>1, <2>2
<1>10. \A o \in Orders : Own(o)' = Own(o)
  BY <1>1, <1>4, <1>6, <1>8 DEF Own, Processes
<1>11. ASSUME NEW l \in Locks, Doomed(l), lock[l].status = "locked" PROVE Doomed(l)'
  <2>1. PICK q \in Processes :
            \/ task[q].at = "settle" /\ \E i \in DOMAIN task[q].todo : task[q].todo[i] = l
            \/ call[q] \in Stock!Settling /\ call[q].lock = l
    BY <1>11 DEF Doomed, Stock!Settling
  <2>2. CASE call[q] \in Stock!Settling /\ call[q].lock = l
    BY <1>9, <2>2 DEF Doomed
  <2>3. CASE q # p /\ task[q].at = "settle" /\ \E i \in DOMAIN task[q].todo : task[q].todo[i] = l
    BY <1>6, <2>3 DEF Doomed
  <2>4. CASE q = p /\ \E i \in DOMAIN s : s[i] = l
    <3>1. CASE l = Head(s)
      BY <1>9, <1>11, <3>1 DEF Doomed
    <3>2. CASE \E j \in DOMAIN Tail(s) : Tail(s)[j] = l
      BY <1>4, <1>6, <3>2 DEF Doomed
    <3> QED
      BY <1>7, <2>4, <3>1, <3>2
  <2> QED
    BY <1>2, <2>1, <2>2, <2>3, <2>4
<1> QED
  BY <1>8, <1>10, <1>11, StillPlaced DEF Placed, Owns

LEMMA InventoryPlaced ==
    ASSUME Stock!TypeOK, AllPlaced, NEW p \in Processes, InventoryStep(p)
    PROVE  AllPlaced'
<1>1. UNCHANGED <<task, held, faults>> /\ Inv!Progress(p)
  BY DEF InventoryStep, orderVars, faultVars
<1>2. \A o \in Orders : Own(o)' = Own(o)
  BY <1>1 DEF Own
<1>3. ASSUME NEW l \in Locks, Doomed(l), lock'[l].status = "locked" PROVE Doomed(l)'
  <2>1. PICK q \in Processes :
            \/ task[q].at = "settle" /\ \E i \in DOMAIN task[q].todo : task[q].todo[i] = l
            \/ call[q] \in Stock!Settling /\ call[q].lock = l
    BY <1>3 DEF Doomed, Stock!Settling
  <2>2. CASE task[q].at = "settle" /\ \E i \in DOMAIN task[q].todo : task[q].todo[i] = l
    BY <1>1, <2>2 DEF Doomed
  <2>3. CASE call[q] \in Stock!Settling /\ call[q].lock = l
    <3>1. CASE Inv!CommitRelease(p) \/ Inv!CommitDeduct(p)
      <4>1. \A r \in Processes \ {p} : call'[r] = call[r]
        BY <3>1 DEF Inv!CommitRelease, Inv!CommitDeduct, Stock!TypeOK
      <4>2. q # p
        <5> SUFFICES ASSUME q = p PROVE FALSE
          OBVIOUS
        <5>1. PICK st \in {"released", "deducted"} : lock' = [lock EXCEPT ![l].status = st]
          BY <2>3, <3>1 DEF Inv!CommitRelease, Inv!CommitDeduct
        <5>2. lock[l] \in Stock!LockRecord
          BY DEF Stock!TypeOK
        <5>3. [lock[l] EXCEPT !.status = st].status = st
          BY <5>2 DEF Stock!LockRecord
        <5>4. lock'[l].status = st
          BY <5>1, <5>3 DEF Stock!TypeOK
        <5> QED
          BY <1>3, <5>4
      <4> QED
        BY <2>3, <4>1, <4>2 DEF Doomed
    <3>2. CASE Inv!CreateRow(p) \/ Inv!InvalidateCache(p) \/ Inv!CacheStock(p)
      <4>1. call[p].op \in {"create", "invalidate", "fill"} /\ \A r \in Processes \ {p} : call'[r] = call[r]
        BY <3>2 DEF Inv!CreateRow, Inv!InvalidateCache, Inv!CacheStock, Stock!TypeOK
      <4> QED
        BY <2>3, <4>1 DEF Stock!Settling, Doomed
    <3> QED
      BY <1>1, <3>1, <3>2 DEF Inv!Progress
  <2> QED
    BY <2>1, <2>2, <2>3
<1>4. \A l \in Locks : lock'[l].status = "locked" => lock[l].status = "locked"
  BY <1>1, Settles
<1> QED
  BY <1>1, <1>2, <1>3, <1>4, StillPlaced DEF Placed, Owns

LEMMA WorkPlaced ==
    ASSUME Stock!TypeOK, OrderTypes, Stages, AllPlaced, NEW p \in Processes, Work(p)
    PROVE  AllPlaced'
<1>1. ASSUME NEW l \in Locks, LockItem(p, l) PROVE AllPlaced'
  BY <1>1, LockingTask, LockItemPlaced DEF LockItem, MoreToLock
<1>2. CASE LockRefused(p)
  <2>1. p \in Orders /\ task[p].at = "lock" /\ UNCHANGED <<lock, call, faults, held>>
    BY <1>2, LockingTask DEF LockRefused, MoreToLock, inventoryVars, orderVars, faultVars
  <2>2. PICK t : t = SettleTask(p, "release", task[p].locks)
    OBVIOUS
  <2>3. t.at = "settle" /\ t.todo = Own(p) /\ task' = [task EXCEPT ![p] = t]
    BY <1>2, <2>1, <2>2 DEF SettleTask, Own, LockRefused, Becomes
  <2>4. task'[p] = t /\ \A q \in Processes \ {p} : task'[q] = task[q]
    BY <2>3, Others
  <2>5. \A l \in Locks : Owns(p, l) => Doomed(l)'
    BY <2>3, <2>4 DEF Owns, Doomed
  <2>6. \A x \in Orders \ {p}, l \in Locks : Owns(x, l) => Owns(x, l)'
    BY <2>1, <2>4 DEF Owns, Own, Processes
  <2> QED
    BY <2>1, <2>3, <2>5, <2>6, HandsStay DEF Placed
<1>3. CASE InsertOrder(p)
  <2>1. p \in Orders /\ task[p].at = "lock" /\ UNCHANGED <<lock, call, faults>>
    BY <1>3, LockingTask DEF InsertOrder, AllLocked, inventoryVars, faultVars
  <2>2. task' = [task EXCEPT ![p] = Done] /\ held' = [held EXCEPT ![p] = task[p].locks]
    BY <1>3 DEF InsertOrder, Becomes
  <2>3. task'[p].at = "done" /\ \A q \in Processes \ {p} : task'[q] = task[q]
    <3>1. Done.at = "done"
      BY DEF Done
    <3> QED
      BY <2>2, <3>1, Others
  <2>4. held'[p] = task[p].locks /\ \A x \in Orders \ {p} : held'[x] = held[x]
    BY <2>1, <2>2 DEF OrderTypes
  <2>5. \A x \in Orders : Own(x)' = Own(x)
    BY <2>1, <2>3, <2>4 DEF Own, Processes
  <2> QED
    BY <2>1, <2>2, <2>5, HandsStay DEF Placed, Owns
<1>4. CASE CancelWrite(p) \/ StatusWrite(p)
  <2>1. p \notin Orders /\ task[p].at \in {"cancel", "update"} /\ UNCHANGED <<lock, call, faults, held>>
    BY <1>4 DEF CancelWrite, StatusWrite, Stages, inventoryVars, faultVars
  <2>2. PICK t : task' = [task EXCEPT ![p] = t]
    BY <1>4 DEF CancelWrite, StatusWrite, Becomes
  <2>3. \A q \in Processes \ {p} : task'[q] = task[q]
    BY <2>2, Others
  <2>4. \A x \in Orders : Own(x)' = Own(x)
    BY <2>1, <2>3 DEF Own, Processes
  <2> QED
    BY <2>1, <2>2, <2>4, HandsStay DEF Placed, Owns
<1>5. CASE SettleNext(p) \/ SettleRefused(p)
  BY <1>5, SettleNextPlaced
<1>6. CASE SettleDone(p)
  <2>1. task[p].todo = <<>> /\ task[p].at = "settle" /\ UNCHANGED <<lock, call, faults, held>>
    BY <1>6 DEF SettleDone, inventoryVars, orderVars, faultVars
  <2>2. PICK t : t = Rest(p) /\ t.at # "lock"
    BY Rests
  <2>3. task' = [task EXCEPT ![p] = t]
    BY <1>6, <2>2 DEF SettleDone, Becomes
  <2>4. task'[p] = t /\ \A q \in Processes \ {p} : task'[q] = task[q]
    BY <2>3, Others
  <2>5. \A x \in Orders : Own(x)' = Own(x)
    BY <2>1, <2>2, <2>4 DEF Own, Processes
  <2> QED
    BY <2>1, <2>3, <2>5, HandsStay DEF Placed, Owns
<1>7. CASE InventoryStep(p)
  BY <1>7, InventoryPlaced
<1> QED
  BY <1>1, <1>2, <1>3, <1>4, <1>5, <1>6, <1>7 DEF Work

\* A process that rests takes up work.
LEMMA BeginPlaced ==
    ASSUME OrderTypes, Stages, AllPlaced, NEW p \in Processes, NEW t, task[p] = Idle, Becomes(p, t),
           \/ t.at # "lock"
           \/ t.locks = <<>>,
           UNCHANGED <<inventoryVars, held, faults>>
    PROVE  AllPlaced'
<1>1. task'[p] = t /\ \A q \in Processes \ {p} : task'[q] = task[q]
  BY Others DEF Becomes
<1>2. task[p].at = "idle"
  BY DEF Idle
<1>3. p \in Orders => order[p] = "none" /\ held[p] = <<>>
  BY <1>2 DEF Stages, OrderTypes
<1>4. \A o \in Orders : Own(o)' = Own(o)
  BY <1>1, <1>2, <1>3 DEF Own, Processes
<1> QED
  BY <1>2, <1>4, HandsStay DEF Placed, Owns, Becomes, inventoryVars

LEMMA NextPlaced == TypeInv /\ Stages /\ AllPlaced /\ Next => AllPlaced'
<1> SUFFICES ASSUME TypeInv, Stages, AllPlaced, Next PROVE AllPlaced'
  OBVIOUS
<1>1. OrderTypes /\ Stock!TypeOK
  BY DEF TypeInv, Stock!TypeInv
<1>2. CASE Fault
  <2>1. faults' # 0
    BY <1>2 DEF Fault, TypeInv, FaultTypes
  <2> QED
    BY <2>1 DEF AllPlaced
<1>3. Failure => Fault
  BY DEF Failure, Crash, CallFails, InsertFails, InsertReplyLost, LockReplyLost
<1>4. ASSUME NEW o \in Orders, CreateOrder(o) PROVE AllPlaced'
  <2>1. PICK t : t = [at |-> "lock", order |-> o, locks |-> <<>>]
    OBVIOUS
  <2>2. o \in Processes /\ t.locks = <<>>
    BY <2>1 DEF Processes
  <2> QED
    BY <1>1, <1>4, <2>1, <2>2, BeginPlaced DEF CreateOrder, orderVars, faultVars
<1>5. ASSUME NEW p \in Cancels, NEW o \in Orders, CancelRead(p, o) PROVE AllPlaced'
  <2>1. PICK t : t = [at |-> "cancel", order |-> o]
    OBVIOUS
  <2>2. p \in Processes /\ t.at # "lock"
    BY <2>1 DEF Processes
  <2> QED
    BY <1>1, <1>5, <2>1, <2>2, BeginPlaced DEF CancelRead, orderVars, faultVars
<1>6. ASSUME NEW p \in Processes, NEW o \in Orders, NEW st, StatusRead(p, o, st),
             UNCHANGED <<inventoryVars, held, faults>>
      PROVE  AllPlaced'
  <2>1. PICK t : t = [at |-> "update", order |-> o, to |-> st]
    OBVIOUS
  <2>2. t.at # "lock"
    BY <2>1
  <2> QED
    BY <1>1, <1>6, <2>1, <2>2, BeginPlaced DEF StatusRead
<1>7. ASSUME NEW p \in Clerks, NEW o \in Orders, NEW st \in Statuses, UpdateOrderStatus(p, o, st)
      PROVE  AllPlaced'
  BY <1>6, <1>7 DEF UpdateOrderStatus, Processes, orderVars, faultVars
<1>8. ASSUME NEW p \in Consumers, NEW o \in Orders, ReceivePayment(p, o) PROVE AllPlaced'
  BY <1>6, <1>8 DEF ReceivePayment, Processes, orderVars, faultVars
<1>9. ASSUME NEW o \in Orders, PaymentEvent(o) PROVE AllPlaced'
  <2>1. UNCHANGED <<lock, call, task, held, faults>>
    BY <1>9 DEF PaymentEvent, inventoryVars, orderVars, faultVars
  <2>2. \A l \in Locks : Placed(l) => Placed(l)'
    BY <2>1 DEF Placed, Doomed, Owns, Own, Stock!Settling
  <2> QED
    BY <2>1, <2>2 DEF AllPlaced
<1>10. Request => AllPlaced'
  BY <1>4, <1>5, <1>7, <1>9, CheckoutConstants DEF Request
<1> QED
  BY <1>1, <1>2, <1>3, <1>8, <1>10, WorkPlaced DEF Next

(* Without faults no reservation loses its owner, however checkouts,         *)
(* cancellations and payments interleave: its id is with a process that     *)
(* will settle it, in the task that locked it, or recorded with an order.   *)
THEOREM NoReservationOrphaned == Spec => []NoOrphanReservation
<1>1. Init => AllPlaced
  BY DEF Init, Inv!Init, AllPlaced
<1>2. TypeInv /\ Stages /\ AllPlaced /\ [Next]_vars => AllPlaced'
  <2>1. UNCHANGED vars => UNCHANGED <<lock, call, task, held, faults>>
    BY DEF vars, inventoryVars, orderVars, faultVars
  <2>2. UNCHANGED vars => \A l \in Locks : Placed(l)' = Placed(l)
    BY <2>1 DEF Placed, Doomed, Owns, Own, Stock!Settling
  <2>3. UNCHANGED vars /\ AllPlaced => AllPlaced'
    BY <2>1, <2>2 DEF AllPlaced
  <2> QED
    BY <2>3, NextPlaced
<1>3. TypeInv /\ AllPlaced => NoOrphanReservation
  <2> SUFFICES ASSUME TypeInv, AllPlaced, faults = 0, NEW l \in Locks, lock[l].status = "locked"
               PROVE  InHand(l) \/ \E o \in Orders : l \in HeldLocks(o)
    BY DEF NoOrphanReservation
  <2>1. CASE Doomed(l)
    BY <2>1, SameNotions DEF Doomed, InHand
  <2>2. ASSUME NEW o \in Orders, Owns(o, l) PROVE InHand(l) \/ l \in HeldLocks(o)
    BY <2>2 DEF Owns, Own, InHand, HeldLocks, Processes
  <2> QED
    BY <2>1, <2>2 DEF AllPlaced, Placed
<1> QED
  BY HoldInvariant, <1>1, <1>2, <1>3, PTL DEF Spec

-----------------------------------------------------------------------------
(* While no two processes have one order in hand to settle, the calls to    *)
(* the inventory are such that its ledger is exact.                         *)

\* The theorems of the inventory service for callers that settle a lock one at a
\* time.
Single == INSTANCE InventoryProofs WITH
            Calls <- Processes, Quantities <- Quantities, SetQuantities <- {}, InitialRows <- Books,
            ExclusiveSettle <- TRUE, Faulty <- TRUE

\* The process has read the order and will settle its locks.
OnIt(p, o) ==
    /\ \/ task[p].at = "cancel"
       \/ p \in Consumers /\ task[p].at = "update"
    /\ task[p].order = o

Alone == \A o \in Orders, p, q \in Processes : OnIt(p, o) /\ OnIt(q, o) => p = q

\* The locks of the order may still get somebody to settle them.
Unsettled(o) ==
    \/ task[o].at = "lock"
    \/ order[o] = "pending_payment"
    \/ \E p \in Processes : OnIt(p, o)

Todo(p, l) == task[p].at = "settle" /\ \E i \in DOMAIN task[p].todo : task[p].todo[i] = l
Calling(p, l) == call[p] \in Stock!Settling /\ call[p].lock = l

Distinct(s) == \A i, j \in DOMAIN s : s[i] = s[j] => i = j

Spared == \A o \in Orders, l \in Locks : Unsettled(o) /\ Owns(o, l) => ~Doomed(l)
OwnDistinct == \A o \in Orders : Distinct(Own(o))
TodoDistinct == \A p \in Processes : task[p].at = "settle" => Distinct(task[p].todo)
TodoOnce ==
    \A p, q \in Processes, l \in Locks : Todo(p, l) => ~Calling(q, l) /\ (Todo(q, l) => p = q)

Once == Spared /\ OwnDistinct /\ TodoDistinct /\ TodoOnce

LEMMA DoomedIs ==
    ASSUME NEW l \in Locks
    PROVE  /\ Doomed(l) <=> \E p \in Processes : Todo(p, l) \/ Calling(p, l)
           /\ Doomed(l)' <=> \E p \in Processes : Todo(p, l)' \/ Calling(p, l)'
BY DEF Doomed, Todo, Calling, Stock!Settling

\* A step in which nobody gets anything to settle.
LEMMA OnceStays ==
    ASSUME Once,
           \A p \in Processes, l \in Locks : Todo(p, l)' => Todo(p, l),
           \A p \in Processes, l \in Locks : Calling(p, l)' => Calling(p, l),
           \A p \in Processes : task'[p].at = "settle" => Distinct(task'[p].todo),
           \A o \in Orders : \/ Own(o)' = <<>>
                             \/ Own(o)' = Own(o) /\ (Unsettled(o)' => Unsettled(o))
    PROVE  Once'
<1>1. \A l \in Locks : Doomed(l)' => Doomed(l)
  BY DoomedIs
<1>2. \A o \in Orders, l \in Locks : Owns(o, l)' => Own(o)' # <<>>
  <2> SUFFICES ASSUME NEW o \in Orders, Own(o)' = <<>> PROVE DOMAIN Own(o)' = {}
    BY DEF Owns
  <2> QED
    BY EmptySeq
<1>3. Spared'
  BY <1>1, <1>2 DEF Once, Spared, Owns
<1>4. OwnDistinct'
  <2> SUFFICES ASSUME NEW o \in Orders PROVE Distinct(Own(o))'
    BY DEF OwnDistinct
  <2>1. CASE Own(o)' = <<>>
    BY <2>1, EmptySeq DEF Distinct
  <2>2. CASE Own(o)' = Own(o)
    BY <2>2 DEF Once, OwnDistinct, Distinct
  <2> QED
    BY <2>1, <2>2
<1>5. TodoDistinct'
  BY DEF TodoDistinct, Distinct
<1>6. TodoOnce'
  BY DEF Once, TodoOnce
<1> QED
  BY <1>3, <1>4, <1>5, <1>6 DEF Once

\* A step in which one process gets the locks of one order to settle.
LEMMA OnceHandsOver ==
    ASSUME Once, NEW p \in Processes, NEW o \in Orders, Unsettled(o),
           task[p].at # "settle", task'[p].at = "settle", task'[p].todo = Own(o),
           \A q \in Processes \ {p} : task'[q] = task[q],
           \A q \in Processes, l \in Locks : Calling(q, l)' => Calling(q, l),
           Own(o)' = <<>> \/ (Own(o)' = Own(o) /\ ~Unsettled(o)'),
           \A x \in Orders \ {o} : Own(x)' = Own(x) /\ (Unsettled(x)' => Unsettled(x)),
           Apart
    PROVE  Once'
<1>1. \A l \in Locks : Todo(p, l)' <=> Owns(o, l)
  BY DEF Todo, Owns
<1>2. \A q \in Processes \ {p}, l \in Locks : Todo(q, l)' <=> Todo(q, l)
  BY DEF Todo
<1>3. \A l \in Locks : Doomed(l)' => Doomed(l) \/ Owns(o, l)
  BY <1>1, <1>2, DoomedIs
<1>4. \A l \in Locks : Owns(o, l) => ~Doomed(l)
  BY DEF Once, Spared
<1>5. \A l \in Locks : Owns(o, l)' => Own(o)' # <<>>
  <2> SUFFICES ASSUME Own(o)' = <<>> PROVE DOMAIN Own(o)' = {}
    BY DEF Owns
  <2> QED
    BY EmptySeq
<1>6. Spared'
  <2> SUFFICES ASSUME NEW x \in Orders, NEW l \in Locks, Unsettled(x)', Owns(x, l)'
               PROVE  ~Doomed(l)'
    BY DEF Spared
  <2>1. x # o
    BY <1>5
  <2>2. Unsettled(x) /\ Owns(x, l)
    BY <2>1 DEF Owns
  <2>3. ~Owns(o, l) /\ ~Doomed(l)
    BY <2>1, <2>2 DEF Apart, Once, Spared
  <2> QED
    BY <1>3, <2>3
<1>7. OwnDistinct'
  <2> SUFFICES ASSUME NEW x \in Orders PROVE Distinct(Own(x))'
    BY DEF OwnDistinct
  <2>1. CASE Own(x)' = <<>>
    BY <2>1, EmptySeq DEF Distinct
  <2>2. CASE Own(x)' = Own(x)
    BY <2>2 DEF Once, OwnDistinct, Distinct
  <2> QED
    BY <2>1, <2>2
<1>8. TodoDistinct'
  BY DEF Once, TodoDistinct, OwnDistinct, Distinct
<1>9. TodoOnce'
  <2> SUFFICES ASSUME NEW r \in Processes, NEW q \in Processes, NEW l \in Locks, Todo(r, l)'
               PROVE  ~Calling(q, l)' /\ (Todo(q, l)' => r = q)
    BY DEF TodoOnce
  <2>1. CASE r = p
    <3>1. ~Doomed(l)
      BY <1>1, <1>4, <2>1
    <3> QED
      BY <1>2, <2>1, <3>1, DoomedIs
  <2>2. CASE r # p
    <3>1. Todo(r, l)
      BY <1>2, <2>2
    <3>2. ~Todo(p, l)'
      BY <1>1, <1>4, <3>1, DoomedIs
    <3> QED
      BY <1>2, <2>2, <3>1, <3>2 DEF Once, TodoOnce
  <2> QED
    BY <2>1, <2>2
<1> QED
  BY <1>6, <1>7, <1>8, <1>9 DEF Once

LEMMA UnsettledKept ==
    ASSUME NEW p \in Processes, \A q \in Processes \ {p} : task'[q] = task[q],
           NEW x \in Orders, Unsettled(x)',
           order'[x] = order[x] \/ order'[x] # "pending_payment",
           task'[x].at = "lock" => task[x].at = "lock",
           OnIt(p, x)' => Unsettled(x)
    PROVE  Unsettled(x)
BY DEF Unsettled, OnIt

\* One process moves on and gets nothing to settle.
LEMMA OnceMoves ==
    ASSUME OrderTypes, Once, NEW p \in Processes, NEW t, task' = [task EXCEPT ![p] = t],
           t.at # "settle",
           t.at = "lock" => t.locks = <<>>,
           \A x \in Orders : OnIt(p, x)' => Unsettled(x),
           \A x \in Orders : order'[x] = order[x] \/ order'[x] # "pending_payment",
           \A x \in Orders : task[x].at # "lock" /\ task'[x].at # "lock" => held'[x] = held[x],
           task[p].at = "lock" => held'[p] \in {<<>>, task[p].locks},
           \A q \in Processes, l \in Locks : Calling(q, l)' => Calling(q, l)
    PROVE  Once'
<1>1. task'[p] = t /\ \A q \in Processes \ {p} : task'[q] = task[q]
  BY Others
<1>2. \A q \in Processes, l \in Locks : Todo(q, l)' => Todo(q, l)
  BY <1>1 DEF Todo
<1>3. \A q \in Processes : task'[q].at = "settle" => Distinct(task'[q].todo)
  BY <1>1 DEF Once, TodoDistinct
<1>4. ASSUME NEW x \in Orders
      PROVE  Own(x)' = <<>> \/ (Own(x)' = Own(x) /\ (Unsettled(x)' => Unsettled(x)))
  <2>1. CASE task'[x].at = "lock" /\ x = p
    BY <1>1, <2>1 DEF Own
  <2>2. CASE task'[x].at = "lock" /\ x # p
    <3>1. task'[x] = task[x]
      BY <1>1, <2>2 DEF Processes
    <3> QED
      BY <1>1, <2>2, <3>1, UnsettledKept DEF Own
  <2>3. CASE task'[x].at # "lock"
    <3>1. Unsettled(x)' => Unsettled(x)
      BY <1>1, <2>3, UnsettledKept
    <3>2. task[x].at = "lock" => x = p
      BY <1>1, <2>3 DEF Processes
    <3> QED
      BY <2>3, <3>1, <3>2 DEF Own
  <2> QED
    BY <2>1, <2>2, <2>3
<1> QED
  BY <1>2, <1>3, <1>4, OnceStays

LEMMA SameCalls ==
    ASSUME \A q \in Processes : call'[q] \in Stock!Settling => call'[q] = call[q]
    PROVE  \A q \in Processes, l \in Locks : Calling(q, l)' => Calling(q, l)
BY DEF Calling, Stock!Settling

LEMMA RequestOnce ==
    ASSUME OrderTypes, Stages, Once, Request
    PROVE  Once'
<1>1. UNCHANGED <<call, order, held>>
  BY DEF Request, CreateOrder, PaymentEvent, CancelRead, UpdateOrderStatus, inventoryVars, orderVars
<1>2. \A q \in Processes, l \in Locks : Calling(q, l)' => Calling(q, l)
  BY <1>1, SameCalls
<1>3. ASSUME NEW o \in Orders, CreateOrder(o) PROVE Once'
  <2>1. PICK t : t = [at |-> "lock", order |-> o, locks |-> <<>>]
    OBVIOUS
  <2>2. t.at = "lock" /\ t.locks = <<>> /\ o \in Processes /\ task' = [task EXCEPT ![o] = t]
    BY <1>3, <2>1 DEF Processes, CreateOrder, Becomes
  <2>3. \A x \in Orders : ~OnIt(o, x)'
    BY <2>2, Others DEF OnIt
  <2>4. task[o].at = "idle"
    BY <1>3 DEF CreateOrder, Idle
  <2> QED
    BY <1>1, <1>2, <2>2, <2>3, <2>4, OnceMoves
<1>4. ASSUME NEW p \in Cancels, NEW o \in Orders, CancelRead(p, o) PROVE Once'
  <2>1. PICK t : t = [at |-> "cancel", order |-> o]
    OBVIOUS
  <2>2. t.at = "cancel" /\ t.order = o /\ p \in Processes /\ task' = [task EXCEPT ![p] = t]
    BY <1>4, <2>1 DEF Processes, CancelRead, Becomes
  <2>3. \A x \in Orders : OnIt(p, x)' => x = o
    BY <2>2, Others DEF OnIt
  <2>4. task[p].at = "idle" /\ order[o] = "pending_payment"
    BY <1>4 DEF CancelRead, Idle
  <2>5. Unsettled(o)
    BY <2>4 DEF Unsettled
  <2> QED
    BY <1>1, <1>2, <2>2, <2>3, <2>4, <2>5, OnceMoves
<1>5. ASSUME NEW p \in Clerks, NEW o \in Orders, NEW st \in Statuses, UpdateOrderStatus(p, o, st)
      PROVE  Once'
  <2>1. PICK t : t = [at |-> "update", order |-> o, to |-> st]
    OBVIOUS
  <2>2. t.at = "update" /\ p \in Processes /\ p \notin Consumers /\ task' = [task EXCEPT ![p] = t]
    BY <1>5, <2>1, CheckoutConstants DEF Processes, UpdateOrderStatus, StatusRead, Becomes
  <2>3. \A x \in Orders : ~OnIt(p, x)'
    BY <2>2, Others DEF OnIt
  <2>4. task[p].at = "idle"
    BY <1>5 DEF UpdateOrderStatus, StatusRead, Idle
  <2> QED
    BY <1>1, <1>2, <2>2, <2>3, <2>4, OnceMoves
<1>6. ASSUME NEW o \in Orders, PaymentEvent(o) PROVE Once'
  <2>1. UNCHANGED task
    BY <1>6 DEF PaymentEvent
  <2>2. \A p \in Processes, l \in Locks : Todo(p, l)' => Todo(p, l)
    BY <2>1 DEF Todo
  <2>3. \A p \in Processes : task'[p].at = "settle" => Distinct(task'[p].todo)
    BY <2>1 DEF Once, TodoDistinct
  <2>4. \A x \in Orders : Own(x)' = Own(x) /\ (Unsettled(x)' => Unsettled(x))
    BY <1>1, <2>1 DEF Own, Unsettled, OnIt
  <2> QED
    BY <1>2, <2>2, <2>3, <2>4, OnceStays
<1> QED
  BY <1>3, <1>4, <1>5, <1>6, CheckoutConstants DEF Request

LEMMA ReceiveOnce ==
    ASSUME OrderTypes, Stages, Once, NEW p \in Consumers, NEW o \in Orders, ReceivePayment(p, o)
    PROVE  Once'
<1>1. UNCHANGED <<call, order, held>>
  BY DEF ReceivePayment, inventoryVars, orderVars
<1>2. PICK t : t = [at |-> "update", order |-> o, to |-> "paid"]
  OBVIOUS
<1>3. t.at = "update" /\ t.order = o /\ p \in Processes /\ task' = [task EXCEPT ![p] = t]
  BY <1>2 DEF Processes, ReceivePayment, StatusRead, Becomes
<1>4. \A x \in Orders : OnIt(p, x)' => x = o
  BY <1>3, Others DEF OnIt
<1>5. task[p].at = "idle"
  BY DEF ReceivePayment, StatusRead, Idle
<1>6. order[o] = "pending_payment"
  BY DEF ReceivePayment, StatusRead, isValidTransition, Statuses, validTransitions
<1>7. Unsettled(o)
  BY <1>6 DEF Unsettled
<1> QED
  BY <1>1, <1>3, <1>4, <1>5, <1>7, OnceMoves, SameCalls

LEMMA WriteOnce ==
    ASSUME OrderTypes, Stages, LockInv, Once, Alone, NEW p \in Processes, CancelWrite(p) \/ StatusWrite(p)
    PROVE  Once'
<1>1. PICK o \in Orders : o = task[p].order
  BY TaskKinds DEF CancelWrite, StatusWrite, OrderTypes, Idle, Done
<1>2. /\ p \notin Orders /\ order[o] # "none" /\ o \in Processes
      /\ task[o].at \in {"settle", "done"} /\ task[p].at \in {"cancel", "update"}
  BY <1>1 DEF Stages, CancelWrite, StatusWrite, Processes
<1>3. PICK to : to # "pending_payment" /\ order' = [order EXCEPT ![o] = to]
  <2>1. CASE CancelWrite(p)
    BY <1>1, <2>1 DEF CancelWrite
  <2>2. CASE StatusWrite(p)
    BY <1>1, <2>2 DEF StatusWrite, Stages
  <2> QED
    BY <2>1, <2>2
<1>4. order'[o] = to /\ \A x \in Orders \ {o} : order'[x] = order[x]
  BY <1>3 DEF OrderTypes
<1>5. UNCHANGED <<inventoryVars, held>>
  BY DEF CancelWrite, StatusWrite
<1>6. \A q \in Processes, l \in Locks : Calling(q, l)' => Calling(q, l)
  BY <1>5, SameCalls DEF inventoryVars
<1>7. CASE StatusWrite(p) /\ p \notin Consumers
  <2>1. PICK t : t = Idle /\ t.at = "idle"
    <3>1. Idle.at = "idle"
      BY DEF Idle
    <3> QED
      BY <3>1
  <2>2. task' = [task EXCEPT ![p] = t]
    BY <1>7, <2>1 DEF StatusWrite, Becomes
  <2>3. \A x \in Orders : ~OnIt(p, x)'
    BY <2>1, <2>2, Others DEF OnIt
  <2> QED
    BY <1>2, <1>3, <1>4, <1>5, <1>6, <2>1, <2>2, <2>3, OnceMoves
<1>8. CASE CancelWrite(p) \/ (StatusWrite(p) /\ p \in Consumers)
  <2>1. OnIt(p, o)
    BY <1>1, <1>8 DEF OnIt, CancelWrite, StatusWrite
  <2>2. PICK t : t.at = "settle" /\ t.todo = held[o] /\ task' = [task EXCEPT ![p] = t]
    <3>1. PICK op : task' = [task EXCEPT ![p] = SettleTask(o, op, held[o])]
      BY <1>1, <1>8 DEF CancelWrite, StatusWrite, Becomes
    <3>2. PICK t : t = SettleTask(o, op, held[o])
      OBVIOUS
    <3>3. t.at = "settle" /\ t.todo = held[o]
      BY <3>2 DEF SettleTask
    <3> QED
      BY <3>1, <3>2, <3>3
  <2>3. task'[p] = t /\ \A q \in Processes \ {p} : task'[q] = task[q]
    BY <2>2, Others
  <2>4. \A x \in Orders : Own(x)' = Own(x)
    BY <1>2, <1>5, <2>3 DEF Own, Processes
  <2>5. Own(o) = held[o]
    BY <1>2 DEF Own
  <2>6. Unsettled(o)
    BY <2>1 DEF Unsettled
  <2>7. \A x \in Orders : ~OnIt(p, x)'
    BY <2>2, <2>3 DEF OnIt
  <2>8. ~Unsettled(o)'
    <3>1. task'[o].at # "lock" /\ order'[o] # "pending_payment"
      BY <1>2, <1>3, <1>4, <2>3
    <3>2. \A q \in Processes : ~OnIt(q, o)'
      BY <2>1, <2>3, <2>7 DEF OnIt, Alone
    <3> QED
      BY <3>1, <3>2 DEF Unsettled
  <2>9. \A x \in Orders \ {o} : Unsettled(x)' => Unsettled(x)
    BY <1>2, <1>4, <2>3, <2>7, UnsettledKept DEF Processes
  <2> QED
    BY <1>2, <1>6, <2>2, <2>3, <2>4, <2>5, <2>6, <2>8, <2>9, OnceHandsOver DEF LockInv
<1> QED
  BY <1>7, <1>8

LEMMA GiveBackOnce ==
    ASSUME OrderTypes, Stages, LockInv, Once, NEW o \in Orders, task[o].at = "lock",
           Becomes(o, SettleTask(o, "release", task[o].locks)),
           UNCHANGED <<order, held>>,
           \A q \in Processes : call'[q] \in Stock!Settling => call'[q] = call[q]
    PROVE  Once'
<1>1. o \in Processes
  BY DEF Processes
<1>2. PICK t : t = SettleTask(o, "release", task[o].locks)
  OBVIOUS
<1>3. t.at = "settle" /\ t.todo = Own(o)
  BY <1>2 DEF SettleTask, Own
<1>4. task'[o] = t /\ \A q \in Processes \ {o} : task'[q] = task[q]
  BY <1>1, <1>2, Others DEF Becomes
<1>5. order[o] = "none" /\ held[o] = <<>>
  BY DEF Stages
<1>6. Own(o)' = <<>>
  BY <1>3, <1>4, <1>5 DEF Own
<1>7. \A x \in Orders \ {o} : Own(x)' = Own(x) /\ (Unsettled(x)' => Unsettled(x))
  <2>1. \A x \in Orders : ~OnIt(o, x)'
    BY <1>3, <1>4 DEF OnIt
  <2> QED
    BY <1>1, <1>4, <2>1, UnsettledKept DEF Own, Processes
<1>8. Unsettled(o)
  BY DEF Unsettled
<1> QED
  BY <1>1, <1>3, <1>4, <1>6, <1>7, <1>8, SameCalls, OnceHandsOver DEF LockInv

LEMMA InsertOnce ==
    ASSUME OrderTypes, Stages, Once, NEW o \in Orders, InsertOrder(o)
    PROVE  Once'
<1>1. o \in Processes /\ task[o].at = "lock"
  BY DEF Processes, InsertOrder, AllLocked
<1>2. /\ task' = [task EXCEPT ![o] = Done]
      /\ order' = [order EXCEPT ![o] = "pending_payment"]
      /\ held' = [held EXCEPT ![o] = task[o].locks]
      /\ UNCHANGED call
  BY DEF InsertOrder, Becomes, inventoryVars
<1>3. Done.at = "done"
  BY DEF Done
<1>4. task'[o] = Done /\ \A q \in Processes \ {o} : task'[q] = task[q]
  BY <1>1, <1>2, Others
<1>5. /\ held'[o] = task[o].locks
      /\ \A x \in Orders \ {o} : order'[x] = order[x] /\ held'[x] = held[x]
  BY <1>2 DEF OrderTypes
<1>6. \A x \in Orders : Own(x)' = Own(x)
  BY <1>1, <1>3, <1>4, <1>5 DEF Own, Processes
<1>7. ASSUME NEW x \in Orders, Unsettled(x)' PROVE Unsettled(x)
  <2>1. CASE x = o
    BY <1>1, <2>1 DEF Unsettled
  <2>2. CASE x # o
    <3>1. ~OnIt(o, x)' /\ task'[x] = task[x] /\ order'[x] = order[x]
      BY <1>3, <1>4, <1>5, <2>2 DEF OnIt, Processes
    <3> QED
      BY <1>1, <1>4, <1>7, <3>1, UnsettledKept
  <2> QED
    BY <2>1, <2>2
<1>8. \A q \in Processes, l \in Locks : Todo(q, l)' => Todo(q, l)
  BY <1>3, <1>4 DEF Todo
<1>9. \A q \in Processes : task'[q].at = "settle" => Distinct(task'[q].todo)
  BY <1>3, <1>4 DEF Once, TodoDistinct
<1>10. \A q \in Processes, l \in Locks : Calling(q, l)' => Calling(q, l)
  BY <1>2, SameCalls
<1> QED
  BY <1>6, <1>7, <1>8, <1>9, <1>10, OnceStays

LEMMA LockItemOnce ==
    ASSUME Stock!TypeOK, OrderTypes, Stages, LockInv, Once,
           NEW o \in Orders, NEW l \in Locks, LockItem(o, l)
    PROVE  Once'
<1>1. o \in Processes /\ task[o].at = "lock"
  BY DEF Processes, LockItem, MoreToLock
<1>2. PICK s \in Seq(Locks) : s = task[o].locks
  BY <1>1, LockingTask
<1>3. PICK n \in Nat : n = Len(s)
  BY LenProperties
<1>4. /\ lock[l].status = "free"
      /\ \A r \in Processes : call'[r] \in Stock!Settling => call'[r] = call[r]
  BY <1>1, Draws DEF LockItem
<1>5. PICK t : t = [task[o] EXCEPT !.locks = Append(s, l)]
  OBVIOUS
<1>6. task' = [task EXCEPT ![o] = t]
  BY <1>2, <1>5 DEF LockItem
<1>7. t.at = "lock" /\ t.locks = Append(s, l)
  BY <1>1, <1>5, LockingTask DEF Locking
<1>8. task'[o] = t /\ \A q \in Processes \ {o} : task'[q] = task[q]
  BY <1>1, <1>6, Others
<1>9. UNCHANGED <<order, held>>
  BY DEF LockItem, orderVars
<1>10. \A x \in Orders \ {o} : Own(x)' = Own(x)
  BY <1>8, <1>9 DEF Own, Processes
<1>11. Own(o) = s /\ Own(o)' = Append(s, l)
  BY <1>1, <1>2, <1>7, <1>8 DEF Own
<1>12. /\ DOMAIN s = 1 .. n /\ DOMAIN Append(s, l) = 1 .. n + 1
       /\ \A i \in 1 .. n : Append(s, l)[i] = s[i]
       /\ Append(s, l)[n + 1] = l
  BY <1>3, LenProperties, AppendProperties
<1>13. ~Doomed(l) /\ \A x \in Orders : ~Owns(x, l)
  BY <1>4 DEF LockInv, Drawn
<1>14. \A q \in Processes, k \in Locks : Todo(q, k)' => Todo(q, k)
  BY <1>7, <1>8 DEF Todo
<1>15. \A q \in Processes, k \in Locks : Calling(q, k)' => Calling(q, k)
  BY <1>4, SameCalls
<1>16. \A k \in Locks : Doomed(k)' => Doomed(k)
  BY <1>14, <1>15, DoomedIs
<1>17. \A x \in Orders : Unsettled(x)' => Unsettled(x)
  <2>1. \A x \in Orders : ~OnIt(o, x)' \/ Unsettled(x)
    <3>1. o \notin Consumers
      BY CheckoutConstants
    <3> QED
      BY <1>7, <1>8, <3>1 DEF OnIt
  <2>2. \A x \in Orders : task'[x].at = "lock" => task[x].at = "lock"
    BY <1>1, <1>8 DEF Processes
  <2> QED
    BY <1>1, <1>8, <1>9, <2>1, <2>2, UnsettledKept
<1>18. Spared'
  <2> SUFFICES ASSUME NEW x \in Orders, NEW k \in Locks, Unsettled(x)', Owns(x, k)'
               PROVE  ~Doomed(k)'
    BY DEF Spared
  <2>1. CASE x = o /\ k = l
    BY <1>13, <1>16, <2>1
  <2>2. CASE x # o
    <3>1. Owns(x, k)
      BY <1>10, <2>2 DEF Owns
    <3> QED
      BY <1>16, <1>17, <3>1 DEF Once, Spared
  <2>3. CASE x = o /\ k # l
    <3>1. Owns(x, k)
      BY <1>11, <1>12, <2>3 DEF Owns
    <3> QED
      BY <1>16, <1>17, <3>1 DEF Once, Spared
  <2> QED
    BY <2>1, <2>2, <2>3
<1>19. OwnDistinct'
  <2> SUFFICES ASSUME NEW x \in Orders PROVE Distinct(Own(x))'
    BY DEF OwnDistinct
  <2>1. CASE x # o
    BY <1>10, <2>1 DEF Once, OwnDistinct, Distinct
  <2>2. CASE x = o
    <3> SUFFICES ASSUME NEW i \in 1 .. n + 1, NEW j \in 1 .. n + 1, Append(s, l)[i] = Append(s, l)[j]
                 PROVE  i = j
      BY <1>11, <1>12, <2>2 DEF Distinct
    <3>1. \A k \in 1 .. n : s[k] # l
      BY <1>11, <1>12, <1>13 DEF Owns
    <3>2. \A k, m \in 1 .. n : s[k] = s[m] => k = m
      BY <1>11, <1>12 DEF Once, OwnDistinct, Distinct
    <3> QED
      BY <1>12, <3>1, <3>2
  <2> QED
    BY <2>1, <2>2
<1>20. TodoDistinct'
  BY <1>7, <1>8 DEF Once, TodoDistinct, Distinct
<1>21. TodoOnce'
  BY <1>14, <1>15 DEF Once, TodoOnce
<1> QED
  BY <1>18, <1>19, <1>20, <1>21 DEF Once

\* What is settled next is settled by nobody else.
LEMMA TodoSettlesOnce ==
    ASSUME OrderTypes, Once, NEW p \in Processes, ToSettle(p),
           task' = [task EXCEPT ![p].todo = Tail(@)],
           UNCHANGED <<order, held>>,
           \A q \in Processes : call'[q] \in Stock!Settling =>
             call'[q] = call[q] \/ (q = p /\ call'[q].lock = Head(task[p].todo))
    PROVE  Once'
<1>1. task[p].at = "settle" /\ task[p] \in Settling
  BY SettlingTask DEF ToSettle
<1>2. PICK s \in Seq(Locks) : s = task[p].todo /\ s # <<>>
  BY <1>1, SettlingTask DEF ToSettle
<1>3. PICK t : t = [task[p] EXCEPT !.todo = Tail(s)]
  OBVIOUS
<1>4. t.at = "settle" /\ t.todo = Tail(s)
  BY <1>1, <1>3 DEF Settling
<1>5. task' = [task EXCEPT ![p] = t]
  BY <1>2, <1>3
<1>6. task'[p] = t /\ \A q \in Processes \ {p} : task'[q] = task[q]
  BY <1>5, Others
<1>7. PICK m \in Nat :
          /\ DOMAIN s = 1 .. m + 1 /\ DOMAIN Tail(s) = 1 .. m
          /\ Head(s) = s[1]
          /\ \A i \in 1 .. m : Tail(s)[i] = s[i + 1]
  <2>1. /\ Len(s) \in Nat /\ DOMAIN s = 1 .. Len(s) /\ Len(s) > 0
        /\ Head(s) = s[1]
        /\ Tail(s) \in Seq(Locks) /\ Len(Tail(s)) = Len(s) - 1
        /\ \A i \in 1 .. Len(Tail(s)) : Tail(s)[i] = s[i + 1]
    BY <1>2, LenProperties, HeadTailProperties, EmptySeq
  <2>2. DOMAIN Tail(s) = 1 .. Len(Tail(s))
    BY <2>1, LenProperties
  <2>3. PICK m \in Nat : Len(Tail(s)) = m /\ Len(s) = m + 1
    BY <2>1
  <2>4. DOMAIN s = 1 .. m + 1 /\ DOMAIN Tail(s) = 1 .. m
    BY <2>1, <2>2, <2>3
  <2>5. \A i \in 1 .. m : Tail(s)[i] = s[i + 1]
    BY <2>1, <2>3
  <2> QED
    BY <2>1, <2>4, <2>5
<1>8. \A i, j \in 1 .. m + 1 : s[i] = s[j] => i = j
  BY <1>1, <1>2, <1>7 DEF Once, TodoDistinct, Distinct
<1>9. \A x \in Orders : Own(x)' = Own(x) /\ (Unsettled(x)' => Unsettled(x))
  <2>1. \A q \in Processes : task[q].at = task'[q].at /\ (task[q].at # "settle" => task'[q] = task[q])
    BY <1>1, <1>4, <1>6
  <2> QED
    BY <2>1 DEF Own, Unsettled, OnIt, Processes
<1>10. \A q \in Processes, k \in Locks : Todo(q, k)' => Todo(q, k)
  <2> SUFFICES ASSUME NEW k \in Locks, Todo(p, k)' PROVE Todo(p, k)
    BY <1>6 DEF Todo
  <2>1. PICK i \in 1 .. m : Tail(s)[i] = k
    BY <1>4, <1>6, <1>7 DEF Todo
  <2>2. i + 1 \in DOMAIN s /\ s[i + 1] = k
    BY <1>7, <2>1
  <2> QED
    BY <1>1, <1>2, <2>2 DEF Todo
<1>11. \A q \in Processes, k \in Locks : Calling(q, k)' => Calling(q, k) \/ (q = p /\ k = s[1])
  BY <1>2, <1>7 DEF Calling, Stock!Settling
<1>12. s[1] \in Locks /\ Todo(p, s[1])
  <2>1. 1 \in DOMAIN s
    BY <1>7
  <2> QED
    BY <1>1, <1>2, <2>1, ElementOfSeq DEF Todo
<1>13. \A k \in Locks : Doomed(k)' => Doomed(k)
  BY <1>10, <1>11, <1>12, DoomedIs
<1>14. ~Todo(p, s[1])'
  <2> SUFFICES ASSUME NEW i \in 1 .. m, Tail(s)[i] = s[1] PROVE FALSE
    BY <1>4, <1>6, <1>7 DEF Todo
  <2> QED
    BY <1>7, <1>8
<1>15. Spared' /\ OwnDistinct'
  BY <1>9, <1>13 DEF Once, Spared, OwnDistinct, Owns, Distinct
<1>16. TodoDistinct'
  <2>1. \A i, j \in 1 .. m : Tail(s)[i] = Tail(s)[j] => i = j
    BY <1>7, <1>8
  <2>2. Distinct(task'[p].todo)
    BY <1>4, <1>6, <1>7, <2>1, ZenonT(60) DEF Distinct
  <2>3. \A q \in Processes \ {p} : task'[q].at = "settle" => Distinct(task'[q].todo)
    BY <1>6 DEF Once, TodoDistinct
  <2>4. \A q \in Processes : task'[q].at = "settle" => Distinct(task'[q].todo)
    BY <2>2, <2>3
  <2> QED
    BY <2>4 DEF TodoDistinct, Distinct
<1>17. TodoOnce'
  <2> SUFFICES ASSUME NEW r \in Processes, NEW q \in Processes, NEW k \in Locks, Todo(r, k)'
               PROVE  ~Calling(q, k)' /\ (Todo(q, k)' => r = q)
    BY DEF TodoOnce
  <2>1. Todo(r, k) /\ ~Calling(q, k) /\ (Todo(q, k)' => r = q)
    BY <1>10 DEF Once, TodoOnce
  <2>2. k = s[1] => r = p
    BY <1>12, <2>1 DEF Once, TodoOnce
  <2>3. k # s[1]
    BY <1>14, <2>2
  <2> QED
    BY <1>11, <2>1, <2>3
<1> QED
  BY <1>15, <1>16, <1>17 DEF Once

LEMMA SettleOnce ==
    ASSUME Stock!TypeOK, OrderTypes, Once, NEW p \in Processes,
           \/ SettleNext(p) \/ SettleRefused(p)
           \/ ToSettle(p) /\ CallFails(p)
    PROVE  Once'
<1>1. ToSettle(p) /\ UNCHANGED <<order, held>>
  BY DEF SettleNext, SettleRefused, CallFails, orderVars
<1>2. CASE SettleNext(p)
  <2>1. PICK op, l : l = Head(task[p].todo) /\ Inv!BeginSettle(p, l, op)
    BY <1>2 DEF SettleNext
  <2>2. call' = [call EXCEPT ![p] = [op |-> op, lock |-> l]]
    BY <2>1 DEF Inv!BeginSettle
  <2>3. call'[p].lock = l /\ \A q \in Processes \ {p} : call'[q] = call[q]
    BY <2>2 DEF Stock!TypeOK
  <2>4. task' = [task EXCEPT ![p].todo = Tail(@)]
    BY <1>2 DEF SettleNext
  <2> QED
    BY <1>1, <2>1, <2>3, <2>4, TodoSettlesOnce
<1>3. CASE SettleRefused(p)
  BY <1>1, <1>3, TodoSettlesOnce DEF SettleRefused, inventoryVars
<1>4. CASE CallFails(p)
  <2>1. task' = [task EXCEPT ![p].todo = Tail(@)] /\ UNCHANGED call
    BY <1>1, <1>4 DEF CallFails, ToSettle, MoreToLock, Replied, Inv!Abort, inventoryVars
  <2> QED
    BY <1>1, <2>1, TodoSettlesOnce
<1> QED
  BY <1>2, <1>3, <1>4

LEMMA RestOnce ==
    ASSUME OrderTypes, Stages, Once, NEW p \in Processes, Working(p), Becomes(p, Rest(p)),
           UNCHANGED <<order, held, call>>
    PROVE  Once'
<1>1. PICK t : t = Rest(p) /\ t \in {Idle, Done}
  BY Rests DEF Rest
<1>2. t.at \in {"idle", "done"}
  BY <1>1 DEF Idle, Done
<1>3. task' = [task EXCEPT ![p] = t]
  BY <1>1 DEF Becomes
<1>4. \A x \in Orders : ~OnIt(p, x)'
  BY <1>2, <1>3, Others DEF OnIt
<1>5. task[p].at = "lock" => held[p] = <<>>
  BY DEF Stages, OrderTypes, OwnRequest
<1> QED
  BY <1>2, <1>3, <1>4, <1>5, SameCalls, OnceMoves

LEMMA InventoryOnce ==
    ASSUME Stock!TypeOK, Once, NEW p \in Processes,
           Inv!Progress(p) \/ Inv!Abort(p), UNCHANGED <<task, order, held>>
    PROVE  Once'
<1>1. \A q \in Processes, l \in Locks : Calling(q, l)' => Calling(q, l)
  BY Settles, SameCalls
<1>2. \A q \in Processes, l \in Locks : Todo(q, l)' => Todo(q, l)
  BY DEF Todo
<1>3. \A q \in Processes : task'[q].at = "settle" => Distinct(task'[q].todo)
  BY DEF Once, TodoDistinct
<1>4. \A x \in Orders : Own(x)' = Own(x) /\ (Unsettled(x)' => Unsettled(x))
  BY DEF Own, Unsettled, OnIt
<1> QED
  BY <1>1, <1>2, <1>3, <1>4, OnceStays

LEMMA WorkOnce ==
    ASSUME Stock!TypeOK, OrderTypes, Stages, LockInv, Once, Alone, NEW p \in Processes, Work(p)
    PROVE  Once'
<1>1. ASSUME NEW l \in Locks, LockItem(p, l) PROVE Once'
  BY <1>1, LockingTask, LockItemOnce DEF LockItem, MoreToLock
<1>2. CASE LockRefused(p)
  BY <1>2, LockingTask, GiveBackOnce DEF LockRefused, MoreToLock, inventoryVars, orderVars
<1>3. CASE InsertOrder(p)
  BY <1>3, LockingTask, InsertOnce DEF InsertOrder, AllLocked
<1>4. CASE CancelWrite(p) \/ StatusWrite(p)
  BY <1>4, WriteOnce
<1>5. CASE SettleNext(p) \/ SettleRefused(p)
  BY <1>5, SettleOnce
<1>6. CASE SettleDone(p)
  <2>1. Working(p)
    BY <1>6 DEF SettleDone, Working, Idle, Done
  <2> QED
    BY <1>6, <2>1, RestOnce DEF SettleDone, inventoryVars, orderVars
<1>7. CASE InventoryStep(p)
  BY <1>7, InventoryOnce DEF InventoryStep, orderVars
<1> QED
  BY <1>1, <1>2, <1>3, <1>4, <1>5, <1>6, <1>7 DEF Work

LEMMA FailureOnce ==
    ASSUME Stock!TypeOK, OrderTypes, Stages, LockInv, Once, Failure, unsure' = {}
    PROVE  Once'
<1>1. ASSUME NEW p \in Processes, Crash(p) PROVE Once'
  BY <1>1, RestOnce DEF Crash, Working, inventoryVars, orderVars
<1>2. ASSUME NEW p \in Processes, CallFails(p) PROVE Once'
  <2>1. UNCHANGED <<order, held>>
    BY <1>2 DEF CallFails, orderVars
  <2>2. CASE MoreToLock(p) /\ Becomes(p, SettleTask(p, "release", task[p].locks)) /\ UNCHANGED inventoryVars
    BY <2>1, <2>2, LockingTask, GiveBackOnce DEF MoreToLock, inventoryVars
  <2>3. CASE ToSettle(p)
    BY <1>2, <2>3, SettleOnce
  <2>4. CASE Inv!Abort(p) /\ UNCHANGED task
    BY <2>1, <2>4, InventoryOnce
  <2> QED
    BY <1>2, <2>2, <2>3, <2>4 DEF CallFails
<1>3. ASSUME NEW o \in Orders, NEW l \in Locks, LockReplyLost(o, l) PROVE Once'
  <2>1. o \in Processes /\ task[o].at = "lock"
    BY <1>3 DEF Processes, LockReplyLost, MoreToLock
  <2>2. PICK b, q : Inv!LockStock(o, b, l, q)
    BY <1>3 DEF LockReplyLost
  <2>3. \A r \in Processes : call'[r] \in Stock!Settling => call'[r] = call[r]
    BY <2>1, <2>2, Draws
  <2> QED
    BY <1>3, <2>1, <2>3, GiveBackOnce DEF LockReplyLost, orderVars
<1>4. ASSUME NEW o \in Orders, InsertFails(o) PROVE Once'
  BY <1>4, GiveBackOnce DEF InsertFails, AllLocked, inventoryVars, orderVars
<1>5. \A o \in Orders : ~InsertReplyLost(o)
  BY DEF InsertReplyLost
<1> QED
  BY <1>1, <1>2, <1>3, <1>4, <1>5 DEF Failure

LEMMA InitOnce == Init => Once
<1> SUFFICES ASSUME Init PROVE Once
  OBVIOUS
<1>1. \A p \in Processes : task[p].at = "idle" /\ call[p] \notin Stock!Settling
  BY DEF Init, Idle, Inv!Init, Inv!Idle, Stock!Settling
<1>2. \A o \in Orders : Own(o) = <<>>
  BY <1>1 DEF Init, Own, Processes
<1>3. \A p \in Processes, l \in Locks : ~Todo(p, l) /\ ~Calling(p, l)
  BY <1>1 DEF Todo, Calling
<1>4. Spared
  BY <1>3, DoomedIs DEF Spared
<1>5. OwnDistinct
  BY <1>2, EmptySeq DEF OwnDistinct, Distinct
<1>6. TodoDistinct /\ TodoOnce
  BY <1>1, <1>3 DEF TodoDistinct, TodoOnce
<1> QED
  BY <1>4, <1>5, <1>6 DEF Once

LEMMA SingleConstants == Single!InventoryConstants
BY StockConstants DEF Stock!InventoryConstants, Single!InventoryConstants, Stock!IsFiniteSet, Single!IsFiniteSet

\* A call the inventory may get settles no lock that another call settles.
LEMMA SingleIsNext ==
    ASSUME Once, Stock!Next,
           \A p \in Processes, l \in Locks, op \in {"release", "deduct"} :
             Inv!BeginSettle(p, l, op) => Todo(p, l)
    PROVE  Single!Next
<1>1. ASSUME NEW p \in Processes, NEW l \in Locks, NEW op \in {"release", "deduct"},
             Stock!BeginSettle(p, l, op)
      PROVE  Single!MaySettle(l) /\ Single!BeginSettle(p, l, op)
  <2>1. Inv!BeginSettle(p, l, op) /\ Single!BeginSettle(p, l, op)
    BY <1>1 DEF Stock!BeginSettle, Inv!BeginSettle, Single!BeginSettle, Stock!Idle, Inv!Idle, Single!Idle
  <2>2. \A q \in Processes : ~Calling(q, l)
    BY <2>1 DEF Once, TodoOnce
  <2> QED
    BY <2>1, <2>2 DEF Calling, Single!MaySettle, Single!Settling, Stock!Settling
<1>2. ASSUME NEW p \in Processes, Stock!Progress(p) PROVE Single!Progress(p)
  BY <1>2 DEF Single!Progress, Stock!Progress, Single!CommitRelease, Stock!CommitRelease,
         Single!CommitDeduct, Stock!CommitDeduct, Single!ReleasedRow, Stock!ReleasedRow,
         Single!DeductedRow, Stock!DeductedRow, Single!CreateRow, Stock!CreateRow,
         Single!InvalidateCache, Stock!InvalidateCache, Single!CacheStock, Stock!CacheStock,
         Single!Idle, Stock!Idle
<1>3. ASSUME NEW p \in Processes, NEW b \in Books, NEW l \in Locks, NEW q \in Quantities,
             Stock!LockStock(p, b, l, q)
      PROVE  Single!LockStock(p, b, l, q)
  BY <1>3 DEF Single!LockStock, Stock!LockStock, Single!CanLock, Stock!CanLock,
         Single!Available, Stock!Available, Single!Idle, Stock!Idle
<1>4. ASSUME NEW p \in Processes, NEW b \in Books, Stock!GetStockMiss(p, b)
      PROVE  Single!GetStockMiss(p, b)
  BY <1>4 DEF Single!GetStockMiss, Stock!GetStockMiss, Single!Idle, Stock!Idle
<1>5. ASSUME NEW p \in Processes, Stock!Request(p) PROVE Single!Request(p)
  BY <1>1, <1>3, <1>4, <1>5 DEF Single!Request, Stock!Request
<1>6. \A p \in Processes : Stock!Abort(p) => Single!Abort(p)
  BY DEF Single!Abort, Stock!Abort, Single!Idle, Stock!Idle
<1>7. \A b \in Books : Stock!CacheExpire(b) => Single!CacheExpire(b)
  BY DEF Single!CacheExpire, Stock!CacheExpire
<1> QED
  BY <1>2, <1>5, <1>6, <1>7 DEF Single!Next, Stock!Next

\* What a process begins to settle was on its list.
LEMMA BeginsFromTodo ==
    ASSUME Stock!TypeOK, OrderTypes, Next,
           NEW p \in Processes, NEW l \in Locks, NEW op \in {"release", "deduct"},
           Inv!BeginSettle(p, l, op)
    PROVE  Todo(p, l)
<1>1. call'[p] = [op |-> op, lock |-> l] /\ call[p] = Inv!Idle
  BY DEF Inv!BeginSettle, Stock!TypeOK
<1>2. call'[p] \in Stock!Settling /\ call'[p] # call[p]
  <2>1. [op |-> op, lock |-> l] \in Stock!Settling /\ Inv!Idle \notin Stock!Settling
    BY DEF Stock!Settling, Inv!Idle
  <2> QED
    BY <1>1, <2>1
<1>3. ~UNCHANGED call
  BY <1>2
<1>4. ASSUME NEW o \in Orders, NEW k \in Locks PROVE ~LockItem(o, k) /\ ~LockReplyLost(o, k)
  <2>1. \A b, q : ~Inv!LockStock(o, b, k, q)
    BY <1>2, Draws DEF Processes
  <2> QED
    BY <2>1 DEF LockItem, LockReplyLost
<1>5. \A q \in Processes : ~Inv!Progress(q) /\ ~Inv!Abort(q)
  BY <1>2, Settles
<1>6. PICK q \in Processes : SettleNext(q)
  <2>1. Request => UNCHANGED call
    BY DEF Request, CreateOrder, PaymentEvent, CancelRead, UpdateOrderStatus, inventoryVars
  <2>2. \A q \in Consumers, o \in Orders : ReceivePayment(q, o) => UNCHANGED call
    BY DEF ReceivePayment, inventoryVars
  <2>3. Failure => UNCHANGED call
    <3>1. \A q \in Processes : Crash(q) \/ CallFails(q) => UNCHANGED call
      BY <1>5 DEF Crash, CallFails, inventoryVars
    <3>2. \A o \in Orders : InsertFails(o) \/ InsertReplyLost(o) => UNCHANGED call
      BY DEF InsertFails, InsertReplyLost, inventoryVars
    <3> QED
      BY <1>4, <3>1, <3>2 DEF Failure
  <2>4. ASSUME NEW q \in Processes, Work(q), ~SettleNext(q) PROVE UNCHANGED call
    <3>1. \A k \in Locks : ~LockItem(q, k)
      BY <1>4, LockingTask DEF LockItem, MoreToLock
    <3>2. ~InventoryStep(q)
      BY <1>5 DEF InventoryStep
    <3> QED
      BY <2>4, <3>1, <3>2 DEF Work, LockRefused, InsertOrder, CancelWrite, StatusWrite, SettleRefused,
         SettleDone, inventoryVars
  <2> QED
    BY <1>3, <2>1, <2>2, <2>3, <2>4 DEF Next
<1>7. task[q].at = "settle" /\ task[q] \in Settling
  BY <1>6, SettlingTask DEF SettleNext, ToSettle
<1>8. PICK s \in Seq(Locks) : s = task[q].todo /\ s # <<>>
  BY <1>6, <1>7, SettlingTask DEF SettleNext, ToSettle
<1>9. call' = [call EXCEPT ![q] = [op |-> task[q].op, lock |-> Head(s)]]
  BY <1>6, <1>8 DEF SettleNext, Inv!BeginSettle
<1>10. q = p
  BY <1>2, <1>9 DEF Stock!TypeOK
<1>11. Head(s) = l
  <2>1. call'[p] = [op |-> task[q].op, lock |-> Head(s)]
    BY <1>9, <1>10 DEF Stock!TypeOK
  <2>2. call'[p].lock = Head(s)
    BY <2>1
  <2>3. call'[p].lock = l
    BY <1>1
  <2> QED
    BY <2>2, <2>3
<1>12. \E i \in DOMAIN s : s[i] = Head(s)
  BY <1>8, LenProperties, HeadTailProperties, EmptySeq
<1> QED
  BY <1>7, <1>8, <1>10, <1>11, <1>12 DEF Todo

LEMMA OnceStep ==
    ASSUME TypeInv, Stages, LockInv, Once, Alone, [Next]_vars, unsure' = {}
    PROVE  Once' /\ [Single!Next]_(Single!vars)
<1>1. OrderTypes /\ Stock!TypeOK
  BY DEF TypeInv, Stock!TypeInv
<1>2. CASE Next
  <2>1. Once'
    BY <1>1, <1>2, RequestOnce, FailureOnce, WorkOnce, ReceiveOnce DEF Next
  <2>2. [Stock!Next]_(Stock!vars)
    BY <1>1, <1>2, CallsAllowed
  <2>3. Stock!Next => Single!Next
    BY <1>1, <1>2, BeginsFromTodo, SingleIsNext
  <2> QED
    BY <2>1, <2>2, <2>3 DEF Stock!vars, Single!vars
<1>3. CASE UNCHANGED vars
  <2>1. UNCHANGED <<rows, stock, lock, cache, call, order, held, task>>
    BY <1>3 DEF vars, inventoryVars, orderVars
  <2>2. \A q \in Processes, l \in Locks : Calling(q, l)' => Calling(q, l)
    BY <2>1, SameCalls
  <2>3. \A q \in Processes, l \in Locks : Todo(q, l)' => Todo(q, l)
    BY <2>1 DEF Todo
  <2>4. \A q \in Processes : task'[q].at = "settle" => Distinct(task'[q].todo)
    BY <2>1 DEF Once, TodoDistinct
  <2>5. \A x \in Orders : Own(x)' = Own(x) /\ (Unsettled(x)' => Unsettled(x))
    BY <2>1 DEF Own, Unsettled, OnIt
  <2> QED
    BY <2>1, <2>2, <2>3, <2>4, <2>5, OnceStays DEF Single!vars
<1> QED
  BY <1>2, <1>3

SettledOnce == unsure = {} => Once /\ Single!LedgerInv

LEMMA SettledOnceInvariant == Spec /\ []Alone => []SettledOnce
<1>1. Init => SettledOnce
  <2>1. Init => Single!Init
    BY DEF Init, Inv!Init, Single!Init, Inv!Idle, Single!Idle
  <2> QED
    BY <2>1, InitOnce, SingleConstants, Single!InitLedgerInv DEF SettledOnce
<1>2. TypeInv /\ Stages /\ LockInv /\ Complete /\ Alone /\ SettledOnce /\ [Next]_vars => SettledOnce'
  <2> SUFFICES ASSUME TypeInv, Stages, LockInv, Alone, SettledOnce, [Next]_vars, unsure' = {}
               PROVE  Once' /\ Single!LedgerInv'
    BY DEF SettledOnce
  <2>1. unsure \subseteq unsure'
    <3>1. Request \/ (\E p \in Consumers, o \in Orders : ReceivePayment(p, o)) => UNCHANGED unsure
      BY DEF Request, CreateOrder, PaymentEvent, CancelRead, UpdateOrderStatus, ReceivePayment, faultVars
    <3>2. \A p \in Processes : Work(p) => UNCHANGED unsure
      BY DEF Work, LockItem, LockRefused, InsertOrder, CancelWrite, StatusWrite, SettleNext, SettleRefused,
         SettleDone, InventoryStep, faultVars
    <3>3. Failure => unsure \subseteq unsure'
      BY DEF Failure, Crash, CallFails, InsertFails, InsertReplyLost, LockReplyLost
    <3> QED
      BY <3>1, <3>2, <3>3 DEF Next, vars, faultVars
  <2>2. unsure = {}
    BY <2>1
  <2>3. Once /\ Single!LedgerInv
    BY <2>2 DEF SettledOnce
  <2>4. Once' /\ [Single!Next]_(Single!vars)
    BY <2>3, OnceStep
  <2>5. Single!Protocol' /\ Single!Ledger'
    BY <2>3, <2>4, SingleConstants, Single!NextProtocol, Single!NextLedger DEF Single!LedgerInv
  <2> QED
    BY <2>4, <2>5 DEF Single!LedgerInv
<1> QED
  BY HoldInvariant, <1>1, <1>2, PTL DEF Spec

(* The shelf covers what is promised to orders, whatever fails or races, as  *)
(* long as no two of CancelOrder and the payment consumer are between the   *)
(* read and the write of the status of one order - the gap that             *)
(* GetByID and UpdateStatus leave open, and the run MCCheckoutOversell      *)
(* walks through (LockStock, ReleaseStock, DeductStock, CreateOrder).       *)
THEOREM PromisesCoveredWhileAlone == Spec /\ []Alone => []PromisesCovered
<1>1. SettledOnce => PromisesCovered
  <2> SUFFICES ASSUME unsure = {}, Single!LedgerInv PROVE Inv!NoOversell
    BY DEF SettledOnce, PromisesCovered
  <2>1. Single!NoOversell
    BY DEF Single!LedgerInv, Single!Ledger, Single!Balanced, Single!NoOversell
  <2>2. \A b \in Books : Single!Reserved(b) = Inv!Reserved(b)
    BY DEF Single!Reserved, Inv!Reserved, Single!Units, Inv!Units, Single!LocksOf, Inv!LocksOf
  <2>3. \A S : Single!Cardinality(S) = Inv!Cardinality(S)
    BY DEF Single!Cardinality, Inv!Cardinality, Single!IsFiniteSet, Inv!IsFiniteSet
  <2> QED
    BY <2>1, <2>2, <2>3 DEF Single!NoOversell, Inv!NoOversell
<1> QED
  BY SettledOnceInvariant, <1>1, PTL

\* CancelOrder and the consumer have different orders in hand, if they are asked
\* for different ones.
Divided ==
    /\ \A o \in Orders : queue[o] > 0 => o \in Payable
    /\ \A p \in Processes : task[p].at = "cancel" => p \in Cancels /\ task[p].order \in Cancellable
    /\ \A p \in Consumers : Working(p) => task[p].order \in Payable

LEMMA DividedMoves ==
    ASSUME OrderTypes, Divided, NEW p \in Processes, NEW t, task' = [task EXCEPT ![p] = t],
           t.at = "cancel" => p \in Cancels /\ t.order \in Cancellable,
           p \in Consumers => t \in {Idle, Done} \/ t.order \in Payable,
           \A o \in Orders : queue'[o] > 0 => o \in Payable
    PROVE  Divided'
<1>1. task'[p] = t /\ \A q \in Processes \ {p} : task'[q] = task[q]
  BY Others
<1>2. \A q \in Consumers : Working(q)' => task'[q].order \in Payable
  BY <1>1 DEF Divided, Working, Processes
<1>3. \A q \in Processes : task'[q].at = "cancel" => q \in Cancels /\ task'[q].order \in Cancellable
  BY <1>1 DEF Divided
<1> QED
  BY <1>2, <1>3 DEF Divided

\* A request gives back what it has, or is done.
LEMMA OwnDivided ==
    ASSUME OrderTypes, Divided, NEW o \in Orders, UNCHANGED queue, NEW t,
           task' = [task EXCEPT ![o] = t], t.at # "cancel"
    PROVE  Divided'
<1>1. o \in Processes /\ o \notin Consumers
  BY CheckoutConstants DEF Processes
<1>2. \A x \in Orders : queue'[x] > 0 => x \in Payable
  BY DEF Divided
<1> QED
  BY <1>1, <1>2, DividedMoves

LEMMA RequestDivided ==
    ASSUME OrderTypes, QueueTypes, Divided, Request
    PROVE  Divided'
<1>1. ASSUME NEW o \in Orders, CreateOrder(o) PROVE Divided'
  <2>1. PICK t : t = [at |-> "lock", order |-> o, locks |-> <<>>]
    OBVIOUS
  <2>2. t.at = "lock" /\ task' = [task EXCEPT ![o] = t] /\ UNCHANGED queue
    BY <1>1, <2>1 DEF CreateOrder, Becomes, brokerVars
  <2> QED
    BY <2>2, OwnDivided
<1>2. ASSUME NEW o \in Orders, PaymentEvent(o) PROVE Divided'
  <2>1. o \in Payable /\ UNCHANGED task /\ queue' = [queue EXCEPT ![o] = queue[o] + 1]
    BY <1>2 DEF PaymentEvent
  <2>2. \A x \in Orders : queue'[x] > 0 => x \in Payable
    BY <2>1 DEF QueueTypes, Divided
  <2> QED
    BY <2>1, <2>2 DEF Divided, Working
<1>3. ASSUME NEW p \in Cancels, NEW o \in Cancellable, CancelRead(p, o) PROVE Divided'
  <2>1. PICK t : t = [at |-> "cancel", order |-> o]
    OBVIOUS
  <2>2. t.order = o /\ task' = [task EXCEPT ![p] = t] /\ UNCHANGED queue
    BY <1>3, <2>1 DEF CancelRead, Becomes, brokerVars
  <2>3. p \in Processes /\ p \notin Consumers
    BY CheckoutConstants DEF Processes
  <2> QED
    BY <2>2, <2>3, DividedMoves DEF Divided
<1>4. ASSUME NEW p \in Clerks, NEW o \in Orders, NEW st \in Statuses, UpdateOrderStatus(p, o, st)
      PROVE  Divided'
  <2>1. PICK t : t = [at |-> "update", order |-> o, to |-> st]
    OBVIOUS
  <2>2. t.at = "update" /\ task' = [task EXCEPT ![p] = t] /\ UNCHANGED queue
    BY <1>4, <2>1 DEF UpdateOrderStatus, StatusRead, Becomes, brokerVars
  <2>3. p \in Processes /\ p \notin Consumers
    BY CheckoutConstants DEF Processes
  <2> QED
    BY <2>2, <2>3, DividedMoves DEF Divided
<1> QED
  BY <1>1, <1>2, <1>3, <1>4 DEF Request

LEMMA ReceiveDivided ==
    ASSUME OrderTypes, QueueTypes, Divided, NEW p \in Consumers, NEW o \in Orders, ReceivePayment(p, o)
    PROVE  Divided'
<1>1. PICK t : t = [at |-> "update", order |-> o, to |-> "paid"]
  OBVIOUS
<1>2. t.at = "update" /\ t.order = o /\ p \in Processes /\ task' = [task EXCEPT ![p] = t]
  BY <1>1 DEF Processes, ReceivePayment, StatusRead, Becomes
<1>3. queue[o] > 0 /\ queue' = [queue EXCEPT ![o] = queue[o] - 1]
  BY DEF ReceivePayment
<1>4. o \in Payable /\ \A x \in Orders : queue'[x] > 0 => x \in Payable
  BY <1>3 DEF QueueTypes, Divided
<1> QED
  BY <1>2, <1>4, DividedMoves

\* The lists of what is left to settle get shorter.
LEMMA TodoDivided ==
    ASSUME OrderTypes, Divided, NEW p \in Processes, ToSettle(p), UNCHANGED queue,
           task' = [task EXCEPT ![p].todo = Tail(@)]
    PROVE  Divided'
<1>1. task[p].at = "settle" /\ task[p] \in Settling
  BY SettlingTask DEF ToSettle
<1>2. PICK t : t = [task[p] EXCEPT !.todo = Tail(task[p].todo)]
  OBVIOUS
<1>3. t.at = "settle" /\ t.order = task[p].order
  BY <1>1, <1>2 DEF Settling
<1>4. task' = [task EXCEPT ![p] = t]
  BY <1>2
<1>5. Working(p)
  BY <1>1 DEF Working, Idle, Done
<1> QED
  BY <1>3, <1>4, <1>5, DividedMoves DEF Divided

LEMMA RestDivided ==
    ASSUME OrderTypes, Divided, NEW p \in Processes, Becomes(p, Rest(p)),
           \A o \in Orders : queue'[o] > 0 => o \in Payable
    PROVE  Divided'
<1>1. PICK t : t = Rest(p) /\ t \in {Idle, Done}
  BY Rests DEF Rest
<1>2. t.at \in {"idle", "done"}
  BY <1>1 DEF Idle, Done
<1>3. task' = [task EXCEPT ![p] = t]
  BY <1>1 DEF Becomes
<1> QED
  BY <1>1, <1>2, <1>3, DividedMoves

LEMMA WorkDivided ==
    ASSUME OrderTypes, Divided, NEW p \in Processes, Work(p)
    PROVE  Divided'
<1>1. UNCHANGED queue
  BY DEF Work, LockItem, LockRefused, InsertOrder, CancelWrite, StatusWrite, SettleNext, SettleRefused,
     SettleDone, InventoryStep, brokerVars
<1>2. ASSUME NEW l \in Locks, LockItem(p, l) PROVE Divided'
  <2>1. p \in Orders /\ task[p] \in Locking
    BY <1>2, LockingTask DEF LockItem, MoreToLock
  <2>2. PICK t : t = [task[p] EXCEPT !.locks = Append(task[p].locks, l)]
    OBVIOUS
  <2>3. t.at = "lock" /\ task' = [task EXCEPT ![p] = t]
    BY <1>2, <2>1, <2>2 DEF LockItem, Locking
  <2> QED
    BY <1>1, <2>1, <2>3, OwnDivided
<1>3. CASE LockRefused(p)
  <2>1. PICK t : t = SettleTask(p, "release", task[p].locks)
    OBVIOUS
  <2>2. t.at = "settle" /\ p \in Orders /\ task' = [task EXCEPT ![p] = t]
    BY <1>3, <2>1, LockingTask DEF LockRefused, MoreToLock, SettleTask, Becomes
  <2> QED
    BY <1>1, <2>2, OwnDivided
<1>4. CASE InsertOrder(p)
  <2>1. p \in Orders /\ task' = [task EXCEPT ![p] = Done]
    BY <1>4, LockingTask DEF InsertOrder, AllLocked, Becomes
  <2>2. Done.at # "cancel"
    BY DEF Done
  <2> QED
    BY <1>1, <2>1, <2>2, OwnDivided
<1>5. CASE CancelWrite(p) \/ StatusWrite(p)
  <2>1. Working(p)
    BY <1>5 DEF CancelWrite, StatusWrite, Working, Idle, Done
  <2>2. PICK t : /\ task' = [task EXCEPT ![p] = t]
                 /\ t = Idle \/ (t.at = "settle" /\ t.order = task[p].order)
    <3>1. PICK t : /\ task' = [task EXCEPT ![p] = t]
                   /\ \/ t = Idle
                      \/ t = SettleTask(task[p].order, "release", held[task[p].order])
                      \/ t = SettleTask(task[p].order, "deduct", held[task[p].order])
      BY <1>5 DEF CancelWrite, StatusWrite, Becomes
    <3>2. t = Idle \/ (t.at = "settle" /\ t.order = task[p].order)
      BY <3>1 DEF SettleTask
    <3> QED
      BY <3>1, <3>2
  <2>3. Idle.at # "cancel"
    BY DEF Idle
  <2> QED
    BY <1>1, <2>1, <2>2, <2>3, DividedMoves DEF Divided
<1>6. CASE SettleNext(p) \/ SettleRefused(p)
  BY <1>1, <1>6, TodoDivided DEF SettleNext, SettleRefused
<1>7. CASE SettleDone(p)
  BY <1>1, <1>7, RestDivided DEF SettleDone, Divided
<1>8. CASE InventoryStep(p)
  BY <1>1, <1>8 DEF InventoryStep, Divided, Working
<1> QED
  BY <1>2, <1>3, <1>4, <1>5, <1>6, <1>7, <1>8 DEF Work

LEMMA FailureDivided ==
    ASSUME OrderTypes, QueueTypes, Divided, Failure
    PROVE  Divided'
<1>1. ASSUME NEW o \in Orders, UNCHANGED queue, Becomes(o, SettleTask(o, "release", task[o].locks))
      PROVE  Divided'
  <2>1. PICK t : t = SettleTask(o, "release", task[o].locks)
    OBVIOUS
  <2>2. t.at = "settle" /\ task' = [task EXCEPT ![o] = t]
    BY <1>1, <2>1 DEF SettleTask, Becomes
  <2> QED
    BY <1>1, <2>2, OwnDivided
<1>2. ASSUME NEW p \in Processes, Crash(p) PROVE Divided'
  <2>1. CASE p \in Consumers
    <3>1. PICK o \in Orders : o = task[p].order
      BY <1>2, TaskKinds DEF Crash, OrderTypes
    <3>2. o \in Payable /\ queue' = [queue EXCEPT ![o] = queue[o] + 1]
      BY <1>2, <2>1, <3>1 DEF Crash, Divided, Working
    <3>3. \A x \in Orders : queue'[x] > 0 => x \in Payable
      BY <3>2 DEF QueueTypes, Divided
    <3> QED
      BY <1>2, <3>3, RestDivided DEF Crash
  <2>2. CASE p \notin Consumers
    BY <1>2, <2>2, RestDivided DEF Crash, Divided
  <2> QED
    BY <2>1, <2>2
<1>3. ASSUME NEW p \in Processes, CallFails(p) PROVE Divided'
  <2>1. UNCHANGED queue
    BY <1>3 DEF CallFails, brokerVars
  <2>2. CASE MoreToLock(p) /\ Becomes(p, SettleTask(p, "release", task[p].locks))
    BY <1>1, <2>1, <2>2, LockingTask DEF MoreToLock
  <2>3. CASE ToSettle(p) /\ task' = [task EXCEPT ![p].todo = Tail(@)]
    BY <2>1, <2>3, TodoDivided
  <2>4. CASE UNCHANGED task
    BY <2>1, <2>4 DEF Divided, Working
  <2> QED
    BY <1>3, <2>2, <2>3, <2>4 DEF CallFails
<1> QED
  BY <1>1, <1>2, <1>3 DEF Failure, InsertFails, InsertReplyLost, LockReplyLost, brokerVars

\* CancelOrder and the consumer are never at one order together, if there is one
\* process of each and they are asked for different orders.
LEMMA DividedAlone ==
    ASSUME Cancellable \cap Payable = {},
           \A p, q \in Cancels : p = q,
           \A p, q \in Consumers : p = q
    PROVE  Spec => []Alone
<1>1. Init => Divided
  <2> SUFFICES ASSUME Init PROVE Divided
    OBVIOUS
  <2>1. \A p \in Processes : task[p] = Idle /\ task[p].at = "idle"
    BY DEF Init, Idle
  <2> QED
    BY <2>1 DEF Init, Divided, Working, Processes
<1>2. TypeInv /\ Divided /\ [Next]_vars => Divided'
  <2> SUFFICES ASSUME OrderTypes, QueueTypes, Divided, [Next]_vars PROVE Divided'
    BY DEF TypeInv
  <2>1. CASE Next
    BY <2>1, RequestDivided, ReceiveDivided, WorkDivided, FailureDivided DEF Next
  <2>2. CASE UNCHANGED vars
    BY <2>2 DEF vars, brokerVars, Divided, Working
  <2> QED
    BY <2>1, <2>2
<1>3. Divided => Alone
  <2> SUFFICES ASSUME Divided, NEW o \in Orders, NEW p \in Processes, NEW q \in Processes,
                      OnIt(p, o), OnIt(q, o)
               PROVE  p = q
    BY DEF Alone
  <2>1. ASSUME NEW r \in Processes, OnIt(r, o)
        PROVE  (r \in Cancels /\ o \in Cancellable) \/ (r \in Consumers /\ o \in Payable)
    <3>1. task[r].at = "update" => Working(r)
      BY DEF Working, Idle, Done
    <3> QED
      BY <2>1, <3>1 DEF OnIt, Divided
  <2> QED
    BY <2>1
<1> QED
  BY TypeInvariant, <1>1, <1>2, <1>3, PTL DEF Spec

(* With one process that cancels and one consumer, asked for different      *)
(* orders, the shelf covers what is promised to orders, whatever fails:     *)
(* crashed requests, redelivered messages, lost replies and failed calls    *)
(* oversell nothing (CreateOrder, CancelOrder, handlePaymentSuccess).       *)
THEOREM PromisesStayCovered ==
    ASSUME Cancellable \cap Payable = {},
           \A p, q \in Cancels : p = q,
           \A p, q \in Consumers : p = q
    PROVE  Spec => []PromisesCovered
BY DividedAlone, PromisesCoveredWhileAlone, PTL

-----------------------------------------------------------------------------
(* The locks of an order follow its status, while no two of CancelOrder and *)
(* the payment consumer have it between read and write, and                 *)
(* UpdateOrderStatus leaves paying and cancelling to them.                  *)

\* The statuses of an order that was paid.
Sold == {"paid", "completed", "refunding", "refunded"}

\* UpdateOrderStatus pays and cancels nothing by itself.
Routine ==
    \A p \in Clerks : task[p].at = "update" => task[p].to \notin {"paid", "cancelled"}

\* What is known of an order between the read of its status and the write.
Reader(p) ==
    /\ task[p].at = "cancel" => order[task[p].order] = "pending_payment"
    /\ task[p].at = "update" /\ p \in Consumers =>
         order[task[p].order] = "pending_payment" /\ task[p].to = "paid"
    /\ task[p].at = "update" /\ p \notin Consumers =>
         order[task[p].order] \in Sold /\ task[p].to \in Sold \ {"paid"}

\* For whom and how a process settles.
Settler(p, o) ==
    \/ p = o /\ (order[o] = "none" \/ o \in unsure)
    \/ p \in Consumers /\ order[o] \in Sold /\ task[p].op = "deduct"
    \/ order[o] = "cancelled" /\ task[p].op = "release"

Known == \A p \in Processes : Reader(p) /\ (task[p].at = "settle" => Settler(p, task[p].order))

\* The order was paid or cancelled, and CreateOrder knows of it: what each of its
\* locks is to become, by which call, and what excuses one that does not.
Closed(o) == order[o] \in {"paid", "cancelled"} /\ o \notin unsure
EndOf(o) == IF order[o] = "paid" THEN "deducted" ELSE "released"
CallFor(o) == IF order[o] = "paid" THEN "deduct" ELSE "release"
Excused(o) == o \in skipped \/ (IF order[o] = "paid" THEN queue[o] > 0 ELSE faults > 0)

\* The process settles for the order, and has the lock still before it.
AtWork(p, o, l) ==
    task[p].at = "settle" /\ task[p].order = o /\ (Todo(p, l) \/ Calling(p, l))

Followed(o, l) ==
    /\ lock[l].status \in {"locked", EndOf(o)}
    /\ \A p \in Processes : Todo(p, l) => task[p].order = o
    /\ \A p \in Processes : Calling(p, l) => call[p].op = CallFor(o)
    /\ lock[l].status = EndOf(o) \/ Excused(o) \/ \E p \in Processes : AtWork(p, o, l)

AllFollowed == \A o \in Orders, l \in Locks : Closed(o) /\ Owns(o, l) => Followed(o, l)

\* One process moves on, orders are written, and no status is set.
LEMMA KnownStays ==
    ASSUME Stages, Known, NEW p \in Processes, \A q \in Processes \ {p} : task'[q] = task[q],
           OrderTypes, unsure \subseteq unsure',
           \A x \in Orders : order'[x] = order[x] \/ (x = p /\ order[x] = "none"),
           Reader(p)', (task[p].at = "settle" => Settler(p, task[p].order))'
    PROVE  Known'
<1> SUFFICES ASSUME NEW q \in Processes \ {p}
             PROVE  Reader(q)' /\ (task'[q].at = "settle" => Settler(q, task[q].order)')
  BY DEF Known, Settler
<1>1. task'[q] = task[q]
  OBVIOUS
<1>2. CASE task[q].at \in {"cancel", "update"}
  <2>1. task[q].order \in Orders /\ order[task[q].order] # "none"
    BY <1>2, TaskKinds DEF Stages, OrderTypes, Idle, Done
  <2>2. order'[task[q].order] = order[task[q].order]
    BY <2>1
  <2> QED
    BY <1>1, <1>2, <2>2 DEF Known, Reader
<1>3. CASE task[q].at = "settle"
  <2>1. task[q].order \in Orders /\ Settler(q, task[q].order)
    BY <1>3, SettlingTask DEF Known
  <2>2. order'[task[q].order] = order[task[q].order]
    BY <2>1 DEF Settler, Sold
  <2> QED
    BY <1>1, <1>3, <2>1, <2>2 DEF Settler, Reader
<1> QED
  BY <1>1, <1>2, <1>3 DEF Reader

\* What excuses a lock goes on to excuse it.
LEMMA ExcusesStay ==
    ASSUME OrderTypes, QueueTypes, FaultTypes, Next, NEW o \in Orders,
           order[o] \in {"paid", "cancelled"}, order'[o] = order[o], Excused(o)
    PROVE  Excused(o)'
<1>1. ASSUME NEW p \in Processes, Work(p) PROVE UNCHANGED <<queue, skipped, faults>>
  BY <1>1 DEF Work, LockItem, LockRefused, InsertOrder, CancelWrite, StatusWrite, SettleNext,
              SettleRefused, SettleDone, InventoryStep, faultVars, brokerVars
<1>2. ASSUME Request PROVE UNCHANGED <<skipped, faults>> /\ queue'[o] >= queue[o]
  <2>1. ASSUME NEW x \in Orders, PaymentEvent(x) PROVE queue'[o] >= queue[o]
    <3>1. queue' = [queue EXCEPT ![x] = queue[x] + 1]
      BY <2>1 DEF PaymentEvent
    <3> QED
      BY <3>1 DEF QueueTypes
  <2>2. queue \in [Orders -> Nat]
    BY DEF QueueTypes
  <2>3. UNCHANGED <<skipped, faults>>
    BY <1>2 DEF Request, CreateOrder, PaymentEvent, CancelRead, UpdateOrderStatus, faultVars
  <2>4. (\A x \in Orders : ~PaymentEvent(x)) => UNCHANGED queue
    BY <1>2 DEF Request, CreateOrder, CancelRead, UpdateOrderStatus, brokerVars
  <2> QED
    BY <2>1, <2>2, <2>3, <2>4
<1>3. ASSUME NEW p \in Consumers, NEW x \in Orders, ReceivePayment(p, x)
      PROVE  UNCHANGED <<skipped, faults>> /\ queue'[o] = queue[o]
  <2>1. order[x] = "pending_payment" /\ queue' = [queue EXCEPT ![x] = queue[x] - 1]
    BY <1>3 DEF ReceivePayment, StatusRead, isValidTransition, Statuses, validTransitions
  <2> QED
    BY <1>3, <2>1 DEF QueueTypes, ReceivePayment, faultVars
<1>4. ASSUME Failure PROVE skipped \subseteq skipped' /\ faults' = faults + 1 /\ queue'[o] >= queue[o]
  <2>1. ASSUME NEW p \in Processes, Crash(p) PROVE queue'[o] >= queue[o]
    <3>1. PICK x \in Orders : x = task[p].order
      BY <2>1, TaskKinds DEF Crash, OrderTypes
    <3>2. queue' = queue \/ queue' = [queue EXCEPT ![x] = queue[x] + 1]
      BY <2>1, <3>1 DEF Crash
    <3> QED
      BY <3>2 DEF QueueTypes
  <2>2. queue \in [Orders -> Nat]
    BY DEF QueueTypes
  <2>3. faults' = faults + 1 /\ skipped \subseteq skipped'
    BY <1>4 DEF Failure, Crash, CallFails, InsertFails, InsertReplyLost, LockReplyLost, Fault
  <2>4. (\A p \in Processes : ~Crash(p)) => UNCHANGED queue
    BY <1>4 DEF Failure, CallFails, InsertFails, InsertReplyLost, LockReplyLost, brokerVars
  <2> QED
    BY <2>1, <2>2, <2>3, <2>4
<1>5. queue \in [Orders -> Nat] /\ faults \in Nat
  BY DEF QueueTypes, FaultTypes
<1>6. skipped \subseteq skipped' /\ (queue[o] > 0 => queue'[o] > 0) /\ (faults > 0 => faults' > 0)
  <2>1. CASE Request
    <3>1. UNCHANGED <<skipped, faults>> /\ queue'[o] >= queue[o] /\ queue[o] \in Nat
      BY <1>2, <1>5, <2>1
    <3>2. CASE UNCHANGED queue
      BY <3>1, <3>2
    <3>3. CASE \E x \in Orders : PaymentEvent(x)
      <4>1. queue'[o] \in Nat
        BY <1>5, <3>3 DEF PaymentEvent
      <4> QED
        BY <3>1, <4>1
    <3> QED
      BY <2>1, <3>2, <3>3 DEF Request, CreateOrder, CancelRead, UpdateOrderStatus, StatusRead, brokerVars
  <2>2. CASE Failure
    <3>1. skipped \subseteq skipped' /\ faults' = faults + 1 /\ queue'[o] >= queue[o] /\ queue[o] \in Nat
      BY <1>4, <1>5, <2>2
    <3>2. queue'[o] \in Nat
      <4>1. CASE UNCHANGED queue
        BY <1>5, <4>1
      <4>2. ASSUME NEW p \in Processes, Crash(p) PROVE queue'[o] \in Nat
        BY <1>5, <4>2 DEF Crash
      <4> QED
        BY <2>2, <4>1, <4>2 DEF Failure, CallFails, InsertFails, InsertReplyLost, LockReplyLost, brokerVars
    <3>3. PICK a, b, c, d \in Nat : a = queue[o] /\ b = queue'[o] /\ c = faults /\ d = faults'
      BY <1>5, <3>1, <3>2
    <3>4. b >= a /\ d = c + 1
      BY <3>1, <3>3
    <3> QED
      BY <3>1, <3>3, <3>4
  <2> QED
    BY <1>1, <1>3, <2>1, <2>2 DEF Next
<1> QED
  BY <1>6 DEF Excused

\* What has to hold of a step for a lock to follow.
LEMMA FollowStays ==
    ASSUME NEW o \in Orders, NEW l \in Locks, Followed(o, l), order'[o] = order[o],
           \A p \in Processes : Todo(p, l)' => task'[p].order = o,
           \A p \in Processes : Calling(p, l)' => call'[p].op = CallFor(o),
           lock'[l].status \in {lock[l].status, EndOf(o)},
           Excused(o) => Excused(o)',
           \A p \in Processes :
             AtWork(p, o, l) => AtWork(p, o, l)' \/ lock'[l].status = EndOf(o) \/ Excused(o)'
    PROVE  Followed(o, l)'
<1>1. EndOf(o)' = EndOf(o) /\ CallFor(o)' = CallFor(o)
  BY DEF EndOf, CallFor
<1>2. lock'[l].status = EndOf(o) \/ Excused(o)' \/ \E p \in Processes : AtWork(p, o, l)'
  BY DEF Followed
<1>3. lock'[l].status \in {"locked", EndOf(o)}
  BY DEF Followed
<1> QED
  BY <1>1, <1>2, <1>3 DEF Followed

\* One process that settles nothing moves on, and closes no order.
LEMMA FollowMoves ==
    ASSUME Stock!TypeOK, LockInv, AllFollowed, NEW p \in Processes, task[p].at # "settle",
           \A q \in Processes \ {p} : task'[q] = task[q] /\ call'[q] = call[q],
           call'[p] \in Stock!Settling => call'[p] = call[p],
           \A l \in Locks : lock'[l] = lock[l] \/ lock[l].status = "free",
           NEW S, S \subseteq Orders,
           \A x \in S, l \in Locks : Closed(x)' /\ Owns(x, l)' =>
             Closed(x) /\ Owns(x, l) /\ order'[x] = order[x] /\ ~Todo(p, l)',
           \A x \in S : Closed(x) /\ Excused(x) /\ order'[x] = order[x] => Excused(x)'
    PROVE  \A x \in S, l \in Locks : Closed(x)' /\ Owns(x, l)' => Followed(x, l)'
<1> SUFFICES ASSUME NEW x \in S, NEW l \in Locks, Closed(x)', Owns(x, l)'
             PROVE  Followed(x, l)'
  OBVIOUS
<1>1. Closed(x) /\ Owns(x, l) /\ order'[x] = order[x] /\ ~Todo(p, l)' /\ Followed(x, l)
  BY DEF AllFollowed
<1>2. lock'[l] = lock[l]
  BY <1>1 DEF LockInv, Drawn
<1>3. \A q \in Processes : Todo(q, l)' => task'[q].order = x
  BY <1>1 DEF Followed, Todo
<1>4. \A q \in Processes : Calling(q, l)' => call'[q].op = CallFor(x)
  <2> SUFFICES ASSUME NEW q \in Processes, Calling(q, l)' PROVE call'[q].op = CallFor(x)
    OBVIOUS
  <2>1. call'[q] = call[q]
    BY DEF Calling, Stock!Settling
  <2> QED
    BY <1>1, <2>1 DEF Followed, Calling, Stock!Settling
<1>5. \A q \in Processes : AtWork(q, x, l) => AtWork(q, x, l)'
  <2> SUFFICES ASSUME NEW q \in Processes \ {p}, AtWork(q, x, l) PROVE AtWork(q, x, l)'
    BY DEF AtWork
  <2> QED
    BY DEF AtWork, Todo, Calling, Stock!Settling
<1> QED
  BY <1>1, <1>2, <1>3, <1>4, <1>5, FollowStays

\* A request moves its own order on, up to the INSERT.
LEMMA OwnFollows ==
    ASSUME TypeInv, Stages, LockInv, Known, AllFollowed, Next,
           NEW o \in Orders, task[o].at \in {"idle", "lock"},
           NEW t, task' = [task EXCEPT ![o] = t], t.at \notin {"cancel", "update"},
           t.at = "settle" => t.order = o /\ t.todo = Own(o) /\ (order'[o] = "none" \/ o \in unsure'),
           order'[o] \in {"none", "pending_payment"},
           \A x \in Orders \ {o} : order'[x] = order[x] /\ held'[x] = held[x],
           unsure \subseteq unsure',
           \A q \in Processes \ {o} : call'[q] = call[q],
           call'[o] \in Stock!Settling => call'[o] = call[o],
           \A l \in Locks : lock'[l] = lock[l] \/ lock[l].status = "free"
    PROVE  Known' /\ AllFollowed'
<1>1. o \in Processes /\ order[o] = "none" /\ task[o].at # "settle"
  BY DEF Processes, Stages
<1>2. OrderTypes /\ QueueTypes /\ FaultTypes /\ Stock!TypeOK
  BY DEF TypeInv, Stock!TypeInv
<1>3. task'[o] = t /\ \A q \in Processes \ {o} : task'[q] = task[q]
  BY <1>1, <1>2, Others
<1>4. Known'
  <2>1. Reader(o)'
    BY <1>3 DEF Reader
  <2>2. task'[o].at = "settle" => Settler(o, task[o].order)'
    BY <1>3 DEF Settler
  <2>3. \A x \in Orders : order'[x] = order[x] \/ (x = o /\ order[x] = "none")
    BY <1>1
  <2> QED
    BY <1>1, <1>2, <1>3, <2>1, <2>2, <2>3, KnownStays
<1>5. ASSUME NEW x \in Orders, NEW l \in Locks, Closed(x)', Owns(x, l)'
      PROVE  Closed(x) /\ Owns(x, l) /\ order'[x] = order[x] /\ ~Todo(o, l)'
  <2>1. x # o /\ order'[x] = order[x]
    BY <1>5 DEF Closed
  <2>2. Closed(x) /\ Owns(x, l)
    BY <1>3, <1>5, <2>1 DEF Closed, Owns, Own, Processes
  <2>3. Todo(o, l)' => Owns(o, l)
    BY <1>3 DEF Todo, Owns
  <2> QED
    BY <2>1, <2>2, <2>3 DEF LockInv, Apart
<1>6. \A x \in Orders : Closed(x) /\ Excused(x) /\ order'[x] = order[x] => Excused(x)'
  BY <1>2, ExcusesStay DEF Closed
<1>7. \A x \in Orders, l \in Locks : Closed(x)' /\ Owns(x, l)' => Followed(x, l)'
  BY <1>1, <1>2, <1>3, <1>5, <1>6, FollowMoves
<1> QED
  BY <1>4, <1>7 DEF AllFollowed

LEMMA GiveBackFollows ==
    ASSUME TypeInv, Stages, LockInv, Known, AllFollowed, Next,
           NEW o \in Orders, task[o].at = "lock",
           Becomes(o, SettleTask(o, "release", task[o].locks)),
           UNCHANGED <<order, held, unsure>>,
           \A q \in Processes \ {o} : call'[q] = call[q],
           call'[o] \in Stock!Settling => call'[o] = call[o],
           \A l \in Locks : lock'[l] = lock[l] \/ lock[l].status = "free"
    PROVE  Known' /\ AllFollowed'
<1>1. PICK t : t = SettleTask(o, "release", task[o].locks)
  OBVIOUS
<1>2. t.at = "settle" /\ t.order = o /\ t.todo = Own(o)
  BY <1>1 DEF SettleTask, Own
<1>3. order[o] = "none"
  BY DEF Stages
<1> QED
  BY <1>1, <1>2, <1>3, OwnFollows DEF Becomes

\* LockStock changes the call of the request, and a lock nobody had.
LEMMA DrawsAlone ==
    ASSUME Stock!TypeOK, NEW p \in Processes, NEW b, NEW k \in Locks, NEW q, Inv!LockStock(p, b, k, q)
    PROVE  /\ \A l \in Locks : lock'[l] = lock[l] \/ lock[l].status = "free"
           /\ \A r \in Processes \ {p} : call'[r] = call[r]
           /\ call'[p] \in Stock!Settling => call'[p] = call[p]
<1>1. call' = [call EXCEPT ![p] = [op |-> "invalidate", book |-> b]]
  BY DEF Inv!LockStock
<1> QED
  BY <1>1, Draws DEF Stock!TypeOK

LEMMA RequestsFollow ==
    ASSUME TypeInv, Stages, LockInv, Known, AllFollowed, Next, NEW o \in Orders,
           \/ CreateOrder(o) \/ LockRefused(o) \/ InsertOrder(o) \/ InsertFails(o) \/ InsertReplyLost(o)
           \/ \E l \in Locks : LockItem(o, l) \/ LockReplyLost(o, l)
           \/ /\ MoreToLock(o) /\ CallFails(o) /\ UNCHANGED inventoryVars
              /\ Becomes(o, SettleTask(o, "release", task[o].locks))
    PROVE  Known' /\ AllFollowed'
<1>1. o \in Processes /\ OrderTypes /\ Stock!TypeOK
  BY DEF Processes, TypeInv, Stock!TypeInv
<1>2. CASE CreateOrder(o)
  <2>1. PICK t : t = [at |-> "lock", order |-> o, locks |-> <<>>]
    OBVIOUS
  <2>2. t.at = "lock" /\ task' = [task EXCEPT ![o] = t] /\ task[o].at = "idle"
    BY <1>2, <2>1 DEF CreateOrder, Becomes, Idle
  <2>3. UNCHANGED <<order, held, unsure, call, lock>>
    BY <1>2 DEF CreateOrder, inventoryVars, orderVars, faultVars
  <2>4. order'[o] = "none"
    BY <2>2, <2>3 DEF Stages
  <2> QED
    BY <2>2, <2>3, <2>4, OwnFollows
<1>3. CASE LockRefused(o)
  BY <1>3, GiveBackFollows DEF LockRefused, MoreToLock, inventoryVars, orderVars, faultVars
<1>4. CASE InsertFails(o)
  BY <1>4, GiveBackFollows DEF InsertFails, AllLocked, inventoryVars, orderVars
<1>5. CASE /\ MoreToLock(o) /\ CallFails(o) /\ UNCHANGED inventoryVars
           /\ Becomes(o, SettleTask(o, "release", task[o].locks))
  BY <1>5, GiveBackFollows DEF CallFails, MoreToLock, inventoryVars, orderVars
<1>6. ASSUME NEW l \in Locks, LockReplyLost(o, l) PROVE Known' /\ AllFollowed'
  <2>1. PICK b, q : Inv!LockStock(o, b, l, q)
    BY <1>6 DEF LockReplyLost
  <2> QED
    BY <1>1, <1>6, <2>1, DrawsAlone, GiveBackFollows DEF LockReplyLost, MoreToLock, orderVars
<1>7. ASSUME NEW l \in Locks, LockItem(o, l) PROVE Known' /\ AllFollowed'
  <2>1. PICK b, q : Inv!LockStock(o, b, l, q)
    BY <1>7 DEF LockItem
  <2>2. PICK t : t = [task[o] EXCEPT !.locks = Append(task[o].locks, l)]
    OBVIOUS
  <2>3. t.at = "lock" /\ task' = [task EXCEPT ![o] = t] /\ task[o].at = "lock"
    BY <1>1, <1>7, <2>2, LockingTask DEF LockItem, MoreToLock, Locking
  <2>4. UNCHANGED <<order, held, unsure>>
    BY <1>7 DEF LockItem, orderVars, faultVars
  <2>5. order'[o] = "none"
    BY <2>3, <2>4 DEF Stages
  <2> QED
    BY <1>1, <2>1, <2>3, <2>4, <2>5, DrawsAlone, OwnFollows
<1>8. CASE InsertOrder(o) \/ InsertReplyLost(o)
  <2>1. task[o].at = "lock" /\ order' = [order EXCEPT ![o] = "pending_payment"]
    BY <1>8 DEF InsertOrder, InsertReplyLost, AllLocked
  <2>2. held' = [held EXCEPT ![o] = task[o].locks] /\ UNCHANGED <<call, lock>>
    BY <1>8 DEF InsertOrder, InsertReplyLost, inventoryVars
  <2>3. /\ order'[o] = "pending_payment"
        /\ \A x \in Orders \ {o} : order'[x] = order[x] /\ held'[x] = held[x]
    BY <1>1, <2>1, <2>2 DEF OrderTypes
  <2>4. CASE InsertOrder(o)
    <3>1. Done.at = "done"
      BY DEF Done
    <3>2. PICK t : t = Done /\ t.at = "done"
      BY <3>1
    <3> QED
      BY <2>1, <2>2, <2>3, <2>4, <3>2, OwnFollows DEF InsertOrder, Becomes, faultVars
  <2>5. CASE InsertReplyLost(o)
    <3>1. PICK t : t = SettleTask(o, "release", task[o].locks)
      OBVIOUS
    <3>2. t.at = "settle" /\ t.order = o /\ t.todo = Own(o)
      BY <2>1, <3>1 DEF SettleTask, Own
    <3>3. o \in unsure' /\ unsure \subseteq unsure'
      BY <2>5 DEF InsertReplyLost
    <3> QED
      BY <2>1, <2>2, <2>3, <2>5, <3>1, <3>2, <3>3, OwnFollows DEF InsertReplyLost, Becomes
  <2> QED
    BY <1>8, <2>4, <2>5
<1> QED
  BY <1>2, <1>3, <1>4, <1>5, <1>6, <1>7, <1>8

\* A status is read.
LEMMA ReadFollows ==
    ASSUME TypeInv, Stages, LockInv, Known, AllFollowed, Next,
           NEW p \in Processes, task[p] = Idle, NEW t, t.at \in {"cancel", "update"},
           Becomes(p, t), UNCHANGED <<inventoryVars, orderVars, unsure>>, Reader(p)'
    PROVE  Known' /\ AllFollowed'
<1>1. OrderTypes /\ QueueTypes /\ FaultTypes /\ Stock!TypeOK
  BY DEF TypeInv, Stock!TypeInv
<1>2. task'[p] = t /\ \A q \in Processes \ {p} : task'[q] = task[q]
  BY <1>1, Others DEF Becomes
<1>3. task[p].at = "idle" /\ UNCHANGED <<order, held, call, lock>>
  BY DEF Idle, inventoryVars, orderVars
<1>4. Known'
  BY <1>1, <1>2, <1>3, KnownStays
<1>5. \A x \in Orders, l \in Locks : Closed(x)' /\ Owns(x, l)' =>
        Closed(x) /\ Owns(x, l) /\ order'[x] = order[x] /\ ~Todo(p, l)'
  BY <1>2, <1>3 DEF Closed, Owns, Own, Todo, Processes
<1>6. \A x \in Orders : Closed(x) /\ Excused(x) /\ order'[x] = order[x] => Excused(x)'
  BY <1>1, ExcusesStay DEF Closed
<1>7. \A x \in Orders, l \in Locks : Closed(x)' /\ Owns(x, l)' => Followed(x, l)'
  BY <1>1, <1>2, <1>3, <1>5, <1>6, FollowMoves
<1> QED
  BY <1>4, <1>7 DEF AllFollowed

\* A status is written: by UpdateOrderStatus to a paid order, or by who then
\* settles all locks of the order.
LEMMA ClerkFollows ==
    ASSUME TypeInv, Stages, LockInv, Known, AllFollowed, Next,
           NEW p \in Processes, p \notin Consumers, StatusWrite(p)
    PROVE  Known' /\ AllFollowed'
<1>1. OrderTypes /\ QueueTypes /\ FaultTypes /\ Stock!TypeOK
  BY DEF TypeInv, Stock!TypeInv
<1>2. PICK o \in Orders : o = task[p].order
  BY <1>1, TaskKinds DEF StatusWrite, OrderTypes, Idle, Done
<1>3. task[p].at = "update" /\ order[o] \in Sold /\ task[p].to \in Sold \ {"paid"}
  BY <1>2 DEF StatusWrite, Known, Reader
<1>4. order'[o] = task[p].to /\ \A x \in Orders \ {o} : order'[x] = order[x]
  BY <1>1, <1>2 DEF StatusWrite, OrderTypes
<1>5. task'[p] = Idle /\ \A q \in Processes \ {p} : task'[q] = task[q]
  BY <1>1, Others DEF StatusWrite, Becomes
<1>6. UNCHANGED <<held, call, lock, unsure>> /\ Idle.at = "idle"
  BY DEF StatusWrite, inventoryVars, faultVars, Idle
<1>7. ASSUME NEW q \in Processes
      PROVE  Reader(q)' /\ (task'[q].at = "settle" => Settler(q, task[q].order)')
  <2>1. CASE q = p
    BY <1>5, <1>6, <2>1 DEF Reader
  <2>2. CASE q # p /\ task[q].at \in {"cancel", "update"}
    <3>1. task[q].order \in Orders
      BY <1>1, <2>2, TaskKinds DEF OrderTypes, Idle, Done
    <3>2. Reader(q) /\ order[task[q].order] # "none"
      BY <2>2 DEF Known, Stages
    <3>3. CASE task[q].order # o
      BY <1>4, <1>5, <2>2, <3>1, <3>2, <3>3 DEF Reader
    <3>4. CASE task[q].order = o
      BY <1>3, <1>4, <1>5, <2>2, <3>2, <3>4 DEF Reader, Sold
    <3> QED
      BY <3>3, <3>4
  <2>3. CASE q # p /\ task[q].at = "settle"
    <3>1. Settler(q, task[q].order) /\ task[q].order \in Orders
      BY <1>1, <2>3, SettlingTask DEF Known
    <3>2. CASE task[q].order # o
      BY <1>4, <1>5, <1>6, <2>3, <3>1, <3>2 DEF Reader, Settler
    <3>3. CASE task[q].order = o
      BY <1>3, <1>4, <1>5, <1>6, <2>3, <3>1, <3>3 DEF Reader, Settler, Sold
    <3> QED
      BY <3>2, <3>3
  <2> QED
    BY <1>5, <2>1, <2>2, <2>3 DEF Reader
<1>8. \A x \in Orders, l \in Locks : Closed(x)' /\ Owns(x, l)' =>
        Closed(x) /\ Owns(x, l) /\ order'[x] = order[x] /\ ~Todo(p, l)'
  <2> SUFFICES ASSUME NEW x \in Orders, NEW l \in Locks, Closed(x)', Owns(x, l)'
               PROVE  Closed(x) /\ Owns(x, l) /\ order'[x] = order[x] /\ ~Todo(p, l)'
    OBVIOUS
  <2>1. x # o
    BY <1>3, <1>4 DEF Closed, Sold
  <2>2. order'[x] = order[x] /\ Closed(x)
    BY <1>4, <1>6, <2>1 DEF Closed
  <2>3. Own(x)' = Own(x)
    BY <1>3, <1>5, <1>6 DEF Own, Processes
  <2> QED
    BY <1>5, <1>6, <2>2, <2>3 DEF Owns, Todo
<1>9. \A x \in Orders : Closed(x) /\ Excused(x) /\ order'[x] = order[x] => Excused(x)'
  BY <1>1, ExcusesStay DEF Closed
<1>10. \A x \in Orders, l \in Locks : Closed(x)' /\ Owns(x, l)' => Followed(x, l)'
  BY <1>1, <1>3, <1>5, <1>6, <1>8, <1>9, FollowMoves
<1> QED
  BY <1>7, <1>10 DEF Known, AllFollowed

LEMMA WriteFollows ==
    ASSUME TypeInv, Stages, LockInv, Known, Alone, AllFollowed, Next,
           NEW p \in Processes, CancelWrite(p) \/ (p \in Consumers /\ StatusWrite(p))
    PROVE  Known' /\ AllFollowed'
<1>1. OrderTypes /\ QueueTypes /\ FaultTypes /\ Stock!TypeOK
  BY DEF TypeInv, Stock!TypeInv
<1>2. PICK o \in Orders : o = task[p].order
  BY <1>1, TaskKinds DEF CancelWrite, StatusWrite, OrderTypes, Idle, Done
<1>3. task[p].at \in {"cancel", "update"} /\ order[o] = "pending_payment" /\ OnIt(p, o)
  BY <1>2 DEF CancelWrite, StatusWrite, Known, Reader, OnIt
<1>4. PICK to, op :
        /\ (p \in Consumers /\ to = "paid" /\ op = "deduct") \/ (to = "cancelled" /\ op = "release")
        /\ order' = [order EXCEPT ![o] = to]
        /\ Becomes(p, SettleTask(o, op, held[o]))
  <2>1. CASE CancelWrite(p)
    BY <1>2, <2>1 DEF CancelWrite
  <2>2. CASE p \in Consumers /\ StatusWrite(p)
    BY <1>2, <2>2 DEF StatusWrite, Known, Reader
  <2> QED
    BY <2>1, <2>2
<1>5. order'[o] = to /\ \A x \in Orders \ {o} : order'[x] = order[x]
  BY <1>1, <1>4 DEF OrderTypes
<1>6. PICK t : t = SettleTask(o, op, held[o])
  OBVIOUS
<1>7. t.at = "settle" /\ t.order = o /\ t.op = op /\ t.todo = held[o]
  BY <1>6 DEF SettleTask
<1>8. task'[p] = t /\ \A q \in Processes \ {p} : task'[q] = task[q]
  BY <1>1, <1>4, <1>6, Others DEF Becomes
<1>9. UNCHANGED <<held, call, lock, unsure>>
  BY DEF CancelWrite, StatusWrite, inventoryVars, faultVars
<1>10. \A x \in Orders : Own(x)' = Own(x)
  BY <1>3, <1>7, <1>8, <1>9 DEF Own, Processes
<1>11. Own(o) = held[o]
  BY <1>3 DEF Own, Stages
<1>12. ASSUME NEW q \in Processes
       PROVE  Reader(q)' /\ (task'[q].at = "settle" => Settler(q, task[q].order)')
  <2>1. CASE q = p
    BY <1>4, <1>5, <1>7, <1>8, <2>1 DEF Reader, Settler, Sold
  <2>2. CASE q # p /\ task[q].at \in {"cancel", "update"}
    <3>1. task[q].order \in Orders /\ Reader(q)
      BY <1>1, <2>2, TaskKinds DEF OrderTypes, Idle, Done, Known
    <3>2. task[q].order # o
      BY <1>3, <2>2, <3>1 DEF Alone, OnIt, Reader, Sold
    <3> QED
      BY <1>5, <1>8, <2>2, <3>1, <3>2 DEF Reader
  <2>3. CASE q # p /\ task[q].at = "settle"
    <3>1. Settler(q, task[q].order) /\ task[q].order \in Orders
      BY <1>1, <2>3, SettlingTask DEF Known
    <3>2. CASE task[q].order # o
      BY <1>5, <1>8, <1>9, <2>3, <3>1, <3>2 DEF Reader, Settler
    <3>3. CASE task[q].order = o
      BY <1>3, <1>8, <1>9, <2>3, <3>1, <3>3 DEF Reader, Settler, Sold
    <3> QED
      BY <3>2, <3>3
  <2> QED
    BY <1>8, <2>1, <2>2, <2>3 DEF Reader
<1>13. ASSUME NEW l \in Locks, Closed(o)', Owns(o, l)' PROVE Followed(o, l)'
  <2>1. Owns(o, l) /\ Waiting(o)
    BY <1>3, <1>9, <1>10, <1>13 DEF Owns, Waiting, Closed
  <2>2. ~Doomed(l) /\ lock[l].status = "locked"
    <3>1. PICK i \in DOMAIN Own(o) : Own(o)[i] = l
      BY <2>1 DEF Owns
    <3>2. ~Doomed(l) /\ Reserves(l, Items[o][i])
      BY <2>1, <3>1 DEF Live, LockInv, Kept
    <3> QED
      BY <3>2 DEF Reserves
  <2>3. Todo(p, l)'
    BY <1>7, <1>8, <1>11, <2>1 DEF Todo, Owns
  <2>4. \A q \in Processes : Todo(q, l)' => task'[q].order = o
    BY <1>7, <1>8, <2>2, DoomedIs DEF Todo
  <2>5. \A q \in Processes : ~Calling(q, l)'
    BY <1>9, <2>2, DoomedIs DEF Calling, Stock!Settling
  <2>6. AtWork(p, o, l)'
    BY <1>7, <1>8, <2>3 DEF AtWork
  <2> QED
    BY <1>9, <2>2, <2>4, <2>5, <2>6 DEF Followed
<1>14. \A x \in Orders \ {o}, l \in Locks : Closed(x)' /\ Owns(x, l)' =>
         Closed(x) /\ Owns(x, l) /\ order'[x] = order[x] /\ ~Todo(p, l)'
  <2> SUFFICES ASSUME NEW x \in Orders \ {o}, NEW l \in Locks, Closed(x)', Owns(x, l)'
               PROVE  Closed(x) /\ Owns(x, l) /\ order'[x] = order[x] /\ ~Todo(p, l)'
    OBVIOUS
  <2>1. order'[x] = order[x] /\ Closed(x) /\ Owns(x, l)
    BY <1>5, <1>9, <1>10 DEF Closed, Owns
  <2>2. Todo(p, l)' => Owns(o, l)
    BY <1>7, <1>8, <1>11 DEF Todo, Owns
  <2> QED
    BY <2>1, <2>2 DEF LockInv, Apart
<1>15. \A x \in Orders \ {o} : Closed(x) /\ Excused(x) /\ order'[x] = order[x] => Excused(x)'
  BY <1>1, ExcusesStay DEF Closed
<1>16. \A x \in Orders \ {o}, l \in Locks : Closed(x)' /\ Owns(x, l)' => Followed(x, l)'
  BY <1>1, <1>3, <1>8, <1>9, <1>14, <1>15, FollowMoves
<1> QED
  BY <1>12, <1>13, <1>16 DEF Known, AllFollowed

\* The inventory goes on: a lock that is settled becomes what its call says.
LEMMA SettlesAs ==
    ASSUME Stock!TypeOK, NEW p \in Processes, Inv!Progress(p) \/ Inv!Abort(p), NEW l \in Locks
    PROVE  /\ \/ lock'[l] = lock[l]
              \/ /\ Calling(p, l)
                 /\ call[p].op = "release" => lock'[l].status = "released"
                 /\ call[p].op = "deduct" => lock'[l].status = "deducted"
           /\ Calling(p, l) => lock'[l].status \in {"released", "deducted"} \/ Inv!Abort(p)
           /\ ~Calling(p, l)'
           /\ \A q \in Processes \ {p} : call'[q] = call[q]
<1>1. CASE Inv!CommitRelease(p) \/ Inv!CommitDeduct(p)
  <2>1. call[p].op \in {"release", "deduct"}
    BY <1>1 DEF Inv!CommitRelease, Inv!CommitDeduct
  <2>2. call[p] \in Stock!Settling
    BY <2>1 DEF Stock!TypeOK, Stock!Idle, Stock!Settling, Stock!Creating,
                Stock!Invalidating, Stock!Filling
  <2>3. PICK k \in Locks : k = call[p].lock
    BY <2>2 DEF Stock!Settling
  <2>4. PICK st \in {"released", "deducted"} :
            /\ lock' = [lock EXCEPT ![k].status = st]
            /\ call[p].op = "release" => st = "released"
            /\ call[p].op = "deduct" => st = "deducted"
    BY <1>1, <2>3 DEF Inv!CommitRelease, Inv!CommitDeduct
  <2>5. lock'[k].status = st /\ \A m \in Locks \ {k} : lock'[m] = lock[m]
    <3>1. lock[k] \in Stock!LockRecord
      BY DEF Stock!TypeOK
    <3>2. [lock[k] EXCEPT !.status = st].status = st
      BY <3>1 DEF Stock!LockRecord
    <3> QED
      BY <2>4, <3>2 DEF Stock!TypeOK
  <2>6. PICK b : call' = [call EXCEPT ![p] = [op |-> "invalidate", book |-> b]]
    BY <1>1 DEF Inv!CommitRelease, Inv!CommitDeduct
  <2>7. call'[p].op = "invalidate" /\ \A q \in Processes \ {p} : call'[q] = call[q]
    BY <2>6 DEF Stock!TypeOK
  <2>8. ~Calling(p, l)'
    BY <2>7 DEF Calling, Stock!Settling
  <2>9. Calling(p, l) <=> l = k
    BY <2>2, <2>3 DEF Calling
  <2> QED
    BY <2>4, <2>5, <2>7, <2>8, <2>9
<1>2. ~Inv!CreateRow(p)
  <2>1. call[p].op = "create" => call[p] \in [op: {"create"}, book: Books, quantity: {}]
    BY DEF Stock!TypeOK, Stock!Idle, Stock!Settling, Stock!Creating, Stock!Invalidating, Stock!Filling
  <2> QED
    BY <2>1 DEF Inv!CreateRow
<1>3. CASE Inv!InvalidateCache(p) \/ Inv!CacheStock(p) \/ Inv!Abort(p)
  <2>1. call' = [call EXCEPT ![p] = Inv!Idle] /\ UNCHANGED lock
    BY <1>3 DEF Inv!InvalidateCache, Inv!CacheStock, Inv!Abort
  <2>2. call'[p] = Inv!Idle /\ \A q \in Processes \ {p} : call'[q] = call[q]
    BY <2>1 DEF Stock!TypeOK
  <2>3. ~Calling(p, l)'
    BY <2>2 DEF Inv!Idle, Calling, Stock!Settling
  <2>4. Inv!InvalidateCache(p) \/ Inv!CacheStock(p) => ~Calling(p, l)
    BY DEF Inv!InvalidateCache, Inv!CacheStock, Calling, Stock!Settling
  <2> QED
    BY <1>3, <2>1, <2>2, <2>3, <2>4
<1> QED
  BY <1>1, <1>2, <1>3 DEF Inv!Progress

LEMMA InventoryFollows ==
    ASSUME TypeInv, LockInv, Known, AllFollowed, Next, NEW p \in Processes,
           \/ InventoryStep(p)
           \/ CallFails(p) /\ Inv!Abort(p) /\ UNCHANGED task
    PROVE  Known' /\ AllFollowed'
<1>1. OrderTypes /\ QueueTypes /\ FaultTypes /\ Stock!TypeOK
  BY DEF TypeInv, Stock!TypeInv
<1>2. UNCHANGED <<task, order, held, unsure>> /\ (Inv!Progress(p) \/ Inv!Abort(p))
  BY DEF InventoryStep, CallFails, orderVars, faultVars
<1>3. Known'
  BY <1>2 DEF Known, Reader, Settler
<1>4. ASSUME NEW o \in Orders, NEW l \in Locks, Closed(o)', Owns(o, l)' PROVE Followed(o, l)'
  <2>1. Closed(o) /\ Owns(o, l) /\ Followed(o, l)
    BY <1>2, <1>4 DEF AllFollowed, Closed, Owns, Own
  <2>2. Excused(o) => Excused(o)'
    BY <1>1, <1>2, <2>1, ExcusesStay DEF Closed
  <2>3. \A q \in Processes : Todo(q, l)' <=> Todo(q, l)
    BY <1>2 DEF Todo
  <2>4. \A q \in Processes : Calling(q, l)' => Calling(q, l) /\ call'[q] = call[q]
    BY <1>1, <1>2, SettlesAs DEF Calling, Stock!Settling
  <2>5. \A q \in Processes \ {p} : Calling(q, l) => Calling(q, l)'
    BY <1>1, <1>2, SettlesAs DEF Calling, Stock!Settling
  <2>6. Calling(p, l) => call[p].op = CallFor(o)
    BY <2>1 DEF Followed
  <2>7. lock'[l].status \in {lock[l].status, EndOf(o)}
    BY <1>1, <1>2, <2>6, SettlesAs DEF CallFor, EndOf
  <2>8. Calling(p, l) /\ Inv!Progress(p) /\ ~Inv!Abort(p) => lock'[l].status = EndOf(o)
    <3> SUFFICES ASSUME Calling(p, l), Inv!Progress(p), ~Inv!Abort(p) PROVE lock'[l].status = EndOf(o)
      OBVIOUS
    <3>1. lock'[l].status \in {"released", "deducted"}
      BY <1>1, SettlesAs
    <3>2. CASE lock'[l] = lock[l]
      BY <2>1, <3>1, <3>2 DEF Followed
    <3>3. CASE lock'[l] # lock[l]
      BY <1>1, <2>6, <3>3, SettlesAs DEF CallFor, EndOf
    <3> QED
      BY <3>2, <3>3
  <2>9. ASSUME AtWork(p, o, l), Calling(p, l), Inv!Abort(p), CallFails(p) PROVE Excused(o)'
    <3>1. task[p] \in Settling /\ task[p].order = o
      BY <1>1, <2>9, SettlingTask DEF AtWork
    <3>2. o \in skipped'
      BY <2>9, <3>1 DEF CallFails
    <3> QED
      BY <3>2 DEF Excused
  <2>10. Inv!Abort(p) /\ Calling(p, l) => ~Inv!Progress(p)
    <3> SUFFICES ASSUME Inv!Abort(p), Calling(p, l), Inv!Progress(p) PROVE FALSE
      OBVIOUS
    <3>1. call'[p] = Inv!Idle /\ call[p].op \in {"release", "deduct"}
      BY <1>1 DEF Inv!Abort, Calling, Stock!Settling, Stock!TypeOK
    <3>2. Inv!CommitRelease(p) \/ Inv!CommitDeduct(p)
      BY <3>1 DEF Inv!Progress, Inv!CreateRow, Inv!InvalidateCache, Inv!CacheStock
    <3>3. PICK b : call' = [call EXCEPT ![p] = [op |-> "invalidate", book |-> b]]
      BY <3>2 DEF Inv!CommitRelease, Inv!CommitDeduct
    <3>4. call'[p].op = "invalidate"
      BY <1>1, <3>3 DEF Stock!TypeOK
    <3> QED
      BY <3>1, <3>4 DEF Inv!Idle
  <2>11. \A q \in Processes :
           AtWork(q, o, l) => AtWork(q, o, l)' \/ lock'[l].status = EndOf(o) \/ Excused(o)'
    <3> SUFFICES ASSUME NEW q \in Processes, AtWork(q, o, l)
                 PROVE  AtWork(q, o, l)' \/ lock'[l].status = EndOf(o) \/ Excused(o)'
      OBVIOUS
    <3>1. CASE Todo(q, l) \/ (Calling(q, l) /\ q # p)
      BY <1>2, <2>3, <2>5, <3>1 DEF AtWork
    <3>2. CASE Calling(q, l) /\ q = p
      BY <2>8, <2>9, <2>10, <3>2 DEF InventoryStep
    <3> QED
      BY <3>1, <3>2 DEF AtWork
  <2>12. \A q \in Processes : Todo(q, l)' => task'[q].order = o
    BY <1>2, <2>1, <2>3 DEF Followed
  <2>13. \A q \in Processes : Calling(q, l)' => call'[q].op = CallFor(o)
    BY <2>1, <2>4 DEF Followed
  <2> QED
    BY <1>2, <2>1, <2>2, <2>7, <2>11, <2>12, <2>13, FollowStays
<1> QED
  BY <1>3, <1>4 DEF AllFollowed

\* The next lock of the list: it is called for, was settled already, or is passed
\* over.
LEMMA NextFollows ==
    ASSUME TypeInv, LockInv, Known, AllFollowed, Next, NEW p \in Processes, ToSettle(p),
           task' = [task EXCEPT ![p].todo = Tail(@)], UNCHANGED <<order, held, unsure, lock>>,
           \A q \in Processes \ {p} : call'[q] = call[q],
           \/ call'[p] = [op |-> task[p].op, lock |-> Head(task[p].todo)]
           \/ call'[p] = call[p] /\ lock[Head(task[p].todo)].status # "locked"
           \/ call'[p] = call[p] /\ task[p].order \in skipped'
    PROVE  Known' /\ AllFollowed'
<1>1. OrderTypes /\ QueueTypes /\ FaultTypes /\ Stock!TypeOK
  BY DEF TypeInv, Stock!TypeInv
<1>2. task[p].at = "settle" /\ task[p] \in Settling
  BY <1>1, SettlingTask DEF ToSettle
<1>3. PICK s \in Seq(Locks) : s = task[p].todo /\ s # <<>>
  BY <1>1, <1>2, SettlingTask DEF ToSettle
<1>4. PICK t : t = [task[p] EXCEPT !.todo = Tail(s)]
  OBVIOUS
<1>5. t.at = "settle" /\ t.todo = Tail(s) /\ t.order = task[p].order /\ t.op = task[p].op
  BY <1>2, <1>4 DEF Settling
<1>6. task'[p] = t /\ \A q \in Processes \ {p} : task'[q] = task[q]
  BY <1>1, <1>3, <1>4, Others
<1>7. Known'
  BY <1>2, <1>5, <1>6 DEF Known, Reader, Settler
<1>8. Head(s) \in Locks /\ (\E i \in DOMAIN s : s[i] = Head(s))
  BY <1>3, LenProperties, HeadTailProperties, EmptySeq, ElementOfSeq
<1>9. /\ \A k \in Locks : (\E i \in DOMAIN Tail(s) : Tail(s)[i] = k) => \E i \in DOMAIN s : s[i] = k
      /\ \A k \in Locks : (\E i \in DOMAIN s : s[i] = k) =>
           k = Head(s) \/ \E i \in DOMAIN Tail(s) : Tail(s)[i] = k
  <2>1. /\ Len(s) \in Nat /\ DOMAIN s = 1 .. Len(s) /\ Len(s) > 0
        /\ Head(s) = s[1]
        /\ Tail(s) \in Seq(Locks) /\ Len(Tail(s)) = Len(s) - 1
        /\ \A i \in 1 .. Len(Tail(s)) : Tail(s)[i] = s[i + 1]
    BY <1>3, LenProperties, HeadTailProperties, EmptySeq
  <2>2. DOMAIN Tail(s) = 1 .. Len(Tail(s))
    BY <2>1, LenProperties
  <2>3. PICK m \in Nat : Len(Tail(s)) = m /\ Len(s) = m + 1
    BY <2>1
  <2>4. DOMAIN s = 1 .. m + 1 /\ DOMAIN Tail(s) = 1 .. m /\ \A i \in 1 .. m : Tail(s)[i] = s[i + 1]
    BY <2>1, <2>2, <2>3
  <2>5. \A i \in 1 .. m : i + 1 \in 1 .. m + 1
    OBVIOUS
  <2>6. \A i \in 1 .. m + 1 : i # 1 => i - 1 \in 1 .. m /\ i = (i - 1) + 1
    OBVIOUS
  <2>7. ASSUME NEW k \in Locks, NEW i \in DOMAIN Tail(s), Tail(s)[i] = k PROVE \E j \in DOMAIN s : s[j] = k
    <3>1. i + 1 \in DOMAIN s /\ s[i + 1] = k
      BY <2>4, <2>5, <2>7
    <3> QED
      BY <3>1
  <2>8. ASSUME NEW k \in Locks, NEW i \in DOMAIN s, s[i] = k, k # Head(s)
        PROVE  \E j \in DOMAIN Tail(s) : Tail(s)[j] = k
    <3>1. PICK j \in 1 .. m : i = j + 1
      BY <2>1, <2>4, <2>6, <2>8
    <3> QED
      BY <2>4, <2>8, <3>1
  <2> QED
    BY <2>7, <2>8
<1>10. call[p] = Inv!Idle /\ \A k \in Locks : ~Calling(p, k)
  BY DEF ToSettle, Replied, Inv!Idle, Calling, Stock!Settling
<1>11. ASSUME NEW o \in Orders, NEW l \in Locks, Closed(o)', Owns(o, l)' PROVE Followed(o, l)'
  <2>1. Own(o)' = Own(o)
    BY <1>2, <1>5, <1>6 DEF Own, Processes
  <2>2. Closed(o) /\ Owns(o, l) /\ Followed(o, l)
    BY <1>11, <2>1 DEF AllFollowed, Closed, Owns
  <2>3. Excused(o) => Excused(o)'
    BY <1>1, <2>2, ExcusesStay DEF Closed
  <2>4. Todo(p, l)' => Todo(p, l)
    BY <1>2, <1>3, <1>5, <1>6, <1>9 DEF Todo
  <2>5. Todo(p, l) => Todo(p, l)' \/ l = Head(s)
    BY <1>3, <1>5, <1>6, <1>9 DEF Todo
  <2>6. Todo(p, l) => task[p].order = o /\ task[p].op = CallFor(o)
    <3>1. Todo(p, l) => task[p].order = o
      BY <2>2 DEF Followed
    <3>2. task[p].order = o => task[p].op = CallFor(o)
      BY <1>2, <2>2 DEF Known, Settler, Closed, CallFor, Sold
    <3> QED
      BY <3>1, <3>2
  <2>7. Todo(p, Head(s))
    BY <1>2, <1>3, <1>8 DEF Todo
  <2>8. \A q \in Processes : Todo(q, l)' => task'[q].order = o
    BY <1>5, <1>6, <2>2, <2>4 DEF Followed, Todo
  <2>9. \A q \in Processes : Calling(q, l)' => call'[q].op = CallFor(o)
    <3> SUFFICES ASSUME NEW q \in Processes, Calling(q, l)' PROVE call'[q].op = CallFor(o)
      OBVIOUS
    <3>1. CASE call'[q] = call[q]
      BY <2>2, <3>1 DEF Followed, Calling, Stock!Settling
    <3>2. CASE q = p /\ call'[p] = [op |-> task[p].op, lock |-> Head(s)]
      <4>1. l = Head(s)
        BY <3>2 DEF Calling
      <4> QED
        BY <2>6, <2>7, <3>2, <4>1
    <3> QED
      BY <1>3, <3>1, <3>2
  <2>10. \A q \in Processes :
           AtWork(q, o, l) => AtWork(q, o, l)' \/ lock'[l].status = EndOf(o) \/ Excused(o)'
    <3>1. ASSUME NEW q \in Processes \ {p}, AtWork(q, o, l) PROVE AtWork(q, o, l)'
      BY <1>6, <3>1 DEF AtWork, Todo, Calling, Stock!Settling
    <3>2. ASSUME AtWork(p, o, l)
          PROVE  AtWork(p, o, l)' \/ lock'[l].status = EndOf(o) \/ Excused(o)'
      <4>1. Todo(p, l) /\ task'[p].at = "settle" /\ task'[p].order = o
        BY <1>5, <1>6, <1>10, <3>2 DEF AtWork
      <4>2. CASE Todo(p, l)'
        BY <4>1, <4>2 DEF AtWork
      <4>3. CASE l = Head(s) /\ call'[p] = [op |-> task[p].op, lock |-> Head(s)]
        <5>1. call'[p] \in Stock!Settling /\ call'[p].lock = l
          BY <1>2, <4>3 DEF Settling, Stock!Settling
        <5> QED
          BY <4>1, <5>1 DEF AtWork, Calling, Stock!Settling
      <4>4. CASE l = Head(s) /\ lock[l].status # "locked"
        BY <2>2, <4>4 DEF Followed
      <4>5. CASE task[p].order \in skipped'
        BY <1>5, <1>6, <4>1, <4>5 DEF Excused
      <4> QED
        BY <1>3, <2>5, <4>1, <4>2, <4>3, <4>4, <4>5
    <3> QED
      BY <3>1, <3>2
  <2> QED
    BY <2>2, <2>3, <2>8, <2>9, <2>10, FollowStays
<1> QED
  BY <1>7, <1>11 DEF AllFollowed

LEMMA SettleFollows ==
    ASSUME TypeInv, LockInv, Known, AllFollowed, Next, NEW p \in Processes,
           \/ SettleNext(p) \/ SettleRefused(p)
           \/ ToSettle(p) /\ CallFails(p) /\ UNCHANGED inventoryVars /\ task' = [task EXCEPT ![p].todo = Tail(@)]
    PROVE  Known' /\ AllFollowed'
<1>1. ToSettle(p) /\ OrderTypes /\ Stock!TypeOK
  BY DEF SettleNext, SettleRefused, TypeInv, Stock!TypeInv
<1>2. UNCHANGED <<order, held, unsure>> /\ task' = [task EXCEPT ![p].todo = Tail(@)]
  BY DEF SettleNext, SettleRefused, CallFails, orderVars, faultVars
<1>3. CASE SettleNext(p)
  <2>1. /\ call' = [call EXCEPT ![p] = [op |-> task[p].op, lock |-> Head(task[p].todo)]]
        /\ UNCHANGED lock
    BY <1>3 DEF SettleNext, Inv!BeginSettle
  <2>2. /\ call'[p] = [op |-> task[p].op, lock |-> Head(task[p].todo)]
        /\ \A q \in Processes \ {p} : call'[q] = call[q]
    BY <1>1, <2>1 DEF Stock!TypeOK
  <2> QED
    BY <1>1, <1>2, <2>1, <2>2, NextFollows
<1>4. CASE SettleRefused(p)
  BY <1>1, <1>2, <1>4, NextFollows DEF SettleRefused, inventoryVars
<1>5. CASE ToSettle(p) /\ CallFails(p) /\ UNCHANGED inventoryVars
  <2>1. task[p] \in Settling /\ task[p].order \in Orders
    BY <1>1, SettlingTask DEF ToSettle
  <2>2. task[p].order \in skipped'
    BY <1>5, <2>1 DEF CallFails
  <2> QED
    BY <1>1, <1>2, <1>5, <2>2, NextFollows DEF inventoryVars
<1> QED
  BY <1>3, <1>4, <1>5

\* A process rests: nothing is left, or what it leaves is excused.
LEMMA RestFollows ==
    ASSUME TypeInv, LockInv, Known, AllFollowed, Next, Stages, NEW p \in Processes, Working(p),
           Becomes(p, Rest(p)), UNCHANGED <<inventoryVars, order, held, unsure>>,
           \A x \in Orders, l \in Locks : Closed(x) /\ AtWork(p, x, l) => Excused(x)'
    PROVE  Known' /\ AllFollowed'
<1>1. OrderTypes /\ QueueTypes /\ FaultTypes /\ Stock!TypeOK
  BY DEF TypeInv, Stock!TypeInv
<1>2. PICK t : t = Rest(p) /\ t \in {Idle, Done}
  BY Rests
<1>3. t.at \in {"idle", "done"} /\ UNCHANGED <<call, lock>>
  BY <1>2 DEF Idle, Done, inventoryVars
<1>4. task'[p] = t /\ \A q \in Processes \ {p} : task'[q] = task[q]
  BY <1>1, <1>2, Others DEF Becomes
<1>5. Known'
  BY <1>3, <1>4 DEF Known, Reader, Settler
<1>6. ASSUME NEW o \in Orders, NEW l \in Locks, Closed(o)', Owns(o, l)' PROVE Followed(o, l)'
  <2>1. Own(o)' = Own(o) /\ Closed(o)
    BY <1>3, <1>4, <1>6 DEF Own, Processes, Closed, Stages
  <2>2. Owns(o, l) /\ Followed(o, l)
    BY <1>6, <2>1 DEF AllFollowed, Owns
  <2>3. Excused(o) => Excused(o)'
    BY <1>1, <2>1, ExcusesStay DEF Closed
  <2>4. \A q \in Processes : Todo(q, l)' => task'[q].order = o
    BY <1>3, <1>4, <2>2 DEF Followed, Todo
  <2>5. \A q \in Processes : Calling(q, l)' => call'[q].op = CallFor(o)
    BY <1>3, <2>2 DEF Followed, Calling, Stock!Settling
  <2>6. \A q \in Processes : AtWork(q, o, l) => AtWork(q, o, l)' \/ Excused(o)'
    BY <1>3, <1>4, <2>1 DEF AtWork, Todo, Calling, Stock!Settling
  <2> QED
    BY <1>3, <2>2, <2>3, <2>4, <2>5, <2>6, FollowStays
<1> QED
  BY <1>5, <1>6 DEF AllFollowed

LEMMA CrashFollows ==
    ASSUME TypeInv, Stages, LockInv, Known, AllFollowed, Next, NEW p \in Processes,
           SettleDone(p) \/ Crash(p)
    PROVE  Known' /\ AllFollowed'
<1>1. OrderTypes /\ QueueTypes /\ FaultTypes
  BY DEF TypeInv
<1>2. Working(p) /\ Becomes(p, Rest(p)) /\ UNCHANGED <<inventoryVars, order, held, unsure>>
  BY DEF SettleDone, Crash, Working, Idle, Done, orderVars, faultVars
<1>3. ASSUME NEW x \in Orders, NEW l \in Locks, Closed(x), AtWork(p, x, l) PROVE Excused(x)'
  <2>1. CASE SettleDone(p)
    <3>1. ~Calling(p, l)
      BY <2>1 DEF SettleDone, Replied, Inv!Idle, Calling, Stock!Settling
    <3>2. ~Todo(p, l)
      BY <2>1, EmptySeq DEF SettleDone, Todo
    <3> QED
      BY <1>3, <3>1, <3>2 DEF AtWork
  <2>2. CASE Crash(p)
    <3>1. Settler(p, x) /\ task[p].order = x
      BY <1>3 DEF Known, AtWork
    <3>2. CASE order[x] = "paid"
      <4>1. p \in Consumers
        BY <1>3, <3>1, <3>2 DEF Settler, Closed
      <4>2. queue' = [queue EXCEPT ![x] = queue[x] + 1]
        BY <2>2, <3>1, <4>1 DEF Crash
      <4>3. queue'[x] > 0
        BY <1>1, <4>2 DEF QueueTypes
      <4> QED
        BY <1>2, <3>2, <4>3 DEF Excused
    <3>3. CASE order[x] # "paid"
      <4>1. faults' > 0
        BY <1>1, <2>2 DEF Crash, Fault, FaultTypes
      <4> QED
        BY <1>2, <3>3, <4>1 DEF Excused
    <3> QED
      BY <3>2, <3>3
  <2> QED
    BY <2>1, <2>2
<1> QED
  BY <1>2, <1>3, RestFollows

\* A step that leaves orders, tasks and locks alone.
LEMMA SameFollows ==
    ASSUME LockInv, Known, AllFollowed, UNCHANGED <<lock, call, order, held, task, unsure>>,
           \A x \in Orders : Closed(x) /\ Excused(x) => Excused(x)'
    PROVE  Known' /\ AllFollowed'
<1>1. Known'
  BY DEF Known, Reader, Settler
<1>2. ASSUME NEW o \in Orders, NEW l \in Locks, Closed(o)', Owns(o, l)' PROVE Followed(o, l)'
  <2>1. Closed(o) /\ Owns(o, l) /\ Followed(o, l)
    BY <1>2 DEF AllFollowed, Closed, Owns, Own
  <2>2. \A q \in Processes : Todo(q, l)' => task'[q].order = o
    BY <2>1 DEF Followed, Todo
  <2>3. \A q \in Processes : Calling(q, l)' => call'[q].op = CallFor(o)
    BY <2>1 DEF Followed, Calling, Stock!Settling
  <2>4. \A q \in Processes : AtWork(q, o, l) => AtWork(q, o, l)'
    BY DEF AtWork, Todo, Calling, Stock!Settling
  <2> QED
    BY <2>1, <2>2, <2>3, <2>4, FollowStays
<1> QED
  BY <1>1, <1>2 DEF AllFollowed

Follow == Known /\ AllFollowed

LEMMA FollowStep ==
    ASSUME TypeInv, Stages, LockInv, Follow, Alone, Routine', [Next]_vars
    PROVE  Follow'
<1> USE DEF Follow
<1>1. OrderTypes /\ QueueTypes /\ FaultTypes /\ Stock!TypeOK
  BY DEF TypeInv, Stock!TypeInv
<1>2. CASE UNCHANGED vars
  <2>1. \A x \in Orders : Excused(x) => Excused(x)'
    BY <1>2 DEF vars, orderVars, brokerVars, faultVars, Excused
  <2> QED
    BY <1>2, <2>1, SameFollows DEF vars, inventoryVars, orderVars, faultVars
<1>3. ASSUME Next, NEW o \in Orders, CreateOrder(o) \/ InsertFails(o) \/ InsertReplyLost(o)
      PROVE  Follow'
  BY <1>3, RequestsFollow
<1>4. ASSUME Next, NEW o \in Orders, NEW l \in Locks, LockReplyLost(o, l) PROVE Follow'
  BY <1>4, RequestsFollow
<1>5. ASSUME Next, NEW o \in Orders, PaymentEvent(o) PROVE Follow'
  <2>1. UNCHANGED <<lock, call, order, held, task, unsure>>
    BY <1>5 DEF PaymentEvent, inventoryVars, orderVars, faultVars
  <2>2. \A x \in Orders : Closed(x) /\ Excused(x) => Excused(x)'
    BY <1>1, <1>5, <2>1, ExcusesStay DEF Closed
  <2> QED
    BY <2>1, <2>2, SameFollows
<1>6. ASSUME Next, NEW p \in Cancels, NEW o \in Orders, CancelRead(p, o) PROVE Follow'
  <2>1. PICK t : t = [at |-> "cancel", order |-> o]
    OBVIOUS
  <2>2. t.at = "cancel" /\ t.order = o /\ p \in Processes
    BY <2>1 DEF Processes
  <2>3. task[p] = Idle /\ Becomes(p, t) /\ order[o] = "pending_payment"
    BY <1>6, <2>1 DEF CancelRead
  <2>4. UNCHANGED <<inventoryVars, orderVars, unsure, order>>
    BY <1>6 DEF CancelRead, faultVars, orderVars
  <2>5. task'[p] = t
    BY <1>1, <2>2, <2>3, Others DEF Becomes
  <2>6. Reader(p)'
    BY <2>2, <2>3, <2>4, <2>5 DEF Reader
  <2> QED
    BY <1>6, <2>2, <2>3, <2>4, <2>6, ReadFollows
<1>7. ASSUME Next, NEW p \in Clerks, NEW o \in Orders, NEW st \in Statuses, UpdateOrderStatus(p, o, st)
      PROVE  Follow'
  <2>1. PICK t : t = [at |-> "update", order |-> o, to |-> st]
    OBVIOUS
  <2>2. t.at = "update" /\ t.order = o /\ t.to = st /\ p \in Processes /\ p \notin Consumers
    BY <2>1, CheckoutConstants DEF Processes
  <2>3. task[p] = Idle /\ Becomes(p, t) /\ isValidTransition(order[o], st)
    BY <1>7, <2>1 DEF UpdateOrderStatus, StatusRead
  <2>4. UNCHANGED <<inventoryVars, orderVars, unsure, order>>
    BY <1>7 DEF UpdateOrderStatus, faultVars, orderVars
  <2>5. task'[p] = t
    BY <1>1, <2>2, <2>3, Others DEF Becomes
  <2>6. st \notin {"paid", "cancelled"}
    BY <2>2, <2>5 DEF Routine
  <2>7. order[o] \in Sold /\ st \in Sold \ {"paid"}
    BY <2>3, <2>6 DEF isValidTransition, Statuses, validTransitions, Sold
  <2>8. Reader(p)'
    BY <2>2, <2>4, <2>5, <2>7 DEF Reader
  <2> QED
    BY <1>7, <2>2, <2>3, <2>4, <2>8, ReadFollows
<1>8. ASSUME Next, NEW p \in Consumers, NEW o \in Orders, ReceivePayment(p, o) PROVE Follow'
  <2>1. PICK t : t = [at |-> "update", order |-> o, to |-> "paid"]
    OBVIOUS
  <2>2. t.at = "update" /\ t.order = o /\ t.to = "paid" /\ p \in Processes
    BY <2>1 DEF Processes
  <2>3. task[p] = Idle /\ Becomes(p, t) /\ order[o] = "pending_payment"
    BY <1>8, <2>1 DEF ReceivePayment, StatusRead, isValidTransition, Statuses, validTransitions
  <2>4. UNCHANGED <<inventoryVars, orderVars, unsure, order>>
    BY <1>8 DEF ReceivePayment, faultVars, orderVars
  <2>5. task'[p] = t
    BY <1>1, <2>2, <2>3, Others DEF Becomes
  <2>6. Reader(p)'
    BY <2>2, <2>3, <2>4, <2>5 DEF Reader
  <2> QED
    BY <1>8, <2>2, <2>3, <2>4, <2>6, ReadFollows
<1>9. ASSUME Next, NEW p \in Processes, Crash(p) PROVE Follow'
  BY <1>9, CrashFollows
<1>10. ASSUME Next, NEW p \in Processes, CallFails(p) PROVE Follow'
  <2>1. CASE /\ MoreToLock(p) /\ UNCHANGED inventoryVars
             /\ Becomes(p, SettleTask(p, "release", task[p].locks))
    BY <1>1, <1>10, <2>1, LockingTask, RequestsFollow DEF MoreToLock
  <2>2. CASE ToSettle(p) /\ task' = [task EXCEPT ![p].todo = Tail(@)] /\ UNCHANGED inventoryVars
    BY <1>10, <2>2, SettleFollows
  <2>3. CASE Inv!Abort(p) /\ UNCHANGED task
    BY <1>10, <2>3, InventoryFollows
  <2> QED
    BY <1>10, <2>1, <2>2, <2>3 DEF CallFails
<1>11. ASSUME Next, NEW p \in Processes, Work(p) PROVE Follow'
  <2>1. ASSUME NEW l \in Locks, LockItem(p, l) PROVE Follow'
    BY <1>1, <1>11, <2>1, LockingTask, RequestsFollow DEF LockItem, MoreToLock
  <2>2. CASE LockRefused(p) \/ InsertOrder(p)
    BY <1>1, <1>11, <2>2, LockingTask, RequestsFollow DEF LockRefused, InsertOrder, MoreToLock, AllLocked
  <2>3. CASE CancelWrite(p) \/ StatusWrite(p)
    BY <1>11, <2>3, WriteFollows, ClerkFollows
  <2>4. CASE SettleNext(p) \/ SettleRefused(p)
    BY <1>11, <2>4, SettleFollows
  <2>5. CASE SettleDone(p)
    BY <1>11, <2>5, CrashFollows
  <2>6. CASE InventoryStep(p)
    BY <1>11, <2>6, InventoryFollows
  <2> QED
    BY <1>11, <2>1, <2>2, <2>3, <2>4, <2>5, <2>6 DEF Work
<1>12. CASE Next
  <2>1. CASE Request
    BY <1>12, <2>1, <1>3, <1>5, <1>6, <1>7, CheckoutConstants DEF Request
  <2>2. CASE Failure
    BY <1>12, <2>2, <1>3, <1>4, <1>9, <1>10 DEF Failure
  <2> QED
    BY <1>12, <2>1, <2>2, <1>8, <1>11 DEF Next
<1> QED
  BY <1>2, <1>12

(* Once nothing works on an order any more, its locks are what its status    *)
(* says, as long as no two of CancelOrder and the payment consumer are       *)
(* between the read and the write of the status of one order, and            *)
(* UpdateOrderStatus, which moves no lock, neither pays nor cancels: a       *)
(* crash, a redelivered message or a refused call leaves no lock of a paid   *)
(* order outstanding without its message in the queue, and deducts none of  *)
(* a cancelled one (CancelOrder, handlePaymentSuccess, DeductStock,         *)
(* ReleaseStock).                                                           *)
THEOREM LocksFollowWhileAlone == Spec /\ []Alone /\ []Routine => []LocksFollowStatus
<1>1. Init => Follow
  <2> SUFFICES ASSUME Init PROVE Follow
    OBVIOUS
  <2>1. \A p \in Processes : task[p].at = "idle"
    BY DEF Init, Idle
  <2>2. \A o \in Orders : ~Closed(o)
    BY DEF Init, Closed
  <2> QED
    BY <2>1, <2>2 DEF Follow, Known, Reader, AllFollowed
<1>2. TypeInv /\ Stages /\ LockInv /\ Complete /\ Follow => LocksFollowStatus
  <2> SUFFICES ASSUME TypeInv, Stages, Follow, NEW o \in Orders, ~Busy(o), o \notin skipped \cup unsure
               PROVE  /\ order[o] = "paid" => AllHeld(o, "deducted") \/ queue[o] > 0
                      /\ order[o] = "cancelled" => AllHeld(o, "released") \/ faults > 0
    BY DEF LocksFollowStatus
  <2>1. ASSUME Closed(o), ~Excused(o) PROVE AllHeld(o, EndOf(o))
    <3> SUFFICES ASSUME NEW i \in DOMAIN held[o] PROVE lock[held[o][i]].status = EndOf(o)
      BY DEF AllHeld, HeldLocks
    <3>1. Own(o) = held[o] /\ OrderTypes
      BY <2>1 DEF Own, Stages, Closed, TypeInv
    <3>2. PICK l \in Locks : l = held[o][i]
      BY <3>1, OwnIsSeq
    <3>3. Owns(o, l)
      BY <3>1, <3>2 DEF Owns
    <3>4. \A p \in Processes : ~AtWork(p, o, l)
      BY DEF AtWork, Busy
    <3> QED
      BY <2>1, <3>2, <3>3, <3>4 DEF Follow, AllFollowed, Followed
  <2>2. CASE order[o] = "paid"
    BY <2>1, <2>2 DEF Closed, Excused, EndOf
  <2>3. CASE order[o] = "cancelled"
    BY <2>1, <2>3 DEF Closed, Excused, EndOf
  <2> QED
    BY <2>2, <2>3
<1>3. TypeInv /\ Stages /\ LockInv /\ Follow /\ Alone /\ Routine' /\ [Next]_vars => Follow'
  BY FollowStep
<1> QED
  BY HoldInvariant, <1>1, <1>2, <1>3, PTL DEF Spec

(* With one process that cancels and one consumer, asked for different      *)
(* orders, and no clerk, the locks of an order at rest are what its status  *)
(* says, whatever fails (CancelOrder, handlePaymentSuccess).                *)
THEOREM LocksFollowOrders ==
    ASSUME Cancellable \cap Payable = {},
           \A p, q \in Cancels : p = q,
           \A p, q \in Consumers : p = q,
           Clerks = {}
    PROVE  Spec => []LocksFollowStatus
<1>1. TypeInv => Routine
  BY DEF Routine
<1> QED
  BY <1>1, TypeInvariant, DividedAlone, LocksFollowWhileAlone, PTL

-----------------------------------------------------------------------------
(* The order service and the inventory service together are the shelf.      *)

\* Only the lost reply of a COMMIT makes CreateOrder unsure of an order.
LEMMA NeverUnsure ==
    ASSUME LostCommits = FALSE
    PROVE  Spec => [](unsure = {})
<1>1. Init => unsure = {}
  BY DEF Init
<1>2. ASSUME unsure = {}, [Next]_vars PROVE unsure' = {}
  <2>1. Request \/ (\E p \in Consumers, o \in Orders : ReceivePayment(p, o)) => UNCHANGED unsure
    BY DEF Request, CreateOrder, PaymentEvent, CancelRead, UpdateOrderStatus, ReceivePayment, faultVars
  <2>2. \A p \in Processes : Work(p) => UNCHANGED unsure
    BY DEF Work, LockItem, LockRefused, InsertOrder, CancelWrite, StatusWrite, SettleNext, SettleRefused,
       SettleDone, InventoryStep, faultVars
  <2>3. Failure => UNCHANGED unsure
    BY DEF Failure, Crash, CallFails, InsertFails, InsertReplyLost, LockReplyLost
  <2> QED
    BY <1>2, <2>1, <2>2, <2>3 DEF Next, vars, faultVars
<1>3. unsure = {} /\ [Next]_vars => (unsure = {})'
  BY <1>2
<1> QED
  BY <1>1, <1>3, PTL DEF Spec

\* The calls of the order service settle a lock once at a time.
LEMMA CallsAreSingle == Spec /\ []Alone /\ [](unsure = {}) => Single!Spec
<1>1. Init => Single!Init
  BY DEF Init, Inv!Init, Single!Init, Inv!Idle, Single!Idle
<1>2. /\ TypeInv /\ Stages /\ LockInv /\ Complete /\ Alone /\ SettledOnce /\ unsure = {}
      /\ (unsure = {})' /\ [Next]_vars
      => [Single!Next]_(Single!vars)
  BY OnceStep DEF SettledOnce
<1> QED
  BY HoldInvariant, SettledOnceInvariant, <1>1, <1>2, PTL DEF Spec, Single!Spec

(* As long as no two of CancelOrder and the payment consumer are between     *)
(* the read and the write of the status of one order, and no reply of a      *)
(* COMMIT is lost, whatever checkout, cancellation and payment do to the     *)
(* inventory are the moves of the shelf: copies are reserved, given back or  *)
(* sold, each in one step, whichever statements interleave, crash or are     *)
(* tried again (LockStock, ReleaseStock, DeductStock and their callers).     *)
THEOREM ShelfWhileAlone == Spec /\ []Alone /\ [](unsure = {}) => Inv!ImplementsShelf
<1>1. Single!Spec => Single!ImplementsShelf
  BY SingleConstants, Single!InventoryImplementsShelf
<1>2. Single!Promise!Init => Inv!Promise!Init
  BY DEF Single!Promise!Init, Inv!Promise!Init, Single!Available, Inv!Available
<1>3. [Single!Promise!Next]_<<[b \in Books |-> Single!Available(b)], lock>>
      => [Inv!Promise!Next]_<<[b \in Books |-> Inv!Available(b)], lock>>
  BY DEF Single!Promise!Next, Inv!Promise!Next, Single!Promise!Reserve, Inv!Promise!Reserve,
         Single!Promise!Release, Inv!Promise!Release, Single!Promise!Sell, Inv!Promise!Sell,
         Single!Available, Inv!Available
<1> QED
  BY CallsAreSingle, <1>1, <1>2, <1>3, PTL
  DEF Single!ImplementsShelf, Inv!ImplementsShelf, Single!Promise!Spec, Inv!Promise!Spec

(* Under the same conditions a lock that is released or deducted stays as    *)
(* it is: the exclusive settling that the inventory service counts on is     *)
(* what its real callers then do (ReleaseStock and DeductStock).             *)
THEOREM SettledWhileAlone == Spec /\ []Alone /\ [](unsure = {}) => Inv!SettledForGood
<1>1. Single!Spec => Single!SettledForGood
  BY SingleConstants, Single!SettledStaysSettled
<1> QED
  BY CallsAreSingle, <1>1, PTL
  DEF Single!SettledForGood, Inv!SettledForGood, Single!vars, Inv!vars,
      Single!Settled, Inv!Settled

(* In particular with one process that cancels and one consumer, asked for   *)
(* different orders, whatever crashes, fails or is delivered again.          *)
THEOREM CheckoutImplementsShelf ==
    ASSUME LostCommits = FALSE,
           Cancellable \cap Payable = {},
           \A p, q \in Cancels : p = q,
           \A p, q \in Consumers : p = q
    PROVE  Spec => Inv!ImplementsShelf
BY NeverUnsure, DividedAlone, ShelfWhileAlone, PTL

-----------------------------------------------------------------------------
(* The status of an order moves along validTransitions, while no two         *)
(* processes have it between read and write.                                 *)

\* The process has read the status of the order and will write it.
Writes(p, o) == task[p].at \in {"cancel", "update"} /\ task[p].order = o

Solo == \A o \in Orders, p, q \in Processes : Writes(p, o) /\ Writes(q, o) => p = q

\* What the process has read is still so.
Fresh(p) ==
    /\ task[p].at = "cancel" => order[task[p].order] = "pending_payment"
    /\ task[p].at = "update" => isValidTransition(order[task[p].order], task[p].to)

AllFresh == \A p \in Processes : Fresh(p)

Allowed ==
    \A o \in Orders : order'[o] # order[o] =>
        \/ order[o] = "none" /\ order'[o] = "pending_payment"
        \/ isValidTransition(order[o], order'[o])

\* A process moves on, and no order that another one has read is written.
LEMMA FreshMoves ==
    ASSUME OrderTypes, AllFresh, NEW p \in Processes, NEW t, Becomes(p, t), Fresh(p)',
           \A q \in Processes \ {p} :
              task[q].at \in {"cancel", "update"} => order'[task[q].order] = order[task[q].order]
    PROVE  AllFresh'
<1>1. task'[p] = t /\ \A q \in Processes \ {p} : task'[q] = task[q]
  BY Others DEF Becomes
<1>2. ASSUME NEW q \in Processes \ {p} PROVE Fresh(q)'
  BY <1>1, <1>2 DEF AllFresh, Fresh
<1> QED
  BY <1>2 DEF AllFresh

\* It gets other work.
LEMMA FreshQuiet ==
    ASSUME OrderTypes, AllFresh, NEW p \in Processes, NEW t, Becomes(p, t),
           t.at \notin {"cancel", "update"}, UNCHANGED order
    PROVE  AllFresh' /\ Allowed
<1>1. task'[p] = t
  BY Others DEF Becomes
<1>2. Fresh(p)'
  BY <1>1 DEF Fresh
<1> QED
  BY <1>2, FreshMoves DEF Allowed

LEMMA FreshGivesBack ==
    ASSUME OrderTypes, AllFresh, NEW p \in Processes, UNCHANGED order,
           \/ \E op, s : Becomes(p, SettleTask(p, op, s))
           \/ Becomes(p, Rest(p))
           \/ task[p].at \notin {"cancel", "update"} /\ \E s : task' = [task EXCEPT ![p].todo = s]
           \/ task[p].at \notin {"cancel", "update"} /\ \E s : task' = [task EXCEPT ![p].locks = s]
    PROVE  AllFresh' /\ Allowed
<1>1. PICK t : Becomes(p, t) /\ t.at \notin {"cancel", "update"}
  <2>1. ASSUME NEW op, NEW s, Becomes(p, SettleTask(p, op, s))
        PROVE  \E t : Becomes(p, t) /\ t.at \notin {"cancel", "update"}
    <3>1. SettleTask(p, op, s).at = "settle"
      BY DEF SettleTask
    <3> QED
      BY <2>1, <3>1
  <2>2. ASSUME Becomes(p, Rest(p))
        PROVE  \E t : Becomes(p, t) /\ t.at \notin {"cancel", "update"}
    <3>1. Rest(p).at \in {"idle", "done"}
      BY DEF Rest, Idle, Done
    <3> QED
      BY <2>2, <3>1
  <2>3. ASSUME task[p].at \notin {"cancel", "update"}, NEW s, task' = [task EXCEPT ![p].todo = s]
        PROVE  \E t : Becomes(p, t) /\ t.at \notin {"cancel", "update"}
    <3>1. PICK t : t = [task[p] EXCEPT !.todo = s]
      OBVIOUS
    <3>2. Becomes(p, t)
      BY <2>3, <3>1 DEF Becomes
    <3>3. t.at = task[p].at
      BY <3>1, TaskKinds DEF OrderTypes, Tasks, Idle, Done, Locking, Cancelling, Updating, Settling
    <3> QED
      BY <2>3, <3>2, <3>3
  <2>4. ASSUME task[p].at \notin {"cancel", "update"}, NEW s, task' = [task EXCEPT ![p].locks = s]
        PROVE  \E t : Becomes(p, t) /\ t.at \notin {"cancel", "update"}
    <3>1. PICK t : t = [task[p] EXCEPT !.locks = s]
      OBVIOUS
    <3>2. Becomes(p, t)
      BY <2>4, <3>1 DEF Becomes
    <3>3. t.at = task[p].at
      BY <3>1, TaskKinds DEF OrderTypes, Tasks, Idle, Done, Locking, Cancelling, Updating, Settling
    <3> QED
      BY <2>4, <3>2, <3>3
  <2> QED
    BY <2>1, <2>2, <2>3, <2>4
<1> QED
  BY <1>1, FreshQuiet

\* A read.
LEMMA FreshReads ==
    ASSUME OrderTypes, AllFresh, NEW p \in Processes, NEW o \in Orders, UNCHANGED order,
           \/ order[o] = "pending_payment" /\ Becomes(p, [at |-> "cancel", order |-> o])
           \/ \E s \in Statuses : StatusRead(p, o, s)
    PROVE  AllFresh' /\ Allowed
<1>1. CASE order[o] = "pending_payment" /\ Becomes(p, [at |-> "cancel", order |-> o])
  <2>1. PICK t : t = [at |-> "cancel", order |-> o]
    OBVIOUS
  <2>2. t.at = "cancel" /\ t.order = o /\ Becomes(p, t)
    BY <1>1, <2>1
  <2>3. task'[p] = t
    BY <2>2, Others DEF Becomes
  <2>4. Fresh(p)'
    BY <1>1, <2>2, <2>3 DEF Fresh
  <2> QED
    BY <2>2, <2>4, FreshMoves DEF Allowed
<1>2. ASSUME NEW s \in Statuses, StatusRead(p, o, s) PROVE AllFresh' /\ Allowed
  <2>1. PICK t : t = [at |-> "update", order |-> o, to |-> s]
    OBVIOUS
  <2>2. t.at = "update" /\ t.order = o /\ t.to = s /\ Becomes(p, t) /\ isValidTransition(order[o], s)
    BY <1>2, <2>1 DEF StatusRead
  <2>3. task'[p] = t
    BY <2>2, Others DEF Becomes
  <2>4. Fresh(p)'
    BY <2>2, <2>3 DEF Fresh, isValidTransition
  <2> QED
    BY <2>2, <2>4, FreshMoves DEF Allowed
<1> QED
  BY <1>1, <1>2

\* A write: nobody else has read the order.
LEMMA FreshWrites ==
    ASSUME OrderTypes, AllFresh, Solo, NEW p \in Processes, CancelWrite(p) \/ StatusWrite(p)
    PROVE  AllFresh' /\ Allowed
<1>1. task[p].at \in {"cancel", "update"}
  BY DEF CancelWrite, StatusWrite
<1>2. PICK o \in Orders : o = task[p].order
  BY <1>1, TaskKinds DEF OrderTypes, Idle, Done
<1>3. PICK s : /\ order' = [order EXCEPT ![o] = s]
               /\ s = IF task[p].at = "cancel" THEN "cancelled" ELSE task[p].to
  BY <1>2 DEF CancelWrite, StatusWrite
<1>4. order'[o] = s /\ \A x \in Orders \ {o} : order'[x] = order[x]
  BY <1>3 DEF OrderTypes
<1>5. isValidTransition(order[o], s)
  <2>1. CASE task[p].at = "cancel"
    BY <1>2, <1>3, <2>1 DEF AllFresh, Fresh, isValidTransition, Statuses, validTransitions
  <2>2. CASE task[p].at = "update"
    BY <1>2, <1>3, <2>2 DEF AllFresh, Fresh
  <2> QED
    BY <1>1, <2>1, <2>2
<1>6. Allowed
  BY <1>4, <1>5 DEF Allowed
<1>7. PICK t : Becomes(p, t) /\ t.at \in {"idle", "settle"}
  <2>1. \A op, l : SettleTask(o, op, l).at = "settle"
    BY DEF SettleTask
  <2>2. Idle.at = "idle"
    BY DEF Idle
  <2> QED
    BY <1>2, <2>1, <2>2 DEF CancelWrite, StatusWrite
<1>8. Fresh(p)'
  <2>1. task'[p] = t
    BY <1>7, Others DEF Becomes
  <2> QED
    BY <1>7, <2>1 DEF Fresh
<1>9. ASSUME NEW q \in Processes \ {p}, task[q].at \in {"cancel", "update"}
      PROVE  order'[task[q].order] = order[task[q].order]
  <2>1. task[q].order \in Orders
    BY <1>9, TaskKinds DEF OrderTypes, Idle, Done
  <2>2. task[q].order # o
    BY <1>1, <1>2, <1>9 DEF Solo, Writes
  <2> QED
    BY <1>4, <2>1, <2>2
<1> QED
  BY <1>6, <1>7, <1>8, <1>9, FreshMoves

\* An order comes to be: nobody has read it.
LEMMA FreshInserts ==
    ASSUME OrderTypes, Stages, AllFresh, NEW o \in Orders, AllLocked(o),
           order' = [order EXCEPT ![o] = "pending_payment"],
           Becomes(o, Done) \/ Becomes(o, SettleTask(o, "release", task[o].locks))
    PROVE  AllFresh' /\ Allowed
<1>1. order[o] = "none" /\ o \in Processes
  BY DEF Stages, AllLocked, Processes
<1>2. order'[o] = "pending_payment" /\ \A x \in Orders \ {o} : order'[x] = order[x]
  BY DEF OrderTypes
<1>3. PICK t : Becomes(o, t) /\ t.at \in {"done", "settle"}
  <2>1. Done.at = "done" /\ SettleTask(o, "release", task[o].locks).at = "settle"
    BY DEF Done, SettleTask
  <2> QED
    BY <2>1
<1>4. Fresh(o)'
  <2>1. task'[o] = t
    BY <1>1, <1>3, Others DEF Becomes
  <2> QED
    BY <1>3, <2>1 DEF Fresh
<1>5. ASSUME NEW q \in Processes \ {o}, task[q].at \in {"cancel", "update"}
      PROVE  order'[task[q].order] = order[task[q].order]
  <2>1. task[q].order \in Orders /\ order[task[q].order] # "none"
    BY <1>5, TaskKinds DEF OrderTypes, Stages, Idle, Done
  <2> QED
    BY <1>1, <1>2, <2>1
<1> QED
  BY <1>1, <1>2, <1>3, <1>4, <1>5, FreshMoves DEF Allowed

LEMMA FreshStep ==
    ASSUME TypeInv, Stages, AllFresh, Solo, [Next]_vars
    PROVE  AllFresh' /\ Allowed
<1> USE DEF TypeInv
<1>1. ASSUME UNCHANGED <<order, task>> PROVE AllFresh' /\ Allowed
  BY <1>1 DEF AllFresh, Fresh, Allowed
<1>2. Orders \subseteq Processes
  BY DEF Processes
<1>3. CASE Request
  <2>1. ASSUME NEW o \in Orders, CreateOrder(o) PROVE AllFresh' /\ Allowed
    <3>1. PICK t : t = [at |-> "lock", order |-> o, locks |-> <<>>]
      OBVIOUS
    <3>2. t.at = "lock" /\ Becomes(o, t)
      BY <2>1, <3>1 DEF CreateOrder
    <3> QED
      BY <1>2, <2>1, <3>2, FreshQuiet DEF CreateOrder, orderVars
  <2>2. ASSUME NEW o \in Orders, PaymentEvent(o) PROVE AllFresh' /\ Allowed
    BY <1>1, <2>2 DEF PaymentEvent, orderVars
  <2>3. ASSUME NEW p \in Cancels, NEW o \in Cancellable, CancelRead(p, o) PROVE AllFresh' /\ Allowed
    BY <2>3, FreshReads, CheckoutConstants DEF CancelRead, orderVars, Processes
  <2>4. ASSUME NEW p \in Clerks, NEW o \in Orders, NEW s \in Statuses, UpdateOrderStatus(p, o, s)
        PROVE  AllFresh' /\ Allowed
    BY <2>4, FreshReads DEF UpdateOrderStatus, orderVars, Processes
  <2> QED
    BY <1>3, <2>1, <2>2, <2>3, <2>4 DEF Request
<1>4. ASSUME NEW p \in Consumers, NEW o \in Orders, ReceivePayment(p, o) PROVE AllFresh' /\ Allowed
  <2>1. "paid" \in Statuses
    BY DEF Statuses, validTransitions
  <2> QED
    BY <1>4, <2>1, FreshReads DEF ReceivePayment, orderVars, Processes
<1>5. CASE Failure
  <2>1. ASSUME NEW p \in Processes, Crash(p) PROVE AllFresh' /\ Allowed
    BY <2>1, FreshGivesBack DEF Crash, orderVars
  <2>2. ASSUME NEW p \in Processes, CallFails(p) PROVE AllFresh' /\ Allowed
    <3>1. CASE Becomes(p, SettleTask(p, "release", task[p].locks))
      BY <2>2, <3>1, FreshGivesBack DEF CallFails, orderVars
    <3>2. CASE ToSettle(p) /\ task' = [task EXCEPT ![p].todo = Tail(@)]
      BY <2>2, <3>2, FreshGivesBack DEF CallFails, orderVars, ToSettle
    <3>3. CASE UNCHANGED task
      BY <1>1, <2>2, <3>3 DEF CallFails, orderVars
    <3> QED
      BY <2>2, <3>1, <3>2, <3>3 DEF CallFails
  <2>3. ASSUME NEW o \in Orders, InsertFails(o) PROVE AllFresh' /\ Allowed
    BY <1>2, <2>3, FreshGivesBack DEF InsertFails, orderVars
  <2>4. ASSUME NEW o \in Orders, NEW l \in Locks, LockReplyLost(o, l) PROVE AllFresh' /\ Allowed
    BY <1>2, <2>4, FreshGivesBack DEF LockReplyLost, orderVars
  <2>5. ASSUME NEW o \in Orders, InsertReplyLost(o) PROVE AllFresh' /\ Allowed
    BY <2>5, FreshInserts DEF InsertReplyLost
  <2> QED
    BY <1>5, <2>1, <2>2, <2>3, <2>4, <2>5 DEF Failure
<1>6. ASSUME NEW p \in Processes, Work(p) PROVE AllFresh' /\ Allowed
  <2>1. ASSUME NEW l \in Locks, LockItem(p, l) PROVE AllFresh' /\ Allowed
    BY <2>1, FreshGivesBack DEF LockItem, MoreToLock, orderVars
  <2>2. CASE LockRefused(p)
    BY <2>2, FreshGivesBack DEF LockRefused, orderVars
  <2>3. CASE InsertOrder(p)
    <3>1. p \in Orders
      BY <2>3, LockingTask DEF InsertOrder, AllLocked
    <3> QED
      BY <2>3, <3>1, FreshInserts DEF InsertOrder
  <2>4. CASE CancelWrite(p) \/ StatusWrite(p)
    BY <2>4, FreshWrites
  <2>5. CASE SettleNext(p) \/ SettleRefused(p)
    BY <2>5, FreshGivesBack DEF SettleNext, SettleRefused, ToSettle, orderVars
  <2>6. CASE SettleDone(p)
    BY <2>6, FreshGivesBack DEF SettleDone, orderVars
  <2>7. CASE InventoryStep(p)
    BY <1>1, <2>7 DEF InventoryStep, orderVars
  <2> QED
    BY <1>6, <2>1, <2>2, <2>3, <2>4, <2>5, <2>6, <2>7 DEF Work
<1>7. CASE UNCHANGED vars
  BY <1>1, <1>7 DEF vars, orderVars
<1> QED
  BY <1>3, <1>4, <1>5, <1>6, <1>7 DEF Next

(* As long as no two processes are between the read and the write of the     *)
(* status of one order, its status changes only along validTransitions,      *)
(* whatever crashes or is delivered again (CancelOrder, UpdateStatus).  The  *)
(* run MCCheckoutCancelPaid shows that the premise is needed.                *)
THEOREM TransitionsWhileSolo == Spec /\ []Solo => StatusFollowsTransitions
<1>1. Init => AllFresh
  BY DEF Init, AllFresh, Fresh, Idle
<1>2. TypeInv /\ Stages /\ LockInv /\ Complete /\ AllFresh /\ Solo /\ [Next]_vars => AllFresh'
  BY FreshStep
<1>3. TypeInv /\ Stages /\ LockInv /\ Complete /\ AllFresh /\ Solo /\ [Next]_vars => [Allowed]_vars
  BY FreshStep
<1> QED
  BY HoldInvariant, <1>1, <1>2, <1>3, PTL DEF Spec, StatusFollowsTransitions, Allowed
=============================================================================
