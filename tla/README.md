# Verification of book-e-commerce-micro

TLA+ models of the parts of this shop whose correctness depends on the order in
which several actors take their steps: stock and its reservations, checkout and
payment, the assistant that may order and pay on a user's behalf, the catalogue
and its copies, and the services with a store of their own. The models
are checked with TLC on small instances; what matters most is proved with TLAPS
for every value of the constants.

Run a check with `tlc -config <cfg> <MC module>`, the proofs with
`tlapm <X>Proofs.tla`.

## The system

Go services behind an HTTP gateway, talking go-micro RPC. The deadline of an RPC
may pass while the service goes on, and a service may stop between any two
statements.

| component | state | operations | what makes it correct |
|---|---|---|---|
| inventory service | `store_inventory` (quantity, locked_quantity), `inventory_locks`, Redis copy of a row | LockStock, ReleaseStock, DeductStock, SetStock, GetStock | no copy is promised twice; `locked_quantity` is the sum of the open locks; a lock is settled once |
| order service | `orders`, `order_items`, sharded by user id | CreateOrder, CancelOrder, UpdateOrderStatus, listings | every open lock has an order that will settle it; the status moves along `validTransitions`; an order is found again by number and in its user's list |
| payment consumer | queue `order.payment.success` | handlePaymentSuccess | a paid order's stock is deducted |
| payment service | `payments` | CreatePayment, ProcessPayment, RefundPayment, publish | an event goes out once for each change, and it arrives |
| AI service: chat | chat sessions (MongoDB), pending and approved actions (Redis) | ChatWithLibrarian, StreamChat, the tools | the model cannot buy, pay or cancel anything the user has not confirmed; what the client saw is what was saved |
| AI service: summaries | MongoDB, Redis | GenerateBookSummary | readers never go back to an older summary |
| AI service: vectors | Milvus | event consumer, bulk run, on demand | vectors follow the books; the bulk run ends and loses count of no book |
| book service | MongoDB, Elasticsearch | create, update, delete, search | the index follows the documents; a search answers |
| cart service | one JSON value per user in Redis | add, remove, update, clear | one store, one line per book, at most 50 lines; the cart holds what was asked for |
| user service | users, profiles, addresses in MySQL, codes in Redis | send code, register, log in, profile, preferences, addresses | a code stays until it is used or runs out; one default address; no deleted address comes back |
| store service | stores | create, list, nearest store | - |
| sharding, ids | - | GetDB by user id, order and payment numbers | an order number leads to its order's shard |
| gateway | - | HTTP to RPC, the relay of the chat stream | the client is told what the service said |
| rate limiter | one token bucket per client address | allow, clean-up | no client exceeds burst and rate |
| Redis lock (unused so far) | key with owner token | acquire, retry, release | only the owner releases |

How they interact: CreateOrder calls LockStock for one item after the other,
writes the order with the lock ids, and on any error calls ReleaseStock for what
it has. CancelOrder calls ReleaseStock for each item. ProcessPayment publishes an
event to RabbitMQ; the consumer in the order service makes the order paid and
calls DeductStock for each item. The assistant's tools call the same RPCs as the
gateway. The book service writes MongoDB, then Elasticsearch, then publishes
`book.changed`, for which the AI service re-reads the book and writes its vector.
Carts, accounts, summaries, the rate limiter and the lock share nothing with each
other. There is no distributed transaction and no sweep that repairs what a
crash has left behind; `expire_at` of a lock is written and never read.

What is hard, and where the hazards of `PROJECT.json` point: statements of two
requests between which a row changes (a plain SELECT first, the row lock later;
a status checked in one statement and written in the next); several RPCs of one
request of which one fails; replies that are lost; messages that are delivered
again; events published after the commit; read-modify-write of a whole document,
row or cart; caches filled with what was read before a write; two stores written
one after the other; goroutines that wait for each other at bounded channels while
somebody cancels them; pages of a list that changes between two requests.

## The modules

| module | models | built on |
|---|---|---|
| `Shelf` | what the inventory service promises: copies are on the shelf, reserved or sold | |
| `Inventory` | the inventory service: each transaction split where another can get in between, and the cache | `Shelf` as its abstraction |
| `InventoryProofs` | its theorems | `Inventory` |
| `Checkout` | the order service and the payment consumer, calling the inventory | `INSTANCE Inventory` |
| `CheckoutProofs` | its theorems, from those of `InventoryProofs` | `Checkout`, `INSTANCE InventoryProofs` |
| `Payments` | the payment service, the publish, the broker's routing | |
| `Assistant` | chat turns, the session document, the confirmation gate | |
| `AssistantProofs` | its theorems: the gate; sessions without overlap or failure | `Assistant` |
| `Catalogue` | a book, its entry in the index and its vector; search over two stores | |
| `Backfill` | EmbedAllBooks: reader, workers, collector | |
| `ChatStream` | one streamed turn from StreamChat through the gateway to the client | |
| `Accounts` | codes, registration, profile row, addresses | |
| `Cart` | the cart document | |
| `OrderIndex` | shards, order numbers, a user's list read page by page, seeded orders | |
| `Summaries` | a book summary in MongoDB and Redis | |
| `RateLimiter` | the token buckets | |
| `RedisLock` | the lock with owner token | |
| `MCInventory`, `MCCheckout`, `MCPayments`, `MCAssistant` | constants for TLC | |
| `MCPipelines` | `Catalogue`, `Backfill`, `ChatStream` and `Payments` in one run | `INSTANCE` of each |
| `BackfillProofs`, `PipelinesProofs` | theorems of the bulk run; of the other three parts | `MCPipelines` |
| `MCServices` | `Accounts`, `Cart`, `OrderIndex`, `Summaries`, `RateLimiter`, `RedisLock` in one run | `INSTANCE` of each |
| `AccountsProofs`, `CartProofs`, `ServicesProofs` | theorems of the accounts; of the cart; of the other four parts | `MCServices` |

**Inventory.** `rows`, `stock`, `lock` and `cache` are the two tables (one key
per store and book) and Redis; `call` is what each request in flight does next.
LockStock takes the row FOR UPDATE as its first statement and is one step.
ReleaseStock and DeductStock find the lock record with a plain SELECT before they
take the row: `BeginSettle` is that read, `CommitRelease` and `CommitDeduct` the
rest, which writes the status by primary key. The UPDATE's guards are kept
(`ReleasedRow`, `DeductedRow`), as is that nobody looks at the number of rows
matched. The DEL of the cache key is a step after the commit. `Abort` cuts a
request off anywhere. `ExclusiveSettle` is an assumption about the callers (they
do not settle one lock twice at the same time); `Checkout` sets it FALSE and shows
what the real callers do.

**Checkout.** `task` is the program counter of each process: a CreateOrder
request, the servers of CancelOrder and UpdateOrderStatus, the consumer. Each RPC
is an action of `Inventory` in the call slot of its process, so all steps of
separate requests interleave. `queue` counts the messages ready per order; a
consumer that stops leaves its message there. `skipped` collects the orders a
call to the inventory failed for, `unsure` those whose COMMIT went through while
CreateOrder saw an error (`InsertReplyLost`, in the runs with `LostCommits`).

**Payments.** One step per transaction (both take the row FOR UPDATE first) and
one for the publish. `Routed` is the broker's rule for the default and for a
fanout exchange; `lost` collects the events a crash or an error kept from the
broker. Checkout's `PaymentEvent` stands for the messages the binding is meant
to deliver: `payments_unroutable` shows that at present none arrives.

**Assistant.** `record` and `pending` are the `ai:hitl:pend` keys, `approved` the
`ai:hitl:approved` keys (the id stands for the stored arguments), `chat` the
number of exchanges in the session document. `turn` and `call` hold what each
request, and each tool call with stored arguments, does next; every Redis command
is a step of its own. The language model is any sequence of calls with any
arguments, several of them at once, as the agent's tool node runs the calls of one
message concurrently. Without Redis the gate is off (`Gate.Enabled`); the model is
of the service with Redis.

**Catalogue.** A book is the number of its last change. Each request to a store is
a step: `UpdateBook` writes MongoDB, `FindByID` re-reads, `IndexBook` writes the
index (its errors are only logged, and an error status of the answer is not read),
`Publish` sends the id. The consumer acknowledges after it has tried, so
`ConsumerStops` delivers the event again. `ReadPage` and `Upsert` are a page of the
bulk run, `FindSimilarBooks` the vector made on demand: both write what they read
earlier. `astray` and `missed` record which books have met an overlap or a failure,
so that the properties say what holds of all others. Search takes its ids from the
index and its books from MongoDB; `InPlace` is the slice index of
`book_handler.go`.

**Backfill.** Reader, workers and collector are the three kinds of goroutine of
`embedder.go`; `batchCh` and `resultCh` its two bounded channels. A `select` with
`ctx.Done()` is a disjunction, a blocking receive a guard. `MaxErrors` cancels as
`recordError` does, `CallerCancels` is the caller's context. `stats` are the numbers
the RPC returns.

**ChatStream.** What a turn says is a number of pieces. `stream` is the gRPC
stream, `wire` the chunks under way, `seen` the server-sent events. `writeSSE` is
the gateway's rewriting of a chunk.

**Accounts, Cart, Summaries.** `call` is what each handler does next, with what it
has read; each statement or Redis command is a step. `crossed`, `strayed` and
`mixed` record that calls overlapped or a store failed. Quantities of a cart are
int32 (`Plus`); `MaxInt` stands for 2^31 - 1. A code is stored by one step
(`StoreCode`) and mailed by a goroutine in a later one, which may fail unheard
(`MailCode`, `MailFails`); the error of TTL is ignored (`CheckCooldown`), and a SET may
take effect though the handler sees an error (`StoreReplyLost`). `inbox` has the codes
a user was mailed, `unmailed` the users whose stored code no mail will bring. Where a
handler ends with its write, a write that is applied and reported as failed is the
same step as one that is reported as done: the answer is not part of the state.

**OrderIndex.** `shards` holds the rows. A shard counts its own ids. `Listings` are
all the orders MySQL may return for `ORDER BY created_at DESC`; `ReadPage` takes one
of them for each page. The initial state is empty or what `seed-big` writes, in
second 0, before the clock of the service begins; its users are made up by
`userIDForShard` for any number of users, so that one that wraps around may have orders
on a shard that is not his (`Displaced`). `UpdateStatus` changes a row by its id on a
given shard, as the code does.

**RateLimiter, RedisLock.** Each call of the limiter holds its mutex and is a step;
time is in ticks. A lock handle is idle, retrying or at work; `Expire` may come at
any time.

**MCPipelines, MCServices.** The parts share no state, so their product would only
multiply states: the initial state chooses one (`part`), and it alone moves. The
properties of the parts are restated for the run under the same names. The
theorems are about these compositions: a lemma says that a run of the whole moves the
part as its own module says, or not at all, and the rest is about the part alone.

## The runs

| run | asks | instance |
|---|---|---|
| `inventory_ledger` | Are the books exact when locks are settled one at a time? Does the service implement `Shelf`? | 1 book of 2 copies, 3 locks of 1 or 2, 2 requests at once, cut-offs |
| `inventory_restock` | What holds while SetStock overwrites quantities? Does a stale cache entry end? | 1 book without a row, 2 locks, SetStock to 0 and 2 |
| `checkout_flow` | Two crossed baskets, one paid twice, one cancelled: do all reach their end, does a fault oversell, do locks follow the status also when the consumer stops? | 2 books of 1 copy, 1 fault |
| `checkout_races` | What is left of the guarantees with two cancellations, a clerk, two payments, 2 faults on one order, a COMMIT whose reply is lost among them? | 1 order of 2 items |
| `checkout_oversell` | Is a copy ever promised twice? It is. | 3 orders for 1 copy |
| `checkout_cancel_paid` | Does the status follow `validTransitions`? It does not. | 1 order, 1 cancellation, 1 payment |
| `payments_unroutable` | Does an event reach the order service? It does not. | 1 payment |
| `assistant_turns` | Do only confirmed actions run, and once? | 2 turns at once of 3, 2 calls at once, 2 sessions, tools, arguments and actions, 1 fault |
| `pipelines` | Do index and vectors follow the books? Does the bulk run end and account for all books? Is each change of a payment announced, and once? Is a stream that says done saved as it was seen? | 2 books, 2 calls, 2 changes, 1 fault; 4 books in pages of 2, 2 workers, channels of 1; 3 payments; replies of 2 pieces |
| `search_ghosts` | Does a search answer? It panics. | 2 books |
| `stream_confirmation` | Does a streaming client learn that an action waits? It does not. | 1 turn |
| `services` | One default address, no lost profile, a mailed code that stays, a well-formed cart, an order found again, no older summary, one owner of the lock, no client over its budget | 1 user or cart, 2 calls at once; 2 shards, 3 orders, 2 user ids that differ by more than 100, 3 seeded users; 3 summaries; 3 lock handles; 9 ticks |

*Why the bounds are enough.* The properties are about one row, one lock, one order,
one user or one action; the hazards need two actors between whose statements a
third state change happens. Two requests in flight give every interleaving of a
pair; the third lock (or order) is the one that takes what the other two got wrong.
Two baskets in opposite order are the smallest crossing. `MaxEvents = 2` is the
second payment of an order, `MaxFaults` at most 2 lets a fault hit the repair of
another; `MaxTurns = 3` is a turn that registers, and two that confirm. A bulk run
of two pages, of which a full one may be the last, two workers and channels of one
slot reaches every wait of one goroutine for another; `MaxErrors = 2` is reached by
errors of two goroutines. Two changes of books and a fault are what it takes for
index or vector to be overtaken. Three handles are an owner, one whose key ran out,
and one that waits; three summaries a stored one and two that overtake each other.
User ids 2 and 107 differ modulo 100 and lie on different shards. Limits of the
code (50 lines, 99 copies, 100 rows, 20 of a page, int32) are constants, small enough
in the runs to be reached, but for the limit of cart lines: it would need a cart of three
books, which makes the run too long, and rests on `CartsKeepOneStore`. Three seeded
users on two shards make one wrap onto the other shard. The constants in the proofs are
arbitrary.

*What the failing runs show.* `checkout_oversell`: two CancelOrder calls both read
pending_payment, both call ReleaseStock, both find the lock still locked and both
subtract from `locked_quantity`; the second takes away the reservation of another
order, and its copy is promised again. `checkout_cancel_paid`: CancelOrder writes
the status it decided on before the consumer made the order paid.
`payments_unroutable`: the event is published to the default exchange with a
routing key that is not a queue's name. `search_ghosts`: the handler makes a slice
as long as the books it found and indexes it by the place of the hit, so that a hit
whose book is gone moves a later one beyond the end. `stream_confirmation`: the
gateway rebuilds metadata chunks without the `hitl_` fields. Each quotes its source in
`PROJECT.json`.

*Fairness.* `Inventory!FairSpec`: a request that has been accepted runs on, and
Redis expires keys. `Checkout!FairSpec`: a handler goes on when its call has
returned, and the consumer's loop takes a message that waits; no new request, and
no fault, ever has to come. A payment event for an order that cannot become paid
is put back without a change of state and is no step. `Payments!FairSpec`: the
goroutine that has committed publishes. `Catalogue!Progress`: a handler that has
begun goes on, and the consumer reconnects and takes the next event (its loop does);
nothing makes anybody change a book or start a bulk run. `Backfill!Fairness`:
goroutines run, and requests to the stores and the model return (they carry
timeouts); a `select` with two open branches may take either, and neither is assumed
to be taken in the end. None of them says that a crash is repaired: nothing in the
code does that.

`CHECK_DEADLOCK FALSE` everywhere: requests, ids and faults are bounded, so the
models end when they are used up.

## What is proved

| theorem | for every value of the constants |
|---|---|
| `TypeCorrect` | neither column goes below zero, whatever races, fails or is overwritten |
| `ReservationsStayCovered` | with exclusive settling, open reservations are covered by `locked_quantity`, also under SetStock |
| `LedgerStaysExact`, `NothingOversold`, `CopiesConserved` | with exclusive settling and no SetStock: `locked_quantity` is the sum of the open locks, nothing is oversold, no copy is lost or sold twice |
| `SettledStaysSettled`, `DeductAlwaysTakesStock` | with exclusive settling: a settled lock stays so; and without SetStock a deduction takes its copies |
| `InventoryImplementsShelf` | with exclusive settling and no SetStock: every step of `Inventory` is a step of `Shelf` or changes nothing there |
| `CheckoutTypes` | tables, tasks and queue keep their types; no message multiplies |
| `CheckoutUsesInventory` | every call of the order service is one the inventory service expects |
| `PendingOrdersHoldLocks` | an order that waits for its payment holds a live reservation of exactly its items |
| `NoReservationOrphaned` | without faults every open reservation has an order or a process that will settle it |
| `PromisesCoveredWhileAlone` | nothing is oversold as long as no two of CancelOrder and the consumer are between the read and the write of the status of one order |
| `PromisesStayCovered` | so nothing is oversold with one canceller and one consumer that are asked for different orders |
| `LocksFollowWhileAlone`, `LocksFollowOrders` | under the same premises, and while clerks neither pay nor cancel: once nothing works on an order, its locks are what its status says |
| `ShelfWhileAlone`, `CheckoutImplementsShelf` | under the same premises, and while no reply of a COMMIT is lost: the order service, the consumer and the inventory together implement `Shelf` |
| `SettledWhileAlone` | under the premises of `ShelfWhileAlone` a settled lock stays so for the real callers, whose settling then is exclusive |
| `TransitionsWhileSolo` | the status moves along `validTransitions` as long as no two processes are between the read and the write of it |
| `EventsAnnouncedOnce`, `ChangesAnnounced` | an event goes out at most once and after its commit; nothing but a lost publish drops one |
| `IndexFollowsBooks` | a book whose changes did not overlap and of which no request failed is in the index as it is in MongoDB |
| `NoBookForgotten` | whatever the pages, workers, channels, limits and errors: a bulk run counts no book twice and, unless its caller or `MaxErrors` errors cancelled it, forgets none |
| `DoneOnlyWhenSaved` | a client that was told done, and no error, has seen all of the reply, in order, as it was saved |
| `OneDefaultAddress`, `DeletedAddressesStay` | however calls overlap: one default address; an update that began after a deletion does not undo it (one that had read the row before does) |
| `ProfilesHoldWhatWasSaved` | without overlap on a row no saved field is lost |
| `MailedCodeStands` | however requests, mails and registrations overlap and fail: who was mailed a code has one stored until a code is used or runs out, and it is one he was mailed, unless its mail is under way or was lost |
| `CartsKeepOneStore` | however calls overlap: one store, one line for each book, at most the limit of lines |
| `CartsHoldWhatWasAsked` | without overlap, and while quantities stay within int32: the cart holds what the calls that took effect asked for |
| `OrdersFoundAgain` | an order number leads to its shard, except for seeded orders of a user that wrapped onto another one; a list read to its end shows every order that was there at least once, if none tie or leave the filter |
| `BudgetKept` | for every rate, burst and idle time with `Rate * IdleTime >= Burst`: no client exceeds burst and rate |
| `LockExclusive` | at most one handle is at work within its time to live |
| `SummariesNeverOlder` | without overlap or failure nobody is given an older summary than somebody before |
| `PipelinesKeepTheirTypes`, `ServicesKeepTheirTypes` | all stores, channels, messages and calls of the compositions keep their types |
| `OnlyConfirmedActions` | the assistant runs only what was confirmed, with the arguments that were shown |
| `GateStateTyped` | the types of the gate's keys, the sessions, the turns and the calls |
| `ConfirmedActionsRunOnce`, `SessionsKeepHistory` | without overlap or failure a confirmed action runs at most once, and no exchange is lost |

*Inventory.* `LedgerExact` alone is not inductive: a settlement in flight will
change the row for a lock it read earlier. `Protocol` adds what exclusive callers
give (a settlement in flight has a lock that is still locked, no two have the
same); `Ledger` balances each row against the units of its locks. Units are sets
of pairs, so that sums become cardinalities and each commit adds or removes one
lock's units (`AddUnits`, `RemoveUnits`). Assumptions: `InventoryConstants`, in
particular finitely many lock ids and a stock that is not negative at the start;
`ExclusiveSettle` where the theorem says so.

*Checkout.* `TypeInv` counts, for each order, the messages in the queue and in the hands
of consumers together (`Delivered`): a crash gives back no more than was taken. For the
locks the question is whose they are. `Own(o)` is the list of an order's locks, in the
task of the request while it locks and in the items of the order afterwards; `Doomed(l)`
says that a process has the lock on its list or in a call. `LockInv` says that such
locks were drawn (`Drawn`), that no two orders have one lock (`Apart`), and that the
locks of an order that locks or waits are reserved for its items and not doomed
(`Kept`). `HandOver` is the one argument behind most steps: locks only go from an order
that stops waiting to those who settle for it. For what is promised, `Once` says that no
lock is on two lists, twice on one, or on one and in a call, and that the locks of an
order that may yet get somebody to settle it are on none. That makes each call exclusive
(`SingleIsNext`), so that the inventory's own invariant, taken through `INSTANCE
InventoryProofs`, carries over. The premise `Alone` cannot be dropped:
`checkout_oversell` breaks it. The same facts make every run of `Checkout` one of the
inventory with exclusive callers (`CallsAreSingle`), and so `InventoryImplementsShelf`
speaks of the real callers too. For the locks of orders at rest, `Known` says what is
known between the read and the write of a status, and for whom a process settles;
`Followed` says of each lock of a paid or cancelled order that it is open or what the
status asks for, that everybody who has it before him makes the right call for it, and
that it is settled, excused (a call failed; the message is in the queue; a request
crashed) or on somebody's list. `Fresh` says that what a process read of a status still
stands. Assumptions: `CheckoutConstants` - baskets are not empty, lock ids are finitely
many, and the processes of the requests, of the consumers and of the others are
different ones.

*Payments.* `EventInv` adds that no two calls publish the same event, and none an
event already sent or lost: the row lock makes each change happen once.

*Catalogue.* `OneWriter(b)` says of a book that met no overlap and no failure that at
most one call changes it, that a call about to index has what MongoDB has, and that
without such a call the index agrees; what `index` holds in between follows from it.

*Backfill.* `EachOnce` says that the batches the reader holds, those in the two
channels, with the workers and with the collector are disjoint, and that their books lie
on the pages read so far (`OnPagesRead`). So the books under way can be counted, and
`CountedOrPending` says that what is counted and what is under way add up to what was
taken; a cancelled run may only fall short. `NothingLeft` empties each place when its
goroutine is done. Pages are taken apart by the bound of their last book, so that no
sum over pages is needed. `BatchesOf` shows that the slices by rank which `Batches`
returns are disjoint and have all the books.

*Chat stream.* Pieces are in order on the wire and in what was received (`InOrder`);
while the stream is open all of them are one or the other (`OpenStream`); a `done` on
the wire is the last chunk and was sent after the save (`DoneLast`), and one that was
received came after all pieces (`Told`).

*Assistant.* The arguments of an RPC come from a call, the call has them from an
approval, the approval from a record. `Inv` says of each link that its action is
registered and confirmed and its arguments are the record's, that records are
written once (`Grows`), and that a call belongs to a running turn. No assumption
but that the bounds are natural numbers. `SessionInv` adds, for sessions whose turns
and confirmed calls never overlapped and while no command failed: one turn at a time
is in the session and has read it as it still is (`Sound`), and an action is in one
place at a time: to be staged, staged, taken by a call, or carried out (`Once`; only
while an approval is moved from key to key may two places know of it).

*Rate limiter.* `LimiterInv` says of a known bucket that what was admitted and what
the bucket holds by now stay within burst and refill, of a forgotten one that a whole
burst is still free (`Earned`); the assumption `RateLimiterAssumption` is what makes
forgetting harmless, and the values in `router.go` satisfy it.

*Accounts.* `AccountInv` says that at most one call is at a profile row as long as the
ghost variable `crossed` does not mark it (`Alone`), that it has read what is still
there (`RowsFresh`), and that an update had the address when it began (`SavesKnown`).
`OneDefault` needs only the types, as one transaction moves the default, and
`CodeStands` is inductive with them: each step that stores a code leaves a mail under
way or the user in `unmailed`, and each that takes one away empties `inbox`.

*Cart.* `WellFormed` holds of the stored carts and of every cart a call has read: a call
may write what it has read whatever happened meanwhile. `WithoutFacts`, `GrownFacts` and
their like say what the operators of `Cart` do to the quantity of each book; a
quantity that leaves int32 marks the cart as `strayed`, so that `Plus` is the sum for all
others.

*Orders.* `Numbered` and `Placed` say that a shard counts its ids without a gap and that
a row is on the shard of its user, which its number names too. `WalkFollows` is the
argument that reading page by page finds every order: of an order not seen yet, at least
`(page - 1) * size` listed ones come before it, and what is created meanwhile comes on
top and pushes it only further down. It needs that a page is a slice of a listing sorted
by time, which for orders without ties puts each at the place its cardinality says.

*Lock.* A handle at work that is not late has the key; two cannot.

*Summaries.* Until calls overlap or a store fails, at most one call is under way
(`OneAtATime`), the number it holds is the newest (`Newest`), and the stores are not
behind what was given (`Stored`, `Behind`).

*Assumptions.* `ServiceConstants` and `OrderConstants` of `MCServices`, `CopyConstants`
and `BulkConstants` of `MCPipelines`, and the one of each other module. TLC evaluates them
on every run. They say what the code fixes: bounds are natural numbers; markers like
`NoProfile` are no values; channels, pages and batches have room; the number of shards
divides 100 (it is four).

*Induction.* The provers cannot use an induction theorem of the library. Where a
recursive function needs one (`Without`), `EveryNumber` proves it for a set: the set of
natural numbers for which the claim fails has no smallest element (`SmallestOf`), so it
is empty. No recursive operator occurs in what is proved about.

*Only model-checked.* The liveness properties: `StaleEntryEnds`, `CheckoutCompensates`,
`PaymentDeductsStock`, `VectorsFollow` and `RunEnds`. Liveness under fairness is out of
the prover's reach. Every invariant and action property of a passing run is proved, some
under the premise that the table names; the properties of the failing runs are
refuted, and for two of them a theorem says which premise saves them
(`PromisesCoveredWhileAlone`, `TransitionsWhileSolo`).

## What the properties do not claim

- `LocksFollowStatus` holds for orders moved by CancelOrder and the consumer whose
  calls to the inventory were answered: UpdateOrderStatus touches no lock, and a
  failed release or deduction is only logged. A consumer that stops after it has
  written the status leaves the stock reserved and its message in the queue, where
  `validTransitions` refuses it for ever.
- `PendingHoldsLocks` and `PromisesCovered` leave out orders that were written while
  CreateOrder saw its transaction fail: it releases their locks while the order waits
  to be paid, and with a payment at the same time copies are promised twice.
- `checkout_flow` has no two requests racing on one order; with them the runs
  `checkout_oversell` and `checkout_cancel_paid` fail. `checkout_races` states what
  remains true then.
- `ExecutedOnce` and `HistoryComplete` hold for sessions whose turns, and whose
  confirmed calls, come one after the other, and without failing commands. Two
  calls may GET one approval before either DELs it; two turns write back the same
  session.
- `IndexFollows` and `VectorsFollow` leave out books whose changes overlapped or of
  which a request failed: nothing repairs these. A deleted book keeps its vector.
- `ProfileKept`, `HoldsWhatWasAsked` and `NeverOlder` speak of what no two calls had in
  hand at once. Overlapping calls do lose updates: all three are read-modify-write
  without a lock. `OneDefault`, `OneStoreOneLine` and `CodeStands` hold however calls
  overlap.
- `DeletedStaysDeleted` leaves out an update that had read the address before it was
  deleted: its Save inserts the row again.
- `CodeStands` does not say that the mailed code works: a later request may replace it
  by one whose mail is still under way or never arrives. `HoldsWhatWasAsked` leaves out
  carts with a quantity that wrapped.
- `EveryBookCounted` says of a cancelled run, be it by its caller or by too many errors,
  only that no book is counted twice: its workers drop what is left in the channel.
- Two actions registered in one turn: only the last is shown, and no property says that
  the other can be confirmed, as it cannot.
- `FoundAgain` leaves out lists in which two orders share a second (their order may
  differ from page to page) or an order left the filter while it was read; orders created
  meanwhile may make it show one twice. Seeded orders that wrapped onto another shard are
  found by neither their number nor their user.

Noticed on the way, and no property: `expire_at` of a lock is written and never
read, though `src/service/inventory/README.md:91` lets a payment timeout release
locks; the comment of `ListAllOrders` speaks of a merge by created_at, which its code
does not do (it has no caller); `seed-big` keeps wrapped users on their shard only if
the number of users is a multiple of the number of shards; an order number leads
to its shard only if that number divides 100; the coordinates the store service
caches are never read.

## Not modelled

- The store service: inserts and reads of single rows; a distance query in SQL.
- Login, JWT, mail, object storage, configuration: library calls without a state that
  a step of another actor could disturb.
- Prompts, agents, retrieval, taste analysis, recommendations and the embedding
  server: text and numbers; their caches expire and no other state has to agree.
- The gateway's other handlers: one HTTP request becomes one RPC.
- Payment amounts and prices, which no step compares; `GetDBByHash` and
  `ListAllOrders`, which nothing calls.
- Import scripts other than the orders of `seed-big`.
- The generated `.pb.go` files: some 9,600 of the 22,500 lines of implementation.
  They hold message types and RPC plumbing and no behaviour of this system; this is
  also why the share of mapped lines stays far below that of the hand-written code
  that keeps state.
- RPCs that go-micro sends again; schedules of the MySQL lock manager beyond which
  statement waits for which row.

## What is left

1. A refinement of `ChatStream` by the turns of `Assistant`.
2. Premises on the steps instead of the states: which schedules of clerks, cancellers and
   consumers of one order still keep `LocksFollowStatus`.
3. Reads that are not modelled but cached for minutes (taste, recommendations).
