----------------------------- MODULE OrderIndex -----------------------------
(***************************************************************************)
(* Where orders are kept and how they are found again: the shard of a      *)
(* user, the shard named by an order number, and the pages of a user's     *)
(* list, which a client asks for one after the other while orders are      *)
(* created and change their status.  created_at counts whole seconds.  The *)
(* shards may have been filled by seed-big before, in second 0.            *)
(***************************************************************************)
EXTENDS Naturals, FiniteSets, Sequences, SequencesExt

CONSTANTS Users,            \* user ids
          ShardCount,       \* databases the order service is configured with
          DefaultPageSize,  \* 20 in the code
          MaxPageSize,      \* 100 in the code
          SeedUsers,        \* users seed-big is run with
          SeedOrders,       \* orders it is run with
          MaxOrders,        \* bound: orders in all shards
          MaxSecond,        \* bound: the clock
          Anything          \* no filter on the status

VARIABLES shards,   \* shard -> its order rows
          second,   \* the clock of the databases
          walk,     \* a client that reads the list of a user page by page
          (* for the properties *)
          left      \* an order left the walk's filter before the walk ended

vars == <<shards, second, walk, left>>

Shards == 0 .. ShardCount - 1
Statuses == {"pending_payment", "paid", "completed", "cancelled"}
Order == [id : 1 .. MaxOrders, user : Users \cup 1 .. SeedUsers, no : 0 .. 99,
          at : 0 .. MaxSecond, status : Statuses]
Orders == UNION {shards[i] : i \in Shards}

NoWalk == [page |-> 0]
Walks == [user : Users, status : Statuses \cup {Anything}, size : 1 .. MaxPageSize,
          page : 0 .. MaxOrders + 1, there : SUBSET (1 .. MaxOrders),
          seen : SUBSET (1 .. MaxOrders)]

TypeOK ==
  /\ shards \in [Shards -> SUBSET Order]
  /\ second \in 1 .. MaxSecond
  /\ walk = NoWalk \/ walk \in Walks
  /\ left \in BOOLEAN

-----------------------------------------------------------------------------
(* Routing *)

GetDB(key) == key % ShardCount

\* GenerateOrderNo: the last two digits of the user id open the order number.
ShardKeyInNo(u) == u % 100

GetOrderByNo(no) == {o \in shards[GetDB(no)] : o.no = no}

NewOrder(id, u, at, status) ==
  [id |-> id, user |-> u, no |-> ShardKeyInNo(u), at |-> at, status |-> status]

-----------------------------------------------------------------------------
(* seed-big goes through the shards and makes up a user for each order. *)

UserOfShard(i, k) == ShardCount * k + (IF i = 0 THEN ShardCount ELSE i)
Wraps(i, k) == UserOfShard(i, k) > SeedUsers

userIDForShard(i, k) ==
  IF Wraps(i, k) THEN ((UserOfShard(i, k) - 1) % SeedUsers) + 1 ELSE UserOfShard(i, k)

Target(i) == (SeedOrders \div ShardCount) + (IF i < SeedOrders % ShardCount THEN 1 ELSE 0)

seedOrders(status) ==
  [i \in Shards |->
     {NewOrder(k + 1, userIDForShard(i, k), 0, status[<<i, k>>]) : k \in 0 .. Target(i) - 1}]

Init ==
  /\ \/ shards = [i \in Shards |-> {}]
     \/ \E status \in [Shards \X (0 .. Target(0) - 1) -> Statuses] : shards = seedOrders(status)
  /\ second = 1
  /\ walk = NoWalk
  /\ left = FALSE

-----------------------------------------------------------------------------
(* Orders are created, and paid while somebody may be reading the list. *)

\* Every shard counts its own ids, so two orders may share an id.
CreateOrder(u) ==
  /\ Cardinality(Orders) < MaxOrders
  /\ LET i == GetDB(u) IN
       shards' = [shards EXCEPT ![i] = @ \cup
         {NewOrder(Cardinality(shards[i]) + 1, u, second, "pending_payment")}]
  /\ UNCHANGED <<second, walk, left>>

Tick ==
  /\ second < MaxSecond
  /\ second' = second + 1
  /\ UNCHANGED <<shards, walk, left>>

-----------------------------------------------------------------------------
(* Listing *)

Matches(o, u, status) == o.user = u /\ status \in {Anything, o.status}
Listed(u, status) == {o \in shards[GetDB(u)] : Matches(o, u, status)}

\* An order is marked paid, by its id on the shard of the user id that is given,
\* while somebody may be reading the list.
UpdateStatus(i, o) ==
  /\ o.status = "pending_payment"
  /\ shards' = [shards EXCEPT ![i] = (@ \ {o}) \cup {[o EXCEPT !.status = "paid"]}]
  /\ left' = (left \/ (walk # NoWalk /\ i = GetDB(walk.user) /\ walk.status = o.status
                       /\ Matches(o, walk.user, walk.status)))
  /\ UNCHANGED <<second, walk>>

\* The gateway takes the default for any size out of range, the service only for
\* one that is not positive.
GatewayPageSize(n) == IF n < 1 \/ n > MaxPageSize THEN DefaultPageSize ELSE n

PageSize(n) == IF n <= 0 THEN DefaultPageSize ELSE IF n > MaxPageSize THEN MaxPageSize ELSE n

StartWalk(u, status, n) ==
  /\ walk.page = 0
  /\ walk' = [user |-> u, status |-> status, size |-> PageSize(n), page |-> 1,
              there |-> {o.id : o \in Listed(u, status)}, seen |-> {}]
  /\ left' = FALSE
  /\ UNCHANGED <<shards, second>>

\* ORDER BY created_at DESC says nothing about orders of the same second: each
\* query may return them in another order.
Listings(orders) ==
  {s \in SetToSeqs(orders) : \A i, j \in DOMAIN s : i < j => s[i].at >= s[j].at}

\* Mutant: pages are counted from zero.
OffsetFromZero == walk.page * walk.size
Offset == (walk.page - 1) * walk.size

\* One request for a page; a page that is not full is the last one (page 0).
ReadPage ==
  /\ walk.page > 0
  /\ \E s \in Listings(Listed(walk.user, walk.status)) :
       LET rows == {s[i] : i \in {i \in DOMAIN s : Offset < i /\ i <= Offset + walk.size}}
       IN walk' = [walk EXCEPT !.seen = @ \cup {o.id : o \in rows},
                               !.page = IF Cardinality(rows) < walk.size THEN 0 ELSE @ + 1]
  /\ UNCHANGED <<shards, second, left>>

Next ==
  \/ \E u \in Users :
       \/ CreateOrder(u)
       \/ \E status \in {"pending_payment", Anything}, n \in 0 .. MaxPageSize + 1 :
            StartWalk(u, status, n) \/ StartWalk(u, status, GatewayPageSize(n))
  \/ \E i \in Shards : \E o \in shards[i] : UpdateStatus(i, o)
  \/ ReadPage
  \/ Tick

Spec == Init /\ [][Next]_vars

-----------------------------------------------------------------------------
Tied(u) == \E o, p \in Listed(u, Anything) : o # p /\ o.at = p.at

\* A seeded order whose user began again at the first one, where that leads to
\* another shard.
Displaced(i, o) == o.at = 0 /\ Wraps(i, o.id - 1) /\ SeedUsers % ShardCount # 0

\* An order, seeded or created, can be found again on the shard its number names
\* and on that of its user, unless it was seeded for a user of another shard.
\* And a client that reads a list to its end has seen at least once every order
\* that was in it when it began, whatever is created meanwhile - unless two
\* orders of the user share a second, or a listed order left the filter.
FoundAgain ==
  /\ \A i \in Shards : \A o \in shards[i] :
       Displaced(i, o) \/ o \in GetOrderByNo(o.no) \cap Listed(o.user, Anything)
  /\ walk # NoWalk /\ walk.page = 0 /\ ~left /\ ~Tied(walk.user)
       => walk.there \subseteq walk.seen
=============================================================================
