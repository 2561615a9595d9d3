----------------------------- MODULE MCServices -----------------------------
\* The services that keep state of their own and share none: accounts, carts,
\* the list of orders, summaries, the rate limiter, the lock.  The initial
\* state chooses the one that runs; the others stay as they begin.
EXTENDS RateLimiter, TLC

CONSTANTS e1, x1, x2, y1, y2, c1, c2, i1,
          Emails, Codes, Values, Calls, MaxAddresses, NoCode, NoProfile, NoAddress,
          Shoppers, Books, Stores, MaxCartItems, MaxAdd, MaxInt, MaxItems, NoStore,
          Users, ShardCount, SeedUsers, SeedOrders, DefaultPageSize, MaxPageSize,
          MaxOrders, MaxSecond, Anything,
          MaxSummaries, NoSummary,
          Lockers, NoToken

\* The placeholders are none of the values they stand in for, a code, a profile
\* and a summary; the bounds are numbers, and one request asks for no more than
\* a quantity can hold.
ASSUME ServiceConstants ==
  /\ MaxAddresses \in Nat
  /\ NoCode \notin [code : Codes, fresh : BOOLEAN]
  /\ NoProfile \notin [phone : Values \cup {NoProfile}, prefs : Values \cup {NoProfile}]
  /\ MaxCartItems \in Nat /\ MaxItems \in Nat
  /\ MaxInt \in Nat /\ MaxAdd \in 0 .. MaxInt
  /\ MaxSummaries \in Nat /\ NoSummary \notin Nat
  /\ NoToken \notin Lockers

\* config.yaml names four order shards and seed-big writes to four: their number
\* divides the hundred of the shard key.  seed-big may be run for any number of
\* users, and makes no more orders than the bound.
ASSUME OrderConstants ==
  /\ ShardCount \in Nat \ {0} /\ 100 % ShardCount = 0
  /\ Users \subseteq Nat
  /\ SeedUsers \in Nat \ {0}
  /\ MaxOrders \in Nat /\ SeedOrders \in 0 .. MaxOrders
  /\ MaxPageSize \in Nat /\ DefaultPageSize \in 1 .. MaxPageSize
  /\ MaxSecond \in Nat \ {0}

VARIABLES part,
          codes, users, profiles, addresses, nextAddr, call, inbox, unmailed, saved, crossed,
          carts, nextItem, cartCall, wanted, strayed,
          shards, second, walk, left,
          cache, stored, made, summaryCall, given, mixed,
          key, handle, late

A == INSTANCE Accounts
K == INSTANCE Cart WITH Users <- Shoppers, call <- cartCall
O == INSTANCE OrderIndex
S == INSTANCE Summaries WITH saved <- stored, call <- summaryCall
L == INSTANCE RedisLock

limiterVars == <<visitors, now, admitted>>
accountVars == <<codes, users, profiles, addresses, nextAddr, call, inbox, unmailed, saved, crossed>>
cartVars == <<carts, nextItem, cartCall, wanted, strayed>>
orderVars == <<shards, second, walk, left>>
summaryVars == <<cache, stored, made, summaryCall, given, mixed>>
lockVars == <<key, handle, late>>

AllInit ==
  /\ part \in {"accounts", "carts", "orders", "summaries", "limiter", "lock"}
  /\ Init /\ A!Init /\ K!Init /\ O!Init /\ S!Init /\ L!Init
  /\ part # "orders" => O!Orders = {}

AllNext ==
  \/ /\ part = "accounts" /\ A!Next
     /\ UNCHANGED <<part, cartVars, orderVars, summaryVars, limiterVars, lockVars>>
  \/ /\ part = "carts" /\ K!Next
     /\ UNCHANGED <<part, accountVars, orderVars, summaryVars, limiterVars, lockVars>>
  \/ /\ part = "orders" /\ O!Next
     /\ UNCHANGED <<part, accountVars, cartVars, summaryVars, limiterVars, lockVars>>
  \/ /\ part = "summaries" /\ S!Next
     /\ UNCHANGED <<part, accountVars, cartVars, orderVars, limiterVars, lockVars>>
  \/ /\ part = "limiter" /\ Next
     /\ UNCHANGED <<part, accountVars, cartVars, orderVars, summaryVars, lockVars>>
  \/ /\ part = "lock" /\ L!Next
     /\ UNCHANGED <<part, accountVars, cartVars, orderVars, summaryVars, limiterVars>>

allVars == <<part, accountVars, cartVars, orderVars, summaryVars, limiterVars, lockVars>>
AllSpec == AllInit /\ [][AllNext]_allVars

\* Codes and books, values and stores, and calls are only compared with each
\* other; the cfg gives the first two pairs of sets the same elements.
Symmetric == Permutations(Codes) \cup Permutations(Values) \cup Permutations(Calls)

\* The state of the part that runs has its type.
AllTypeOK ==
  CASE part = "accounts" -> A!TypeOK
    [] part = "carts" -> K!TypeOK
    [] part = "orders" -> O!TypeOK
    [] part = "summaries" -> S!TypeOK
    [] part = "limiter" -> TypeOK
    [] part = "lock" -> L!TypeOK
\* See Accounts.
OneDefault == part = "accounts" => A!OneDefault
\* See Accounts.
ProfileKept == part = "accounts" => A!ProfileKept
\* See Accounts.
CodeStands == part = "accounts" => A!CodeStands
\* See Accounts.
DeletedStaysDeleted == A!DeletedStaysDeleted
\* See Cart.
OneStoreOneLine == part = "carts" => K!OneStoreOneLine
\* See Cart.
HoldsWhatWasAsked == part = "carts" => K!HoldsWhatWasAsked
\* See OrderIndex.
FoundAgain == part = "orders" => O!FoundAgain
\* See Summaries.
NeverOlder == part = "summaries" => S!NeverOlder
\* See RedisLock.
ExclusiveInTime == L!ExclusiveInTime
=============================================================================
