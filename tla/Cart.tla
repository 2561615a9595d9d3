-------------------------------- MODULE Cart --------------------------------
(***************************************************************************)
(* The cart service: one JSON document per user in Redis, read whole,      *)
(* changed and written whole by every call.  Nothing guards the time       *)
(* between the read and the write.                                         *)
(***************************************************************************)
EXTENDS Integers, Sequences, SequencesExt

CONSTANTS Users, Books, Stores, Calls,
          MaxCartItems,  \* maxCartItems, 50 in the code
          MaxAdd,        \* the most one AddToCart may ask for, 99 in the code
          MaxInt,        \* the largest quantity an int32 holds
          MaxItems,      \* bound: cart lines ever created
          NoStore

VARIABLES carts,     \* cart:<user>; a missing key reads as the empty cart
          nextItem,  \* supply of item ids (uuids in the code)
          call,      \* the handler invocations between their read and their write
          (* for the properties *)
          wanted,    \* user -> what the calls that took effect have asked for so far
          strayed    \* users of whom a change was overwritten, or a quantity wrapped, since
                     \* their cart was last cleared

vars == <<carts, nextItem, call, wanted, strayed>>

ItemIds == 1 .. MaxItems
Int32 == -MaxInt - 1 .. MaxInt
Line == [id : ItemIds, book : Books, store : Stores, qty : Int32]
CartData == [store : Stores \cup {NoStore}, items : Seq(Line)]
EmptyCart == [store |-> NoStore, items |-> <<>>]

Idle == [op |-> "none"]
CallStates ==
  {Idle} \cup [op : {"add"}, user : Users, cart : CartData, book : Books,
               store : Stores, qty : 1 .. MaxAdd]
         \cup [op : {"remove"}, user : Users, cart : CartData, item : ItemIds]
         \cup [op : {"update"}, user : Users, cart : CartData, item : ItemIds, qty : Int32]

\* The quantity of each book, whatever store it is to come from.
Nothing == [b \in Books |-> 0]

TypeOK ==
  /\ carts \in [Users -> CartData]
  /\ nextItem \in 1 .. MaxItems + 1
  /\ call \in [Calls -> CallStates]
  /\ wanted \in [Users -> [Books -> Int]]
  /\ strayed \subseteq Users

Init ==
  /\ carts = [u \in Users |-> EmptyCart]
  /\ nextItem = 1
  /\ call = [c \in Calls |-> Idle]
  /\ wanted = [u \in Users |-> Nothing]
  /\ strayed = {}

-----------------------------------------------------------------------------
(* What the handlers compute from the cart they have read *)

\* int32 addition.
Plus(m, n) == IF m + n > MaxInt THEN m + n - 2 * (MaxInt + 1) ELSE m + n

\* Mutant: only the store of the cart is changed.
ForStoreKeep(cart, s) == [cart EXCEPT !.store = s]

\* A cart with books of another store is replaced.
ForStore(cart, s) ==
  IF cart.items # <<>> /\ cart.store # s THEN [EmptyCart EXCEPT !.store = s]
  ELSE [cart EXCEPT !.store = s]

Has(cart, b) == \E i \in DOMAIN cart.items : cart.items[i].book = b

\* Mutant: the new quantity replaces the old one.
GrownTo(cart, b, q) ==
  [cart EXCEPT !.items =
     [i \in DOMAIN cart.items |->
        IF cart.items[i].book = b
        THEN [cart.items[i] EXCEPT !.qty = q] ELSE cart.items[i]]]

\* The quantity of the book that is already there grows.
Grown(cart, b, q) ==
  [cart EXCEPT !.items =
     [i \in DOMAIN cart.items |->
        IF cart.items[i].book = b
        THEN [cart.items[i] EXCEPT !.qty = Plus(@, q)] ELSE cart.items[i]]]

Appended(cart, id, b, s, q) ==
  [cart EXCEPT !.items = Append(@, [id |-> id, book |-> b, store |-> s, qty |-> q])]

\* RemoveFromCart keeps the other lines in their order.  UpdateCartItem drops
\* the first line with the id, and stops: there is only one, see OneStoreOneLine.
Without(cart, id) ==
  LET items == cart.items
      kept[n \in 0 .. Len(items)] ==
        IF n = 0 THEN <<>>
        ELSE IF items[n].id # id THEN Append(kept[n - 1], items[n]) ELSE kept[n - 1]
  IN [cart EXCEPT !.items = kept[Len(items)]]

WithQuantity(cart, id, q) ==
  [cart EXCEPT !.items =
     [i \in DOMAIN cart.items |->
        IF cart.items[i].id = id THEN [cart.items[i] EXCEPT !.qty = q] ELSE cart.items[i]]]

-----------------------------------------------------------------------------
Begin(c, k) ==
  /\ call[c] = Idle
  /\ call' = [call EXCEPT ![c] = k]
  /\ UNCHANGED <<carts, nextItem, wanted, strayed>>

AddToCart(c, u, b, s, q) ==
  Begin(c, [op |-> "add", user |-> u, cart |-> carts[u], book |-> b, store |-> s, qty |-> q])
RemoveFromCart(c, u, id) ==
  Begin(c, [op |-> "remove", user |-> u, cart |-> carts[u], item |-> id])
UpdateCartItem(c, u, id, q) ==
  Begin(c, [op |-> "update", user |-> u, cart |-> carts[u], item |-> id, qty |-> q])

\* SaveCart replaces the document, whoever has changed it since it was read.
SaveCart(c, cart) ==
  /\ carts' = [carts EXCEPT ![call[c].user] = cart]
  /\ call' = [call EXCEPT ![c] = Idle]

\* The user's books after call c, had it been the only one at work.
Asked(c, w, wraps) ==
  LET u == call[c].user IN
  IF wraps \/ u \in strayed \/ call[c].cart # carts[u]
  THEN strayed' = strayed \cup {u} /\ wanted' = [wanted EXCEPT ![u] = Nothing]
  ELSE UNCHANGED strayed /\ wanted' = [wanted EXCEPT ![u] = w]

\* What the user had asked for, as far as it can come from store s.
Kept(u, s) == IF carts[u].store = s THEN wanted[u] ELSE Nothing

SaveGrown(c) ==
  /\ call[c].op = "add"
  /\ LET k == call[c]
         cart == ForStore(k.cart, k.store)
         w == [Kept(k.user, k.store) EXCEPT ![k.book] = @ + k.qty]
     IN /\ Has(cart, k.book)
        /\ SaveCart(c, Grown(cart, k.book, k.qty))
        /\ Asked(c, w, w[k.book] > MaxInt)
  /\ UNCHANGED nextItem

\* Only a book that is new in the cart is checked against the limit, looked up
\* in the book service and priced by the inventory service.  The stock these
\* calls report is not compared with the quantity.
SaveAppended(c) ==
  /\ call[c].op = "add"
  /\ nextItem <= MaxItems
  /\ LET k == call[c]
         cart == ForStore(k.cart, k.store)
     IN /\ ~Has(cart, k.book)
        /\ Len(cart.items) < MaxCartItems
        /\ SaveCart(c, Appended(cart, nextItem, k.book, k.store, k.qty))
        /\ Asked(c, [Kept(k.user, k.store) EXCEPT ![k.book] = @ + k.qty], FALSE)
  /\ nextItem' = nextItem + 1

LineOf(cart, id) == {i \in DOMAIN cart.items : cart.items[i].id = id}

SaveRemoved(c) ==
  /\ call[c].op = "remove"
  /\ LET k == call[c] IN
       /\ SaveCart(c, Without(k.cart, k.item))
       /\ Asked(c, [b \in Books |-> IF \E i \in LineOf(k.cart, k.item) :
                                              k.cart.items[i].book = b
                                         THEN 0 ELSE wanted[k.user][b]], FALSE)
  /\ UNCHANGED nextItem

\* Any positive quantity is taken over, anything else removes the line.
SaveUpdated(c) ==
  /\ call[c].op = "update"
  /\ LET k == call[c] IN
       /\ SaveCart(c, IF k.qty <= 0 THEN Without(k.cart, k.item)
                      ELSE WithQuantity(k.cart, k.item, k.qty))
       /\ Asked(c, [b \in Books |-> IF \E i \in LineOf(k.cart, k.item) :
                                              k.cart.items[i].book = b
                                         THEN (IF k.qty <= 0 THEN 0 ELSE k.qty)
                                         ELSE wanted[k.user][b]], FALSE)
  /\ UNCHANGED nextItem

\* The cart is full, the book or its stock cannot be read, Redis fails.  A SET
\* that is applied and reported as failed is the action of that SET: what the
\* client is told is not part of the state.
Fail(c) ==
  /\ call[c] # Idle
  /\ call' = [call EXCEPT ![c] = Idle]
  /\ UNCHANGED <<carts, nextItem, wanted, strayed>>

\* ClearCart, which the gateway's clients also call after an order, or the
\* seven days of the key.
ClearCart(u) ==
  /\ carts' = [carts EXCEPT ![u] = EmptyCart]
  /\ wanted' = [wanted EXCEPT ![u] = Nothing]
  /\ strayed' = strayed \ {u}
  /\ UNCHANGED <<nextItem, call>>

Next ==
  \/ \E c \in Calls, u \in Users :
       \/ \E b \in Books, s \in Stores, q \in 1 .. MaxAdd : AddToCart(c, u, b, s, q)
       \/ \E id \in 1 .. nextItem - 1 :
            \/ RemoveFromCart(c, u, id)
            \/ \E q \in {0, MaxInt} : UpdateCartItem(c, u, id, q)
  \/ \E c \in Calls :
       SaveGrown(c) \/ SaveAppended(c) \/ SaveRemoved(c) \/ SaveUpdated(c) \/ Fail(c)
  \/ \E u \in Users : ClearCart(u)

Spec == Init /\ [][Next]_vars

-----------------------------------------------------------------------------
\* However calls overwrite each other, a stored cart has the books of one
\* store, at most one line per book and at most maxCartItems lines, no two with
\* the same id: RemoveFromCart and UpdateCartItem always mean one line.
OneStoreOneLine ==
  \A u \in Users :
    LET items == carts[u].items IN
    /\ Len(items) <= MaxCartItems
    /\ \A i, j \in DOMAIN items :
         /\ items[i].store = carts[u].store
         /\ items[i].book = items[j].book \/ items[i].id = items[j].id => i = j

\* Unless a call wrote a cart it had computed from one that was changed
\* meanwhile, or a quantity left the int32 range, the cart holds what the
\* calls that took effect asked for, for its store.
HoldsWhatWasAsked ==
  \A u \in Users \ strayed : \A b \in Books :
    wanted[u][b] = IF Has(carts[u], b)
                   THEN carts[u].items[CHOOSE i \in DOMAIN carts[u].items :
                                          carts[u].items[i].book = b].qty
                   ELSE 0
=============================================================================
