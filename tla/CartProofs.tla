----------------------------- MODULE CartProofs -----------------------------
(***************************************************************************)
(* Theorems about the cart service, for every number of users, books,      *)
(* stores, calls and lines.  They are stated of the composition the run    *)
(* checks; K is the module Cart in it.                                     *)
(***************************************************************************)
EXTENDS MCServices, Sequences, TLAPS, FiniteSetTheorems, WellFoundedInduction

-----------------------------------------------------------------------------
(* Induction over the numbers, from the well-foundedness of finite sets *)

\* A set of numbers has a smallest one.
LEMMA SmallestOf ==
  ASSUME NEW T, T \subseteq Nat, T # {}
  PROVE  \E x \in T : \A y \in T : x <= y
<1>1. PICK prefixes : prefixes = {1 .. n : n \in T}
  OBVIOUS
<1>2. prefixes \subseteq FiniteSubsetsOf(Nat) /\ prefixes # {}
  <2>1. ASSUME NEW n \in T
        PROVE  (1 .. n) \in FiniteSubsetsOf(Nat)
    <3>1. IsFiniteSet(1 .. n)
      BY FS_Interval
    <3>2. (1 .. n) \in SUBSET Nat
      OBVIOUS
    <3> QED
      BY <3>1, <3>2, Zenon DEF FiniteSubsetsOf
  <2> QED
    BY <1>1, <2>1
<1>3. \E x \in prefixes : \A y \in prefixes : ~ (<<y, x>> \in StrictSubsetOrdering(Nat))
  BY <1>2, FS_StrictSubsetOrderingWellFounded, WFMin
<1>4. PICK x \in T : \A y \in T : ~ (<<1 .. y, 1 .. x>> \in StrictSubsetOrdering(Nat))
  BY <1>1, <1>3
<1>5. ASSUME NEW y \in T, ~(x <= y)
      PROVE  FALSE
  <2>1. 1 .. y \subseteq 1 .. x /\ x \in 1 .. x /\ x \notin 1 .. y
    BY <1>5
  <2>2. 1 .. y \in FiniteSubsetsOf(Nat) /\ 1 .. x \in FiniteSubsetsOf(Nat)
    BY <1>1, <1>2
  <2>3. <<1 .. y, 1 .. x>> \in StrictSubsetOrdering(Nat)
    BY <2>1, <2>2 DEF StrictSubsetOrdering
  <2> QED
    BY <2>3, <1>4
<1> QED
  BY <1>4, <1>5

\* A set with 0 and the successor of each of its numbers has every number.
LEMMA EveryNumber ==
  ASSUME NEW T, 0 \in T, \A n \in Nat : n \in T => n + 1 \in T
  PROVE  Nat \subseteq T
<1> SUFFICES ASSUME ~(Nat \subseteq T)
             PROVE  FALSE
  OBVIOUS
<1> PICK x \in Nat \ T : \A y \in Nat \ T : x <= y
  BY SmallestOf
<1>1. x # 0
  OBVIOUS
<1>2. x - 1 \in Nat
  BY <1>1
<1>3. x - 1 \in T
  BY <1>2
<1> QED
  BY <1>2, <1>3

-----------------------------------------------------------------------------
(* Taking a line out *)

\* The loop over the lines, as the equation of its intermediate results.
Loop(kept, items, id, m) ==
  kept = [n \in 0 .. m |->
            IF n = 0 THEN <<>>
            ELSE IF items[n].id # id THEN Append(kept[n - 1], items[n]) ELSE kept[n - 1]]

LEMMA LoopRuns ==
  ASSUME NEW items, NEW id, NEW len \in Nat
  PROVE  \E kept : Loop(kept, items, id, len)
<1> DEFINE T == {m \in Nat : \E kept : Loop(kept, items, id, m)}
<1>1. 0 \in T
  <2>1. PICK kept : kept = [n \in 0 .. 0 |-> <<>>]
    OBVIOUS
  <2>2. kept = [n \in 0 .. 0 |->
            IF n = 0 THEN <<>>
            ELSE IF items[n].id # id THEN Append(kept[n - 1], items[n]) ELSE kept[n - 1]]
    BY <2>1
  <2> QED
    BY <2>2 DEF Loop
<1>2. ASSUME NEW m \in Nat, m \in T
      PROVE  m + 1 \in T
  <2>1. PICK kept : Loop(kept, items, id, m)
    BY <1>2
  <2>2. PICK next : next =
          [n \in 0 .. m + 1 |->
             IF n <= m THEN kept[n]
             ELSE IF items[n].id # id THEN Append(kept[m], items[n]) ELSE kept[m]]
    OBVIOUS
  <2> DEFINE Step(f, n) == IF n = 0 THEN <<>>
            ELSE IF items[n].id # id THEN Append(f[n - 1], items[n]) ELSE f[n - 1]
  <2>3. ASSUME NEW n \in 0 .. m + 1
        PROVE  next[n] = Step(next, n)
    <3>1. CASE n <= m
      <4>1. next[n] = kept[n]
        BY <3>1, <2>2
      <4>4. n \in 0 .. m
        BY <3>1
      <4>5. kept[n] = Step(kept, n)
        BY <4>4, <2>1 DEF Loop
      <4>2. n # 0 => n - 1 \in 0 .. m + 1 /\ n - 1 <= m
        BY <3>1
      <4>3. n # 0 => next[n - 1] = kept[n - 1]
        BY <4>2, <2>2
      <4> QED
        BY <4>1, <4>3, <4>5
    <3>2. CASE n = m + 1
      <4>1. n # 0 /\ n - 1 = m /\ next[m] = kept[m]
        BY <3>2, <2>2
      <4>2. next[n] = IF items[n].id # id THEN Append(kept[m], items[n]) ELSE kept[m]
        BY <3>2, <2>2
      <4> QED
        BY <4>1, <4>2
    <3> QED
      BY <3>1, <3>2
  <2>4. next = [n \in 0 .. m + 1 |-> Step(next, n)]
    BY <2>2, <2>3
  <2> QED
    BY <2>4 DEF Loop
<1>3. Nat \subseteq T
  <2> HIDE DEF T
  <2> QED
    BY <1>1, <1>2, EveryNumber
<1> QED
  BY <1>3

LEMMA WithoutLoop ==
  ASSUME NEW cart, NEW id, Len(cart.items) \in Nat
  PROVE  \E kept : /\ Loop(kept, cart.items, id, Len(cart.items))
                   /\ K!Without(cart, id) = [cart EXCEPT !.items = kept[Len(cart.items)]]
<1>1. \E kept : Loop(kept, cart.items, id, Len(cart.items))
  BY LoopRuns
<1>2. PICK kept : kept = CHOOSE f : Loop(f, cart.items, id, Len(cart.items))
  OBVIOUS
<1>3. Loop(kept, cart.items, id, Len(cart.items))
  BY <1>1, <1>2
<1>4. K!Without(cart, id) = [cart EXCEPT !.items = kept[Len(cart.items)]]
  BY <1>2 DEF K!Without, Loop
<1> QED
  BY <1>3, <1>4

\* What the loop leaves of lines with distinct ids: the others, each once.
Distinct(items) == \A i, j \in DOMAIN items : items[i].id = items[j].id => i = j
Others(rest, items, id, m) ==
  /\ rest \in Seq(K!Line) /\ Len(rest) <= m
  /\ \A j \in DOMAIN rest : \E i \in 1 .. m : rest[j] = items[i] /\ items[i].id # id
  /\ \A i \in 1 .. m : items[i].id # id => \E j \in DOMAIN rest : rest[j] = items[i]
  /\ Distinct(rest)

LEMMA LoopKeepsOthers ==
  ASSUME NEW items \in Seq(K!Line), NEW id, Distinct(items),
         NEW kept, Loop(kept, items, id, Len(items))
  PROVE  Others(kept[Len(items)], items, id, Len(items))
<1> DEFINE T == {m \in Nat : m <= Len(items) => Others(kept[m], items, id, m)}
<1>1. 0 \in T
  <2>1. kept[0] = <<>>
    BY DEF Loop
  <2>2. Others(<<>>, items, id, 0)
    BY DEF Others, Distinct
  <2> QED
    BY <2>1, <2>2
<1>2. ASSUME NEW m \in Nat, m \in T
      PROVE  m + 1 \in T
  <2> SUFFICES ASSUME m + 1 <= Len(items)
               PROVE  Others(kept[m + 1], items, id, m + 1)
    OBVIOUS
  <2>1. Others(kept[m], items, id, m)
    BY <1>2
  <2> PICK rest \in Seq(K!Line) : rest = kept[m]
    BY <2>1 DEF Others
  <2>2. m + 1 \in 0 .. Len(items) /\ m + 1 # 0 /\ (m + 1) - 1 = m /\ m + 1 \in DOMAIN items
    OBVIOUS
  <2>3. kept[m + 1] = IF items[m + 1].id # id THEN Append(rest, items[m + 1]) ELSE rest
    BY <2>2 DEF Loop
  <2> PICK line \in K!Line : line = items[m + 1]
    BY <2>2
  <2>4. CASE line.id = id
    BY <2>1, <2>2, <2>3, <2>4 DEF Others
  <2>5. CASE line.id # id
    <3>0. Append(rest, line) \in Seq(K!Line)
      OBVIOUS
    <3> PICK more \in Seq(K!Line) : more = Append(rest, line)
      BY <3>0
    <3>1. /\ Len(more) = Len(rest) + 1 /\ more[Len(more)] = line
          /\ \A j \in DOMAIN rest : j \in DOMAIN more /\ more[j] = rest[j]
          /\ \A j \in DOMAIN more : j \in DOMAIN rest \/ j = Len(more)
          /\ Len(more) \in DOMAIN more
      OBVIOUS
    <3>2. \A j \in DOMAIN more : \E i \in 1 .. m + 1 : more[j] = items[i] /\ items[i].id # id
      BY <2>1, <2>2, <2>5, <3>1 DEF Others
    <3>3. \A i \in 1 .. m + 1 : items[i].id # id => \E j \in DOMAIN more : more[j] = items[i]
      <4> SUFFICES ASSUME NEW i \in 1 .. m + 1, items[i].id # id
                   PROVE  \E j \in DOMAIN more : more[j] = items[i]
        OBVIOUS
      <4>1. CASE i = m + 1
        BY <4>1, <3>1
      <4>2. CASE i \in 1 .. m
        BY <4>2, <2>1, <3>1 DEF Others
      <4> QED
        BY <4>1, <4>2
    <3>4. \A j \in DOMAIN rest : rest[j].id # line.id
      BY <2>1, <2>2, SMTT(30) DEF Others, Distinct
    <3>5. Distinct(more)
      <4>1. Distinct(rest)
        BY <2>1 DEF Others
      <4>2. SUFFICES ASSUME NEW i \in DOMAIN more, NEW j \in DOMAIN more,
                            more[i].id = more[j].id
                     PROVE  i = j
        BY DEF Distinct
      <4>3. i \in DOMAIN rest /\ j = Len(more) => FALSE
        BY <3>1, <3>4, <4>2
      <4>4. j \in DOMAIN rest /\ i = Len(more) => FALSE
        BY <3>1, <3>4, <4>2
      <4>5. i \in DOMAIN rest /\ j \in DOMAIN rest => i = j
        BY <3>1, <4>1, <4>2 DEF Distinct
      <4> QED
        BY <3>1, <4>3, <4>4, <4>5
    <3>6. Len(more) <= m + 1
      BY <2>1, <3>1 DEF Others
    <3>7. Others(more, items, id, m + 1)
      BY <3>2, <3>3, <3>5, <3>6 DEF Others
    <3>8. kept[m + 1] = more
      BY <2>3, <2>5
    <3> QED
      BY <3>7, <3>8
  <2> QED
    BY <2>4, <2>5
<1>3. Nat \subseteq T
  <2> HIDE DEF T
  <2> QED
    BY <1>1, <1>2, EveryNumber
<1>4. Len(items) \in Nat
  OBVIOUS
<1> QED
  BY <1>3, <1>4

-----------------------------------------------------------------------------
(* What the handlers make of a well-formed cart *)

\* A cart with one store, one line per book, and ids below n.
WellFormed(cart, n) ==
  LET items == cart.items IN
  /\ Len(items) <= MaxCartItems
  /\ \A i \in DOMAIN items : items[i].store = cart.store /\ items[i].id < n
  /\ \A i, j \in DOMAIN items : items[i].book = items[j].book => i = j
  /\ Distinct(items)

QtyOf(cart, b) ==
  IF K!Has(cart, b)
  THEN cart.items[CHOOSE i \in DOMAIN cart.items : cart.items[i].book = b].qty
  ELSE 0

LEMMA QtyOfLine ==
  ASSUME NEW n, NEW cart \in K!CartData, WellFormed(cart, n), NEW b
  PROVE  /\ \A i \in DOMAIN cart.items : cart.items[i].book = b => QtyOf(cart, b) = cart.items[i].qty
         /\ ~K!Has(cart, b) => QtyOf(cart, b) = 0
  BY DEF QtyOf, WellFormed, K!Has

\* The same for a line given by its place.
LEMMA QtyAt ==
  ASSUME NEW n, NEW cart \in K!CartData, WellFormed(cart, n),
         NEW items, items = cart.items, NEW i \in DOMAIN items
  PROVE  QtyOf(cart, items[i].book) = items[i].qty
  BY QtyOfLine

\* The fields of a cart and of its lines.
LEMMA CartFields ==
  /\ \A cart \in K!CartData : cart.store \in Stores \cup {NoStore} /\ cart.items \in Seq(K!Line)
  /\ \A s \in Stores \cup {NoStore}, l \in Seq(K!Line) : [store |-> s, items |-> l] \in K!CartData
  /\ \A cart \in K!CartData : \A l : [cart EXCEPT !.items = l] = [store |-> cart.store, items |-> l]
  /\ \A cart \in K!CartData : \A s : [cart EXCEPT !.store = s] = [store |-> s, items |-> cart.items]
  BY DEF K!CartData

LEMMA LineFields ==
  /\ \A l \in K!Line : l.id \in K!ItemIds /\ l.book \in Books /\ l.store \in Stores /\ l.qty \in K!Int32
  /\ \A l \in K!Line, q \in K!Int32 :
       /\ [l EXCEPT !.qty = q] \in K!Line
       /\ [l EXCEPT !.qty = q].id = l.id /\ [l EXCEPT !.qty = q].book = l.book
       /\ [l EXCEPT !.qty = q].store = l.store /\ [l EXCEPT !.qty = q].qty = q
  /\ \A id \in K!ItemIds, b \in Books, s \in Stores, q \in K!Int32 :
       [id |-> id, book |-> b, store |-> s, qty |-> q] \in K!Line
  BY DEF K!Line

\* A sequence with the domain of another.
LEMMA SameLength ==
  ASSUME NEW V, NEW s \in Seq(V), NEW t \in [DOMAIN s -> V]
  PROVE  t \in Seq(V) /\ Len(t) = Len(s) /\ DOMAIN t = DOMAIN s
<1>1. DOMAIN s = 1 .. Len(s) /\ Len(s) \in Nat
  OBVIOUS
<1>2. t \in [1 .. Len(s) -> V]
  BY <1>1
<1> QED
  BY <1>1, <1>2

LEMMA WithoutFacts ==
  ASSUME NEW n, NEW cart \in K!CartData, WellFormed(cart, n), NEW id
  PROVE  /\ K!Without(cart, id) \in K!CartData /\ WellFormed(K!Without(cart, id), n)
         /\ \A b \in Books : QtyOf(K!Without(cart, id), b)
              = IF \E i \in K!LineOf(cart, id) : cart.items[i].book = b THEN 0 ELSE QtyOf(cart, b)
<1> PICK items \in Seq(K!Line) : items = cart.items
  BY CartFields
<1>1. Distinct(items)
  BY DEF WellFormed
<1>2. PICK kept : /\ Loop(kept, items, id, Len(items))
                  /\ K!Without(cart, id) = [cart EXCEPT !.items = kept[Len(items)]]
  BY WithoutLoop
<1>3. Others(kept[Len(items)], items, id, Len(items))
  BY <1>1, <1>2, LoopKeepsOthers
<1> PICK rest \in Seq(K!Line) : rest = kept[Len(items)]
  BY <1>3 DEF Others
<1>4. /\ Len(rest) <= Len(items) /\ Distinct(rest)
      /\ \A j \in DOMAIN rest : \E i \in DOMAIN items : rest[j] = items[i] /\ items[i].id # id
      /\ \A i \in DOMAIN items : items[i].id # id => \E j \in DOMAIN rest : rest[j] = items[i]
  <2>1. Others(rest, items, id, Len(items))
    BY <1>3
  <2>2. 1 .. Len(items) = DOMAIN items
    OBVIOUS
  <2>3. \A i \in 1 .. Len(items) : items[i].id # id => \E j \in DOMAIN rest : rest[j] = items[i]
    BY <2>1 DEF Others
  <2>4. \A j \in DOMAIN rest : \E i \in 1 .. Len(items) : rest[j] = items[i] /\ items[i].id # id
    BY <2>1 DEF Others
  <2>5. Len(rest) <= Len(items) /\ Distinct(rest)
    BY <2>1 DEF Others
  <2> QED
    BY <2>2, <2>3, <2>4, <2>5, SMTT(30)
<1> PICK s \in Stores \cup {NoStore} : s = cart.store
  BY CartFields
<1> PICK out \in K!CartData : out = [store |-> s, items |-> rest]
  BY CartFields
<1>5. K!Without(cart, id) = out /\ out.store = s /\ out.items = rest
  BY <1>2, CartFields
<1>6. WellFormed(out, n)
  <2>1. Len(rest) <= MaxCartItems
    <3>1. Len(items) <= MaxCartItems /\ Len(items) \in Nat /\ Len(rest) \in Nat
      BY DEF WellFormed
    <3> QED
      BY <1>4, <3>1, ServiceConstants
  <2>2. \A i \in DOMAIN rest : rest[i].store = s /\ rest[i].id < n
    BY <1>4 DEF WellFormed
  <2>3. ASSUME NEW i \in DOMAIN rest, NEW j \in DOMAIN rest, rest[i].book = rest[j].book
        PROVE  i = j
    <3>2. PICK k \in DOMAIN items : rest[i] = items[k]
      BY <1>4
    <3>3. PICK l \in DOMAIN items : rest[j] = items[l]
      BY <1>4
    <3>4. k = l
      BY <2>3, <3>2, <3>3 DEF WellFormed
    <3>1. rest[i].id = rest[j].id
      BY <3>2, <3>3, <3>4
    <3> QED
      BY <1>4, <3>1 DEF Distinct
  <2> QED
    BY <1>4, <1>5, <2>1, <2>2, <2>3 DEF WellFormed
<1>7. ASSUME NEW b \in Books
      PROVE  QtyOf(out, b)
               = IF \E i \in K!LineOf(cart, id) : cart.items[i].book = b THEN 0 ELSE QtyOf(cart, b)
  <2>1. CASE \E i \in DOMAIN items : items[i].id = id /\ items[i].book = b
    <3>1. ~K!Has(out, b)
      <4>1. SUFFICES ASSUME NEW j \in DOMAIN rest, rest[j].book = b
                     PROVE  FALSE
        BY <1>5 DEF K!Has
      <4>2. PICK i \in DOMAIN items : rest[j] = items[i] /\ items[i].id # id
        BY <1>4
      <4> QED
        BY <2>1, <4>1, <4>2 DEF WellFormed
    <3>2. QtyOf(out, b) = 0
      BY <3>1 DEF QtyOf
    <3> QED
      BY <2>1, <3>2 DEF K!LineOf
  <2>2. CASE ~ \E i \in DOMAIN items : items[i].id = id /\ items[i].book = b
    <3>1. QtyOf(out, b) = QtyOf(cart, b)
      <4>1. CASE \E i \in DOMAIN items : items[i].book = b
        <5>1. PICK i \in DOMAIN items : items[i].book = b
          BY <4>1
        <5>2. PICK j \in DOMAIN rest : rest[j] = items[i]
          BY <1>4, <2>2, <5>1
        <5>3. QtyOf(cart, b) = items[i].qty
          BY <5>1, QtyOfLine
        <5>4. QtyOf(out, b) = rest[j].qty
          BY <1>5, <1>6, <5>1, <5>2, QtyOfLine
        <5> QED
          BY <5>2, <5>3, <5>4
      <4>2. CASE ~ \E i \in DOMAIN items : items[i].book = b
        <5>1. ~K!Has(cart, b)
          BY <4>2 DEF K!Has
        <5>2. ~K!Has(out, b)
          BY <1>4, <1>5, <4>2 DEF K!Has
        <5> QED
          BY <5>1, <5>2 DEF QtyOf
      <4> QED
        BY <4>1, <4>2
    <3> QED
      BY <2>2, <3>1 DEF K!LineOf
  <2> QED
    BY <2>1, <2>2
<1> QED
  BY <1>5, <1>6, <1>7

LEMMA ForStoreFacts ==
  ASSUME NEW n, NEW cart \in K!CartData, WellFormed(cart, n), NEW s \in Stores
  PROVE  /\ K!ForStore(cart, s) \in K!CartData /\ WellFormed(K!ForStore(cart, s), n)
         /\ K!ForStore(cart, s).store = s
         /\ \A b \in Books : QtyOf(K!ForStore(cart, s), b)
                                = IF cart.store = s THEN QtyOf(cart, b) ELSE 0
<1> PICK items \in Seq(K!Line) : items = cart.items
  BY CartFields
<1>1. CASE cart.store = s
  <2>1. K!ForStore(cart, s) = cart
    BY <1>1 DEF K!ForStore, K!CartData
  <2> QED
    BY <1>1, <2>1
<1>2. CASE cart.store # s
  <2> PICK out \in K!CartData : out = [store |-> s, items |-> <<>>]
    <3>1. <<>> \in Seq(K!Line)
      OBVIOUS
    <3> QED
      BY <3>1, CartFields
  <2>1. K!ForStore(cart, s) = out
    <3>1. CASE items = <<>>
      BY <1>2, <3>1, CartFields DEF K!ForStore
    <3>2. CASE items # <<>>
      BY <1>2, <3>2 DEF K!ForStore, K!EmptyCart
    <3> QED
      BY <3>1, <3>2
  <2>2. out.store = s /\ out.items = <<>>
    OBVIOUS
  <2>3. Len(<<>>) = 0 /\ DOMAIN <<>> = {}
    OBVIOUS
  <2>4. WellFormed(out, n)
    BY <2>2, <2>3, ServiceConstants DEF WellFormed, Distinct
  <2>5. \A b \in Books : QtyOf(out, b) = 0
    BY <2>2, <2>3 DEF QtyOf, K!Has
  <2> QED
    BY <1>2, <2>1, <2>2, <2>4, <2>5
<1> QED
  BY <1>1, <1>2

LEMMA GrownFacts ==
  ASSUME NEW n, NEW cart \in K!CartData, WellFormed(cart, n),
         NEW b \in Books, K!Has(cart, b), NEW q \in 1 .. MaxAdd
  PROVE  /\ K!Grown(cart, b, q) \in K!CartData /\ WellFormed(K!Grown(cart, b, q), n)
         /\ K!Grown(cart, b, q).store = cart.store
         /\ \A d \in Books : QtyOf(K!Grown(cart, b, q), d)
              = IF d = b THEN K!Plus(QtyOf(cart, b), q) ELSE QtyOf(cart, d)
<1> PICK items \in Seq(K!Line) : items = cart.items
  BY CartFields
<1> PICK s \in Stores \cup {NoStore} : s = cart.store
  BY CartFields
<1> PICK more : more = [i \in DOMAIN cart.items |->
                          IF cart.items[i].book = b
                          THEN [cart.items[i] EXCEPT !.qty = K!Plus(@, q)] ELSE cart.items[i]]
  OBVIOUS
<1>0. more = [i \in DOMAIN items |->
                IF items[i].book = b
                THEN [items[i] EXCEPT !.qty = K!Plus(items[i].qty, q)] ELSE items[i]]
  OBVIOUS
<1>1. \A m \in K!Int32 : K!Plus(m, q) \in K!Int32
  BY ServiceConstants, SMTT(30) DEF K!Int32, K!Plus
<1>2. \A i \in DOMAIN items :
        /\ more[i] \in K!Line /\ more[i].id = items[i].id /\ more[i].book = items[i].book
        /\ more[i].store = items[i].store
        /\ more[i].qty = IF items[i].book = b THEN K!Plus(items[i].qty, q) ELSE items[i].qty
  <2> SUFFICES ASSUME NEW i \in DOMAIN items
               PROVE  /\ more[i] \in K!Line /\ more[i].id = items[i].id
                      /\ more[i].book = items[i].book /\ more[i].store = items[i].store
                      /\ more[i].qty = IF items[i].book = b
                                       THEN K!Plus(items[i].qty, q) ELSE items[i].qty
    OBVIOUS
  <2> PICK l \in K!Line : l = items[i]
    OBVIOUS
  <2>1. K!Plus(l.qty, q) \in K!Int32
    BY <1>1, LineFields
  <2>2. more[i] = IF l.book = b THEN [l EXCEPT !.qty = K!Plus(l.qty, q)] ELSE l
    BY <1>0
  <2> QED
    BY <2>1, <2>2, LineFields
<1>3. more \in Seq(K!Line) /\ Len(more) = Len(items) /\ DOMAIN more = DOMAIN items
  <2>1. more \in [DOMAIN items -> K!Line]
    BY <1>0, <1>2
  <2> QED
    BY <2>1, SameLength
<1> PICK out \in K!CartData : out = [store |-> s, items |-> more]
  BY <1>3, CartFields
<1>4. K!Grown(cart, b, q) = out /\ out.store = s /\ out.items = more
  <2>1. K!Grown(cart, b, q) = [cart EXCEPT !.items = more]
    BY DEF K!Grown
  <2> QED
    BY <2>1, CartFields
<1>5. WellFormed(out, n)
  BY <1>2, <1>3, <1>4 DEF WellFormed, Distinct
<1>7. \A i \in DOMAIN more : QtyOf(out, more[i].book) = more[i].qty
  BY <1>4, <1>5, QtyAt, ZenonT(60)
<1>6. ASSUME NEW d \in Books
      PROVE  QtyOf(out, d) = IF d = b THEN K!Plus(QtyOf(cart, b), q) ELSE QtyOf(cart, d)
  <2>1. CASE \E i \in DOMAIN items : items[i].book = d
    <3>1. PICK i \in DOMAIN items : items[i].book = d
      BY <2>1
    <3>2. QtyOf(cart, d) = items[i].qty
      BY <3>1, QtyOfLine
    <3>3. QtyOf(out, d) = more[i].qty
      BY <1>2, <1>3, <1>7, <3>1
    <3> QED
      BY <1>2, <3>1, <3>2, <3>3
  <2>2. CASE ~ \E i \in DOMAIN items : items[i].book = d
    <3>1. d # b
      BY <2>2 DEF K!Has
    <3>2. ~K!Has(cart, d)
      BY <2>2 DEF K!Has
    <3>3. ~K!Has(out, d)
      BY <1>2, <1>3, <1>4, <2>2 DEF K!Has
    <3> QED
      BY <3>1, <3>2, <3>3 DEF QtyOf
  <2> QED
    BY <2>1, <2>2
<1> QED
  BY <1>4, <1>5, <1>6

LEMMA WithQuantityFacts ==
  ASSUME NEW n, NEW cart \in K!CartData, WellFormed(cart, n), NEW id, NEW q \in K!Int32
  PROVE  /\ K!WithQuantity(cart, id, q) \in K!CartData /\ WellFormed(K!WithQuantity(cart, id, q), n)
         /\ \A b \in Books : QtyOf(K!WithQuantity(cart, id, q), b)
              = IF \E i \in K!LineOf(cart, id) : cart.items[i].book = b THEN q ELSE QtyOf(cart, b)
<1> PICK items \in Seq(K!Line) : items = cart.items
  BY CartFields
<1> PICK s \in Stores \cup {NoStore} : s = cart.store
  BY CartFields
<1> PICK more : more = [i \in DOMAIN cart.items |->
                          IF cart.items[i].id = id
                          THEN [cart.items[i] EXCEPT !.qty = q] ELSE cart.items[i]]
  OBVIOUS
<1>0. more = [i \in DOMAIN items |->
                IF items[i].id = id THEN [items[i] EXCEPT !.qty = q] ELSE items[i]]
  OBVIOUS
<1>1. \A i \in DOMAIN items :
        /\ more[i] \in K!Line /\ more[i].id = items[i].id /\ more[i].book = items[i].book
        /\ more[i].store = items[i].store
        /\ more[i].qty = IF items[i].id = id THEN q ELSE items[i].qty
  <2> SUFFICES ASSUME NEW i \in DOMAIN items
               PROVE  /\ more[i] \in K!Line /\ more[i].id = items[i].id
                      /\ more[i].book = items[i].book /\ more[i].store = items[i].store
                      /\ more[i].qty = IF items[i].id = id THEN q ELSE items[i].qty
    OBVIOUS
  <2> PICK l \in K!Line : l = items[i]
    OBVIOUS
  <2>2. more[i] = IF l.id = id THEN [l EXCEPT !.qty = q] ELSE l
    BY <1>0
  <2> QED
    BY <2>2, LineFields
<1>3. more \in Seq(K!Line) /\ Len(more) = Len(items) /\ DOMAIN more = DOMAIN items
  <2>1. more \in [DOMAIN items -> K!Line]
    BY <1>0, <1>1
  <2> QED
    BY <2>1, SameLength, ZenonT(60)
<1> PICK out \in K!CartData : out = [store |-> s, items |-> more]
  BY <1>3, CartFields
<1>4. K!WithQuantity(cart, id, q) = out /\ out.store = s /\ out.items = more
  <2>1. K!WithQuantity(cart, id, q) = [cart EXCEPT !.items = more]
    BY DEF K!WithQuantity
  <2> QED
    BY <2>1, CartFields
<1>5. WellFormed(out, n)
  BY <1>1, <1>3, <1>4 DEF WellFormed, Distinct
<1>7. \A i \in DOMAIN more : QtyOf(out, more[i].book) = more[i].qty
  BY <1>4, <1>5, QtyAt, ZenonT(60)
<1>6. ASSUME NEW b \in Books
      PROVE  QtyOf(out, b)
               = IF \E i \in K!LineOf(cart, id) : cart.items[i].book = b THEN q ELSE QtyOf(cart, b)
  <2>1. CASE \E i \in DOMAIN items : items[i].book = b
    <3>1. PICK i \in DOMAIN items : items[i].book = b
      BY <2>1
    <3>2. QtyOf(cart, b) = items[i].qty
      BY <3>1, QtyOfLine
    <3>3. QtyOf(out, b) = more[i].qty
      BY <1>1, <1>3, <1>7, <3>1, ZenonT(60)
    <3>4. (\E j \in K!LineOf(cart, id) : cart.items[j].book = b) <=> items[i].id = id
      BY <3>1 DEF K!LineOf, WellFormed
    <3> QED
      BY <1>1, <3>1, <3>2, <3>3, <3>4
  <2>2. CASE ~ \E i \in DOMAIN items : items[i].book = b
    <3>1. ~K!Has(cart, b)
      BY <2>2 DEF K!Has
    <3>2. ~K!Has(out, b)
      BY <1>1, <1>3, <1>4, <2>2 DEF K!Has
    <3>3. ~ \E j \in K!LineOf(cart, id) : cart.items[j].book = b
      BY <2>2 DEF K!LineOf
    <3> QED
      BY <3>1, <3>2, <3>3 DEF QtyOf
  <2> QED
    BY <2>1, <2>2
<1> QED
  BY <1>4, <1>5, <1>6

LEMMA AppendedFacts ==
  ASSUME NEW n \in K!ItemIds, NEW cart \in K!CartData, WellFormed(cart, n),
         NEW b \in Books, ~K!Has(cart, b), Len(cart.items) < MaxCartItems,
         NEW s \in Stores, cart.store = s, NEW q \in K!Int32
  PROVE  /\ K!Appended(cart, n, b, s, q) \in K!CartData
         /\ WellFormed(K!Appended(cart, n, b, s, q), n + 1)
         /\ \A d \in Books : QtyOf(K!Appended(cart, n, b, s, q), d)
                                = IF d = b THEN q ELSE QtyOf(cart, d)
<1> PICK items \in Seq(K!Line) : items = cart.items
  BY CartFields
<1> PICK line \in K!Line : line = [id |-> n, book |-> b, store |-> s, qty |-> q]
  BY LineFields
<1>1. line.id = n /\ line.book = b /\ line.store = s /\ line.qty = q
  OBVIOUS
<1>2. Append(items, line) \in Seq(K!Line)
  OBVIOUS
<1> PICK more \in Seq(K!Line) : more = Append(items, line)
  BY <1>2
<1>3. /\ Len(more) = Len(items) + 1 /\ more[Len(more)] = line
      /\ \A j \in DOMAIN items : j \in DOMAIN more /\ more[j] = items[j]
      /\ \A j \in DOMAIN more : j \in DOMAIN items \/ j = Len(more)
      /\ Len(more) \in DOMAIN more
  OBVIOUS
<1> PICK out \in K!CartData : out = [store |-> s, items |-> more]
  BY CartFields
<1>4. K!Appended(cart, n, b, s, q) = out /\ out.store = s /\ out.items = more
  BY CartFields DEF K!Appended
<1>5. \A i \in DOMAIN items :
        /\ items[i].store = s /\ items[i].id < n /\ items[i].id \in Int /\ items[i].book # b
  BY LineFields DEF WellFormed, K!Has, K!ItemIds
<1>6. WellFormed(out, n + 1)
  <2>1. Len(more) <= MaxCartItems
    BY <1>3, ServiceConstants
  <2>2. ASSUME NEW i \in DOMAIN more
        PROVE  more[i].store = s /\ more[i].id < n + 1
    BY <1>1, <1>3, <1>5 DEF K!ItemIds
  <2>3. ASSUME NEW i \in DOMAIN more, NEW j \in DOMAIN more,
               more[i].book = more[j].book \/ more[i].id = more[j].id
        PROVE  i = j
    <3>1. i \in DOMAIN items /\ j = Len(more) => FALSE
      BY <1>1, <1>3, <1>5, <2>3 DEF K!ItemIds
    <3>2. j \in DOMAIN items /\ i = Len(more) => FALSE
      BY <1>1, <1>3, <1>5, <2>3 DEF K!ItemIds
    <3>3. i \in DOMAIN items /\ j \in DOMAIN items => i = j
      BY <1>3, <2>3 DEF WellFormed, Distinct
    <3> QED
      BY <1>3, <3>1, <3>2, <3>3
  <2> QED
    BY <1>4, <2>1, <2>2, <2>3 DEF WellFormed, Distinct
<1>8. \A i \in DOMAIN more : QtyOf(out, more[i].book) = more[i].qty
  BY <1>4, <1>6, QtyAt
<1>7. ASSUME NEW d \in Books
      PROVE  QtyOf(out, d) = IF d = b THEN q ELSE QtyOf(cart, d)
  <2>1. CASE d = b
    <3>1. QtyOf(out, more[Len(more)].book) = more[Len(more)].qty
      BY <1>3, <1>8
    <3> QED
      BY <1>1, <1>3, <2>1, <3>1
  <2>2. CASE d # b
    <3>1. CASE \E i \in DOMAIN items : items[i].book = d
      <4>1. PICK i \in DOMAIN items : items[i].book = d
        BY <3>1
      <4>2. QtyOf(cart, d) = items[i].qty
        BY <4>1, QtyOfLine
      <4>3. QtyOf(out, d) = more[i].qty
        BY <1>3, <1>8, <4>1, ZenonT(60)
      <4> QED
        BY <1>3, <2>2, <4>2, <4>3
    <3>2. CASE ~ \E i \in DOMAIN items : items[i].book = d
      <4>1. ~K!Has(cart, d)
        BY <3>2 DEF K!Has
      <4>2. ~K!Has(out, d)
        BY <1>1, <1>3, <1>4, <2>2, <3>2 DEF K!Has
      <4> QED
        BY <2>2, <4>1, <4>2 DEF QtyOf
    <3> QED
      BY <3>1, <3>2
  <2> QED
    BY <2>1, <2>2
<1> QED
  BY <1>4, <1>6, <1>7

-----------------------------------------------------------------------------
(* The invariant *)

\* Every cart, stored or read by a call that is not done, is well formed.
CartsFormed == \A u \in Shoppers : WellFormed(carts[u], nextItem)
CallsFormed == \A c \in Calls : cartCall[c] # K!Idle => WellFormed(cartCall[c].cart, nextItem)
CartInv == K!TypeOK /\ CartsFormed /\ CallsFormed /\ K!HoldsWhatWasAsked

LEMMA HoldsIsQtyOf ==
  K!HoldsWhatWasAsked <=> \A u \in Shoppers \ strayed : \A b \in Books :
                            wanted[u][b] = QtyOf(carts[u], b)
  BY DEF K!HoldsWhatWasAsked, QtyOf

\* What a call has with it.
LEMMA CartCallFacts ==
  ASSUME NEW k \in K!CallStates
  PROVE  /\ k.op = "none" <=> k = K!Idle
         /\ k.op # "none" => k.user \in Shoppers /\ k.cart \in K!CartData
         /\ k.op = "add" => k.book \in Books /\ k.store \in Stores /\ k.qty \in 1 .. MaxAdd
         /\ k.op = "remove" => k.item \in K!ItemIds
         /\ k.op = "update" => k.item \in K!ItemIds /\ k.qty \in K!Int32
<1>1. CASE k = K!Idle
  BY <1>1 DEF K!Idle
<1>2. CASE k \in [op : {"add"}, user : Shoppers, cart : K!CartData, book : Books,
                  store : Stores, qty : 1 .. MaxAdd]
  BY <1>2 DEF K!Idle
<1>3. CASE k \in [op : {"remove"}, user : Shoppers, cart : K!CartData, item : K!ItemIds]
  BY <1>3 DEF K!Idle
<1>4. CASE k \in [op : {"update"}, user : Shoppers, cart : K!CartData, item : K!ItemIds,
                  qty : K!Int32]
  BY <1>4 DEF K!Idle
<1> QED
  BY <1>1, <1>2, <1>3, <1>4 DEF K!CallStates

\* A cart stays well formed when more ids are given out.
LEMMA FormedLater ==
  ASSUME NEW n \in Int, NEW m \in Int, n <= m, NEW cart \in K!CartData, WellFormed(cart, n)
  PROVE  WellFormed(cart, m)
<1> PICK items \in Seq(K!Line) : items = cart.items
  BY CartFields
<1>1. \A i \in DOMAIN items : items[i].id < m
  <2> SUFFICES ASSUME NEW i \in DOMAIN items
               PROVE  items[i].id < m
    OBVIOUS
  <2>1. items[i].id \in Int /\ items[i].id < n
    BY LineFields DEF WellFormed, K!ItemIds
  <2> QED
    BY <2>1
<1> QED
  BY <1>1 DEF WellFormed

LEMMA EmptyFormed ==
  ASSUME NEW n
  PROVE  /\ K!EmptyCart \in K!CartData /\ WellFormed(K!EmptyCart, n)
         /\ \A b : QtyOf(K!EmptyCart, b) = 0
<1> PICK out : out = K!EmptyCart
  OBVIOUS
<1>1. out.store = NoStore /\ out.items = <<>>
  BY DEF K!EmptyCart
<1>2. Len(<<>>) = 0 /\ DOMAIN <<>> = {}
  OBVIOUS
<1>3. out \in K!CartData
  BY DEF K!CartData, K!EmptyCart
<1> QED
  BY <1>1, <1>2, <1>3, ServiceConstants DEF WellFormed, Distinct, QtyOf, K!Has

\* What Asked records when user u is to have w, and gets the cart.
Recorded(u, w, cart) ==
  \/ strayed' = strayed \cup {u} /\ wanted' = [wanted EXCEPT ![u] = K!Nothing]
  \/ /\ strayed' = strayed /\ wanted' = [wanted EXCEPT ![u] = w]
     /\ u \notin strayed => \A b \in Books : w[b] = QtyOf(cart, b)

\* The end of every handler: a well-formed cart is written, and the call is over.
LEMMA SavesCart ==
  ASSUME CartInv, NEW c \in Calls, cartCall[c].op # "none",
         NEW cart \in K!CartData, NEW m \in 1 .. MaxItems + 1, nextItem <= m,
         WellFormed(cart, m), K!SaveCart(c, cart), nextItem' = m,
         NEW w \in [Books -> Int], Recorded(cartCall[c].user, w, cart)
  PROVE  CartInv'
<1> PICK k \in K!CallStates : k = cartCall[c]
  BY DEF CartInv, K!TypeOK
<1> PICK u \in Shoppers : u = k.user
  BY CartCallFacts
<1>1. /\ carts' = [carts EXCEPT ![u] = cart] /\ carts \in [Shoppers -> K!CartData]
      /\ cartCall' = [cartCall EXCEPT ![c] = K!Idle] /\ cartCall \in [Calls -> K!CallStates]
      /\ wanted \in [Shoppers -> [Books -> Int]] /\ strayed \subseteq Shoppers
      /\ nextItem \in Int /\ m \in Int
  BY DEF CartInv, K!TypeOK, K!SaveCart
<1>2. \/ strayed' = strayed \cup {u} /\ wanted' = [wanted EXCEPT ![u] = K!Nothing]
      \/ /\ strayed' = strayed /\ wanted' = [wanted EXCEPT ![u] = w]
         /\ u \notin strayed => \A b \in Books : w[b] = QtyOf(cart, b)
  BY DEF Recorded
<1>3. K!Nothing \in [Books -> Int] /\ K!Idle \in K!CallStates
  BY DEF K!Nothing, K!CallStates
<1>4. K!TypeOK'
  BY <1>1, <1>2, <1>3 DEF K!TypeOK
<1>5. CartsFormed'
  <2> SUFFICES ASSUME NEW v \in Shoppers
               PROVE  WellFormed(carts'[v], nextItem')
    BY DEF CartsFormed
  <2>1. CASE v = u
    BY <1>1, <2>1
  <2>2. CASE v # u
    <3>1. carts'[v] = carts[v] /\ carts[v] \in K!CartData
      BY <1>1, <2>2
    <3>2. WellFormed(carts[v], nextItem)
      BY DEF CartInv, CartsFormed
    <3> QED
      BY <1>1, <3>1, <3>2, FormedLater
  <2> QED
    BY <2>1, <2>2
<1>6. CallsFormed'
  <2> SUFFICES ASSUME NEW d \in Calls, cartCall'[d] # K!Idle
               PROVE  WellFormed(cartCall'[d].cart, nextItem')
    BY DEF CallsFormed
  <2>1. cartCall'[d] = cartCall[d] /\ cartCall[d] # K!Idle
    BY <1>1
  <2> PICK j \in K!CallStates : j = cartCall[d]
    BY <1>1
  <2>2. j.cart \in K!CartData
    BY <2>1, CartCallFacts
  <2>3. WellFormed(j.cart, nextItem)
    BY <2>1 DEF CartInv, CallsFormed
  <2> QED
    BY <1>1, <2>1, <2>2, <2>3, FormedLater
<1>7. K!HoldsWhatWasAsked'
  <2>1. \A v \in Shoppers \ strayed : \A b \in Books : wanted[v][b] = QtyOf(carts[v], b)
    BY HoldsIsQtyOf DEF CartInv
  <2>2. ASSUME NEW v \in Shoppers \ strayed', NEW b \in Books
        PROVE  wanted'[v][b] = QtyOf(carts'[v], b)
    <3>1. CASE v = u
      BY <1>1, <1>2, <2>2, <3>1
    <3>2. CASE v # u
      BY <1>1, <1>2, <2>1, <2>2, <3>2
    <3> QED
      BY <3>1, <3>2
  <2> QED
    BY <2>2 DEF K!HoldsWhatWasAsked, QtyOf
<1> QED
  BY <1>4, <1>5, <1>6, <1>7 DEF CartInv

-----------------------------------------------------------------------------
(* Every step keeps the invariant *)

LEMMA InitCarts == AllInit => CartInv
<1> SUFFICES ASSUME K!Init
             PROVE  CartInv
  BY DEF AllInit
<1>1. \A u \in Shoppers : carts[u] = K!EmptyCart
  BY DEF K!Init
<1>2. K!TypeOK
  <2>1. K!Nothing \in [Books -> Int] /\ K!Idle \in K!CallStates /\ nextItem \in 1 .. MaxItems + 1
    BY ServiceConstants DEF K!Nothing, K!CallStates, K!Init
  <2> QED
    BY <2>1, EmptyFormed DEF K!Init, K!TypeOK
<1>3. CartsFormed /\ CallsFormed
  BY <1>1, EmptyFormed DEF K!Init, CartsFormed, CallsFormed
<1>4. K!HoldsWhatWasAsked
  BY <1>1, EmptyFormed, HoldsIsQtyOf DEF K!Init, K!Nothing
<1> QED
  BY <1>2, <1>3, <1>4 DEF CartInv

\* The cart of a call that was begun, and what was wanted until now.
LEMMA CallsCart ==
  ASSUME CartInv, NEW c \in Calls, cartCall[c].op # "none"
  PROVE  /\ cartCall[c] \in K!CallStates
         /\ cartCall[c].cart \in K!CartData /\ WellFormed(cartCall[c].cart, nextItem)
         /\ cartCall[c].user \in Shoppers /\ wanted[cartCall[c].user] \in [Books -> Int]
         /\ nextItem \in 1 .. MaxItems + 1 /\ nextItem \in Int
         /\ cartCall[c].user \notin strayed /\ cartCall[c].cart = carts[cartCall[c].user] =>
              \A b \in Books : wanted[cartCall[c].user][b] = QtyOf(cartCall[c].cart, b)
<1> PICK k \in K!CallStates : k = cartCall[c]
  BY DEF CartInv, K!TypeOK
<1>1. k.cart \in K!CartData /\ k.user \in Shoppers /\ k # K!Idle
  BY CartCallFacts
<1>2. WellFormed(k.cart, nextItem)
  BY <1>1 DEF CartInv, CallsFormed
<1>3. wanted[k.user] \in [Books -> Int] /\ nextItem \in 1 .. MaxItems + 1 /\ nextItem \in Int
  BY <1>1, ServiceConstants DEF CartInv, K!TypeOK
<1>4. \A v \in Shoppers \ strayed : \A b \in Books : wanted[v][b] = QtyOf(carts[v], b)
  BY HoldsIsQtyOf DEF CartInv
<1> QED
  BY <1>1, <1>2, <1>3, <1>4

LEMMA BeginsCall ==
  ASSUME CartInv, NEW c \in Calls, NEW k \in K!CallStates, K!Begin(c, k),
         k # K!Idle => WellFormed(k.cart, nextItem)
  PROVE  CartInv'
<1>1. K!TypeOK'
  BY DEF CartInv, K!TypeOK, K!Begin
<1>2. CartsFormed' /\ CallsFormed'
  BY DEF CartInv, K!TypeOK, K!Begin, CartsFormed, CallsFormed, WellFormed
<1>3. K!HoldsWhatWasAsked'
  BY DEF CartInv, K!HoldsWhatWasAsked, K!Begin, K!Has
<1> QED
  BY <1>1, <1>2, <1>3 DEF CartInv

LEMMA KeepsBegun ==
  ASSUME CartInv, NEW c \in Calls, NEW u \in Shoppers,
         \/ \E b \in Books, s \in Stores, q \in 1 .. MaxAdd : K!AddToCart(c, u, b, s, q)
         \/ \E id \in 1 .. nextItem - 1 :
              K!RemoveFromCart(c, u, id) \/ \E q \in {0, MaxInt} : K!UpdateCartItem(c, u, id, q)
  PROVE  CartInv'
<1> PICK cart \in K!CartData : cart = carts[u]
  BY DEF CartInv, K!TypeOK
<1>1. WellFormed(cart, nextItem)
  BY DEF CartInv, CartsFormed
<1>2. ASSUME NEW b \in Books, NEW s \in Stores, NEW q \in 1 .. MaxAdd, K!AddToCart(c, u, b, s, q)
      PROVE  CartInv'
  <2> PICK k : k = [op |-> "add", user |-> u, cart |-> cart, book |-> b, store |-> s, qty |-> q]
    OBVIOUS
  <2>1. k \in K!CallStates /\ k.cart = cart
    BY DEF K!CallStates
  <2>2. K!Begin(c, k)
    BY <1>2 DEF K!AddToCart
  <2> QED
    BY <1>1, <2>1, <2>2, BeginsCall
<1>3. ASSUME NEW id \in 1 .. nextItem - 1
      PROVE  id \in K!ItemIds
  BY <1>3, ServiceConstants DEF CartInv, K!TypeOK, K!ItemIds
<1>4. ASSUME NEW id \in K!ItemIds, K!RemoveFromCart(c, u, id)
      PROVE  CartInv'
  <2> PICK k : k = [op |-> "remove", user |-> u, cart |-> cart, item |-> id]
    OBVIOUS
  <2>1. k \in K!CallStates /\ k.cart = cart
    BY DEF K!CallStates
  <2>2. K!Begin(c, k)
    BY <1>4 DEF K!RemoveFromCart
  <2> QED
    BY <1>1, <2>1, <2>2, BeginsCall
<1>5. ASSUME NEW id \in K!ItemIds, NEW q \in {0, MaxInt}, K!UpdateCartItem(c, u, id, q)
      PROVE  CartInv'
  <2> PICK k : k = [op |-> "update", user |-> u, cart |-> cart, item |-> id, qty |-> q]
    OBVIOUS
  <2>1. q \in K!Int32
    BY ServiceConstants DEF K!Int32
  <2>2. k \in K!CallStates /\ k.cart = cart
    BY <2>1 DEF K!CallStates
  <2>3. K!Begin(c, k)
    BY <1>5 DEF K!UpdateCartItem
  <2> QED
    BY <1>1, <2>2, <2>3, BeginsCall
<1> QED
  BY <1>2, <1>3, <1>4, <1>5

\* What can still be had of what was wanted, when the store changes.
LEMMA KeptIsQtyOf ==
  ASSUME CartInv, NEW c \in Calls, cartCall[c].op # "none", NEW s \in Stores
  PROVE  /\ K!Kept(cartCall[c].user, s) \in [Books -> Int]
         /\ cartCall[c].user \notin strayed /\ cartCall[c].cart = carts[cartCall[c].user] =>
              \A b \in Books : K!Kept(cartCall[c].user, s)[b]
                               = QtyOf(K!ForStore(cartCall[c].cart, s), b)
<1> PICK u \in Shoppers : u = cartCall[c].user
  BY CallsCart
<1> PICK cart \in K!CartData : cart = cartCall[c].cart
  BY CallsCart
<1>1. /\ WellFormed(cart, nextItem) /\ wanted[u] \in [Books -> Int]
      /\ u \notin strayed /\ cart = carts[u] => \A b \in Books : wanted[u][b] = QtyOf(cart, b)
  BY CallsCart
<1>2. K!Kept(u, s) \in [Books -> Int]
  BY <1>1 DEF K!Kept, K!Nothing
<1>3. \A b \in Books : QtyOf(K!ForStore(cart, s), b) = IF cart.store = s THEN QtyOf(cart, b) ELSE 0
  BY <1>1, ForStoreFacts
<1> QED
  BY <1>1, <1>2, <1>3 DEF K!Kept, K!Nothing

LEMMA KeepsGrown ==
  ASSUME CartInv, NEW c \in Calls, K!SaveGrown(c)
  PROVE  CartInv'
<1>1. cartCall[c].op = "add" /\ cartCall[c].op # "none"
  BY DEF K!SaveGrown
<1> PICK k \in K!CallStates : k = cartCall[c]
  BY <1>1, CallsCart
<1> PICK u \in Shoppers, b \in Books, s \in Stores, q \in 1 .. MaxAdd :
      u = k.user /\ b = k.book /\ s = k.store /\ q = k.qty
  BY <1>1, CartCallFacts
<1> PICK read \in K!CartData : read = k.cart
  BY <1>1, CallsCart
<1>2. WellFormed(read, nextItem) /\ nextItem \in 1 .. MaxItems + 1 /\ nextItem \in Int
  BY <1>1, CallsCart
<1>3. K!ForStore(read, s) \in K!CartData
  BY <1>2, ForStoreFacts
<1> PICK cart \in K!CartData : cart = K!ForStore(read, s)
  BY <1>3
<1>4. WellFormed(cart, nextItem)
  BY <1>2, ForStoreFacts
<1> PICK kept : kept = K!Kept(u, s)
  OBVIOUS
<1>5. /\ kept \in [Books -> Int]
      /\ u \notin strayed /\ read = carts[u] => \A d \in Books : kept[d] = QtyOf(cart, d)
  BY <1>1, KeptIsQtyOf
<1> PICK w : w = [kept EXCEPT ![b] = kept[b] + q]
  OBVIOUS
<1>6. w \in [Books -> Int] /\ w[b] = kept[b] + q /\ \A d \in Books : d # b => w[d] = kept[d]
  BY <1>5
<1>7. /\ K!Has(cart, b) /\ K!SaveCart(c, K!Grown(cart, b, q)) /\ K!Asked(c, w, w[b] > MaxInt)
      /\ nextItem' = nextItem
  BY DEF K!SaveGrown
<1>8. /\ K!Grown(cart, b, q) \in K!CartData /\ WellFormed(K!Grown(cart, b, q), nextItem)
      /\ \A d \in Books : QtyOf(K!Grown(cart, b, q), d)
                           = IF d = b THEN K!Plus(QtyOf(cart, b), q) ELSE QtyOf(cart, d)
  BY <1>4, <1>7, GrownFacts
<1>9. ASSUME ~(w[b] > MaxInt), u \notin strayed, read = carts[u], NEW d \in Books
      PROVE  w[d] = QtyOf(K!Grown(cart, b, q), d)
  <2>1. CASE d = b
    <3>1. QtyOf(cart, b) = kept[b]
      BY <1>5, <1>9
    <3>2. K!Plus(kept[b], q) = kept[b] + q
      BY <1>6, <1>9 DEF K!Plus
    <3> QED
      BY <1>6, <1>8, <2>1, <3>1, <3>2
  <2>2. CASE d # b
    BY <1>5, <1>6, <1>8, <1>9, <2>2
  <2> QED
    BY <2>1, <2>2
<1> QED
  <2> PICK out \in K!CartData : out = K!Grown(cart, b, q)
    BY <1>8
  <2>1. Recorded(u, w, out)
    BY <1>7, <1>9 DEF K!Asked, Recorded
  <2>2. WellFormed(out, nextItem) /\ K!SaveCart(c, out) /\ nextItem <= nextItem
    BY <1>2, <1>7, <1>8
  <2> QED
    BY <1>1, <1>2, <1>6, <1>7, <2>1, <2>2, SavesCart

LEMMA KeepsAppended ==
  ASSUME CartInv, NEW c \in Calls, K!SaveAppended(c)
  PROVE  CartInv'
<1>1. cartCall[c].op = "add" /\ cartCall[c].op # "none" /\ nextItem <= MaxItems
  BY DEF K!SaveAppended
<1> PICK k \in K!CallStates : k = cartCall[c]
  BY <1>1, CallsCart
<1> PICK u \in Shoppers, b \in Books, s \in Stores, q \in 1 .. MaxAdd :
      u = k.user /\ b = k.book /\ s = k.store /\ q = k.qty
  BY <1>1, CartCallFacts
<1> PICK read \in K!CartData : read = k.cart
  BY <1>1, CallsCart
<1>2. WellFormed(read, nextItem) /\ nextItem \in 1 .. MaxItems + 1 /\ nextItem \in Int
  BY <1>1, CallsCart
<1>3. K!ForStore(read, s) \in K!CartData
  BY <1>2, ForStoreFacts
<1> PICK cart \in K!CartData : cart = K!ForStore(read, s)
  BY <1>3
<1>4. WellFormed(cart, nextItem) /\ cart.store = s
  BY <1>2, ForStoreFacts
<1> PICK kept : kept = K!Kept(u, s)
  OBVIOUS
<1>5. /\ kept \in [Books -> Int]
      /\ u \notin strayed /\ read = carts[u] => \A d \in Books : kept[d] = QtyOf(cart, d)
  BY <1>1, KeptIsQtyOf
<1> PICK w : w = [kept EXCEPT ![b] = kept[b] + q]
  OBVIOUS
<1>6. w \in [Books -> Int] /\ w[b] = kept[b] + q /\ \A d \in Books : d # b => w[d] = kept[d]
  BY <1>5
<1>7. /\ ~K!Has(cart, b) /\ Len(cart.items) < MaxCartItems
      /\ K!SaveCart(c, K!Appended(cart, nextItem, b, s, q)) /\ K!Asked(c, w, FALSE)
      /\ nextItem' = nextItem + 1
  BY DEF K!SaveAppended
<1>8. nextItem \in K!ItemIds /\ nextItem + 1 \in 1 .. MaxItems + 1 /\ q \in K!Int32
  BY <1>1, <1>2, ServiceConstants DEF K!ItemIds, K!Int32
<1>9. /\ K!Appended(cart, nextItem, b, s, q) \in K!CartData
      /\ WellFormed(K!Appended(cart, nextItem, b, s, q), nextItem + 1)
      /\ \A d \in Books : QtyOf(K!Appended(cart, nextItem, b, s, q), d)
                           = IF d = b THEN q ELSE QtyOf(cart, d)
  BY <1>4, <1>7, <1>8, AppendedFacts
<1>10. ASSUME u \notin strayed, read = carts[u], NEW d \in Books
       PROVE  w[d] = QtyOf(K!Appended(cart, nextItem, b, s, q), d)
  <2>1. CASE d = b
    <3>1. kept[b] = 0
      BY <1>5, <1>7, <1>10 DEF QtyOf
    <3> QED
      BY <1>6, <1>9, <2>1, <3>1
  <2>2. CASE d # b
    BY <1>5, <1>6, <1>9, <1>10, <2>2
  <2> QED
    BY <2>1, <2>2
<1> QED
  <2> PICK out \in K!CartData : out = K!Appended(cart, nextItem, b, s, q)
    BY <1>9
  <2>1. Recorded(u, w, out)
    BY <1>7, <1>10 DEF K!Asked, Recorded
  <2>2. WellFormed(out, nextItem + 1) /\ K!SaveCart(c, out) /\ nextItem <= nextItem + 1
    BY <1>2, <1>7, <1>9
  <2> QED
    BY <1>1, <1>6, <1>7, <1>8, <2>1, <2>2, SavesCart

LEMMA KeepsRemoved ==
  ASSUME CartInv, NEW c \in Calls, K!SaveRemoved(c)
  PROVE  CartInv'
<1>1. cartCall[c].op = "remove" /\ cartCall[c].op # "none"
  BY DEF K!SaveRemoved
<1> PICK k \in K!CallStates : k = cartCall[c]
  BY <1>1, CallsCart
<1> PICK u \in Shoppers, id \in K!ItemIds : u = k.user /\ id = k.item
  BY <1>1, CartCallFacts
<1> PICK cart \in K!CartData : cart = k.cart
  BY <1>1, CallsCart
<1>2. /\ WellFormed(cart, nextItem) /\ nextItem \in 1 .. MaxItems + 1 /\ nextItem \in Int
      /\ wanted[u] \in [Books -> Int]
      /\ u \notin strayed /\ cart = carts[u] => \A b \in Books : wanted[u][b] = QtyOf(cart, b)
  BY <1>1, CallsCart
<1> PICK w : w = [b \in Books |-> IF \E i \in K!LineOf(cart, id) : cart.items[i].book = b
                                  THEN 0 ELSE wanted[u][b]]
  OBVIOUS
<1>3. w \in [Books -> Int]
  BY <1>2
<1>4. K!SaveCart(c, K!Without(cart, id)) /\ K!Asked(c, w, FALSE) /\ nextItem' = nextItem
  BY DEF K!SaveRemoved
<1>5. /\ K!Without(cart, id) \in K!CartData /\ WellFormed(K!Without(cart, id), nextItem)
      /\ \A b \in Books : QtyOf(K!Without(cart, id), b)
           = IF \E i \in K!LineOf(cart, id) : cart.items[i].book = b THEN 0 ELSE QtyOf(cart, b)
  BY <1>2, WithoutFacts
<1>6. u \notin strayed /\ cart = carts[u] => \A b \in Books : w[b] = QtyOf(K!Without(cart, id), b)
  BY <1>2, <1>5
<1> QED
  <2> PICK out \in K!CartData : out = K!Without(cart, id)
    BY <1>5
  <2>1. Recorded(u, w, out)
    BY <1>4, <1>6 DEF K!Asked, Recorded
  <2>2. WellFormed(out, nextItem) /\ K!SaveCart(c, out) /\ nextItem <= nextItem
    BY <1>2, <1>4, <1>5
  <2> QED
    BY <1>1, <1>2, <1>3, <1>4, <2>1, <2>2, SavesCart

LEMMA KeepsUpdated ==
  ASSUME CartInv, NEW c \in Calls, K!SaveUpdated(c)
  PROVE  CartInv'
<1>1. cartCall[c].op = "update" /\ cartCall[c].op # "none"
  BY DEF K!SaveUpdated
<1> PICK k \in K!CallStates : k = cartCall[c]
  BY <1>1, CallsCart
<1> PICK u \in Shoppers, id \in K!ItemIds, q \in K!Int32 : u = k.user /\ id = k.item /\ q = k.qty
  BY <1>1, CartCallFacts
<1> PICK cart \in K!CartData : cart = k.cart
  BY <1>1, CallsCart
<1>2. /\ WellFormed(cart, nextItem) /\ nextItem \in 1 .. MaxItems + 1 /\ nextItem \in Int
      /\ wanted[u] \in [Books -> Int]
      /\ u \notin strayed /\ cart = carts[u] => \A b \in Books : wanted[u][b] = QtyOf(cart, b)
  BY <1>1, CallsCart
<1> PICK w : w = [b \in Books |-> IF \E i \in K!LineOf(cart, id) : cart.items[i].book = b
                                  THEN (IF q <= 0 THEN 0 ELSE q) ELSE wanted[u][b]]
  OBVIOUS
<1>3. q \in Int
  BY ServiceConstants DEF K!Int32
<1>4. w \in [Books -> Int]
  BY <1>2, <1>3
<1> PICK out : out = IF q <= 0 THEN K!Without(cart, id) ELSE K!WithQuantity(cart, id, q)
  OBVIOUS
<1>5. K!SaveCart(c, out) /\ K!Asked(c, w, FALSE) /\ nextItem' = nextItem
  BY DEF K!SaveUpdated
<1>6. /\ out \in K!CartData /\ WellFormed(out, nextItem)
      /\ \A b \in Books : QtyOf(out, b)
           = IF \E i \in K!LineOf(cart, id) : cart.items[i].book = b
             THEN (IF q <= 0 THEN 0 ELSE q) ELSE QtyOf(cart, b)
  <2>1. CASE q <= 0
    BY <1>2, <2>1, WithoutFacts
  <2>2. CASE ~(q <= 0)
    BY <1>2, <2>2, WithQuantityFacts
  <2> QED
    BY <2>1, <2>2
<1>7. u \notin strayed /\ cart = carts[u] => \A b \in Books : w[b] = QtyOf(out, b)
  BY <1>2, <1>6
<1> QED
  <2>1. Recorded(u, w, out)
    BY <1>5, <1>7 DEF K!Asked, Recorded
  <2>2. nextItem <= nextItem
    BY <1>2
  <2> QED
    BY <1>1, <1>2, <1>4, <1>5, <1>6, <2>1, <2>2, SavesCart

LEMMA KeepsFailed ==
  ASSUME CartInv, NEW c \in Calls, K!Fail(c)
  PROVE  CartInv'
<1>1. K!TypeOK'
  BY DEF CartInv, K!TypeOK, K!Fail, K!CallStates
<1>2. CartsFormed' /\ CallsFormed'
  BY DEF CartInv, K!TypeOK, K!Fail, CartsFormed, CallsFormed, WellFormed
<1>3. K!HoldsWhatWasAsked'
  BY DEF CartInv, K!HoldsWhatWasAsked, K!Fail, K!Has
<1> QED
  BY <1>1, <1>2, <1>3 DEF CartInv

LEMMA KeepsCleared ==
  ASSUME CartInv, NEW u \in Shoppers, K!ClearCart(u)
  PROVE  CartInv'
<1>1. /\ carts \in [Shoppers -> K!CartData] /\ carts' = [carts EXCEPT ![u] = K!EmptyCart]
      /\ wanted \in [Shoppers -> [Books -> Int]] /\ wanted' = [wanted EXCEPT ![u] = K!Nothing]
      /\ strayed \subseteq Shoppers /\ strayed' = strayed \ {u}
      /\ nextItem' = nextItem /\ cartCall' = cartCall
  BY DEF CartInv, K!TypeOK, K!ClearCart
<1>2. K!TypeOK'
  <2>1. K!Nothing \in [Books -> Int] /\ K!EmptyCart \in K!CartData
    BY EmptyFormed DEF K!Nothing
  <2> QED
    BY <1>1, <2>1 DEF CartInv, K!TypeOK
<1>3. CartsFormed' /\ CallsFormed'
  <2>1. \A v \in Shoppers : WellFormed(carts'[v], nextItem)
    BY <1>1, EmptyFormed DEF CartInv, CartsFormed
  <2> QED
    BY <1>1, <2>1 DEF CartInv, CartsFormed, CallsFormed, WellFormed
<1>4. K!HoldsWhatWasAsked'
  <2>1. \A v \in Shoppers \ strayed : \A b \in Books : wanted[v][b] = QtyOf(carts[v], b)
    BY HoldsIsQtyOf DEF CartInv
  <2>2. ASSUME NEW v \in Shoppers \ strayed', NEW b \in Books
        PROVE  wanted'[v][b] = QtyOf(carts'[v], b)
    <3>1. CASE v = u
      BY <1>1, <3>1, EmptyFormed DEF K!Nothing
    <3>2. CASE v # u
      BY <1>1, <2>1, <2>2, <3>2
    <3> QED
      BY <3>1, <3>2
  <2> QED
    BY <2>2 DEF K!HoldsWhatWasAsked, QtyOf
<1> QED
  BY <1>2, <1>3, <1>4 DEF CartInv

LEMMA NextCarts == CartInv /\ [K!Next]_K!vars => CartInv'
<1> SUFFICES ASSUME CartInv, [K!Next]_K!vars
             PROVE  CartInv'
  OBVIOUS
<1>1. CASE UNCHANGED K!vars
  <2>1. K!TypeOK'
    BY <1>1 DEF CartInv, K!TypeOK, K!vars
  <2>2. CartsFormed' /\ CallsFormed'
    BY <1>1 DEF CartInv, CartsFormed, CallsFormed, WellFormed, K!vars
  <2>3. K!HoldsWhatWasAsked'
    BY <1>1 DEF CartInv, K!HoldsWhatWasAsked, K!vars
  <2> QED
    BY <2>1, <2>2, <2>3 DEF CartInv
<1>2. CASE K!Next
  BY <1>2, KeepsBegun, KeepsGrown, KeepsAppended, KeepsRemoved, KeepsUpdated, KeepsFailed,
     KeepsCleared DEF K!Next
<1> QED
  BY <1>1, <1>2

\* In the composition the carts do what Cart says, or nothing.
LEMMA CartsInvariant == AllSpec => []CartInv
<1>1. [AllNext]_allVars => [K!Next]_K!vars
  BY DEF AllNext, allVars, cartVars, K!vars
<1>2. CartInv /\ [AllNext]_allVars => CartInv'
  BY <1>1, NextCarts
<1> QED
  BY <1>2, InitCarts, PTL DEF AllSpec

\* The cart service: however calls overwrite each other's carts, a stored cart
\* has the books of one store, one line per book and one line per item id, and
\* no more lines than it may.
THEOREM CartsKeepOneStore == AllSpec => []OneStoreOneLine
<1>1. CartInv => OneStoreOneLine
  BY DEF CartInv, CartsFormed, WellFormed, Distinct, OneStoreOneLine, K!OneStoreOneLine
<1> QED
  BY <1>1, CartsInvariant, PTL

\* AddToCart, RemoveFromCart, UpdateCartItem, ClearCart: as long as no call
\* overwrote another's change and no quantity left the int32 range, a cart holds
\* for every book what the calls that succeeded have asked for.
THEOREM CartsHoldWhatWasAsked == AllSpec => []HoldsWhatWasAsked
<1>1. CartInv => HoldsWhatWasAsked
  BY DEF CartInv, HoldsWhatWasAsked
<1> QED
  BY <1>1, CartsInvariant, PTL
=============================================================================
