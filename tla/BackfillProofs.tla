---------------------------- MODULE BackfillProofs ----------------------------
(***************************************************************************)
(* The run over all books counts each of them, for every number of books,  *)
(* workers and errors and every size of page, batch, channel and bulk.     *)
(***************************************************************************)
EXTENDS MCPipelines, TLAPS, FiniteSetTheorems

\* The books of a sequence of batches; no two of which share one.
Of(s) == UNION {s[i] : i \in DOMAIN s}
Apart(s) == \A i, j \in DOMAIN s : i # j => s[i] \cap s[j] = {}

\* The books on their way, from where they are: with the reader, in the
\* channel of batches, with the workers, in the channel of results, in the
\* collector's buffer.
Held == UNION {worker[w].batch : w \in 1 .. Workers}
Pending == Of(reader.batches) \cup Of(batchCh) \cup Held \cup Of(resultCh) \cup collector.buf

\* Each of them is in one place only.
InOnePlace(R, C, H, Q, B) ==
  /\ R \cap C = {} /\ R \cap H = {} /\ R \cap Q = {} /\ R \cap B = {}
  /\ C \cap H = {} /\ C \cap Q = {} /\ C \cap B = {}
  /\ H \cap Q = {} /\ H \cap B = {} /\ Q \cap B = {}
EachOnce ==
  /\ Apart(reader.batches) /\ Apart(batchCh) /\ Apart(resultCh)
  /\ \A v, w \in 1 .. Workers : v # w => worker[v].batch \cap worker[w].batch = {}
  /\ InOnePlace(Of(reader.batches), Of(batchCh), Held, Of(resultCh), collector.buf)

\* All of them are of pages that have been read, and so are those taken; each
\* page costs one failed query at most, and no page after the last is sent.
Boundary == IF reader.at = "read" THEN (reader.page - 1) * PageSize ELSE reader.page * PageSize
PagesRead == {b \in Bulk!Book : b <= Boundary}
OnPagesRead ==
  /\ Pending \subseteq PagesRead
  /\ taken <= Cardinality(PagesRead)
  /\ queryErrors <= (IF reader.at = "read" THEN reader.page - 1 ELSE reader.page)
  /\ reader.at = "send" => reader.page <= Total

\* What was taken is counted or on its way, unless the run is cancelled.
Settled == stats.embedded + stats.skipped + stats.errors + Cardinality(Pending)
CountedOrPending ==
  /\ Settled <= taken + queryErrors
  /\ ~cancelled => Settled = taken + queryErrors

\* Who has stopped, or has nothing to do, leaves nothing behind.
NothingLeft ==
  /\ reader.at = "read" \/ (reader.at = "done" /\ ~cancelled) => reader.batches = <<>>
  /\ \A w \in 1 .. Workers :
       /\ worker[w].at \in {"take", "done"} => worker[w].batch = {}
       /\ worker[w].at = "done" /\ ~cancelled => batchCh = <<>> /\ reader.at = "done"
  /\ collector.at \in {"final", "done"} => Bulk!AllDone /\ resultCh = <<>>
  /\ collector.at = "done" => collector.buf = {}

BulkInv == Bulk!TypeOK /\ EachOnce /\ OnPagesRead /\ CountedOrPending /\ NothingLeft

\* Cardinality is the same through the instance.
LEMMA BulkCounts == \A T : Bulk!Cardinality(T) = Cardinality(T)
BY DEF Bulk!Cardinality, Cardinality, Bulk!IsFiniteSet, IsFiniteSet

\* Sets of books are finite; taking a part out of one, and adding another part.
LEMMA BooksFinite ==
  ASSUME NEW S \in SUBSET Bulk!Book
  PROVE  /\ IsFiniteSet(S) /\ Cardinality(S) \in Nat /\ Cardinality(S) <= Total
         /\ Bulk!Cardinality(S) = Cardinality(S)
<1>1. IsFiniteSet(1 .. Total) /\ Cardinality(1 .. Total) = Total
  BY BulkConstants, FS_Interval
<1>2. S \in SUBSET (1 .. Total)
  BY DEF Bulk!Book
<1> QED
  BY <1>1, <1>2, FS_Subset, FS_CardinalityType, BulkCounts

LEMMA TakenOut ==
  ASSUME NEW S \in SUBSET Bulk!Book, NEW T \in SUBSET S
  PROVE  /\ Cardinality(S \ T) = Cardinality(S) - Cardinality(T)
         /\ Cardinality(T) <= Cardinality(S)
<1>1. S \cap T = T
  OBVIOUS
<1>2. IsFiniteSet(S)
  BY BooksFinite
<1>3. Cardinality(S \ T) = Cardinality(S) - Cardinality(S \cap T)
  BY <1>2, FS_Difference
<1>4. Cardinality(T) <= Cardinality(S)
  BY <1>2, FS_Subset
<1> QED
  BY <1>1, <1>3, <1>4

LEMMA PutIn ==
  ASSUME NEW S \in SUBSET Bulk!Book, NEW T \in SUBSET Bulk!Book
  PROVE  /\ Cardinality(S \cup T) <= Cardinality(S) + Cardinality(T)
         /\ S \cap T = {} => Cardinality(S \cup T) = Cardinality(S) + Cardinality(T)
<1>1. /\ IsFiniteSet(S) /\ IsFiniteSet(T) /\ IsFiniteSet(S \cap T)
      /\ Cardinality(S) \in Nat /\ Cardinality(T) \in Nat /\ Cardinality(S \cap T) \in Nat
  BY BooksFinite
<1>2. Cardinality(S \cup T) = Cardinality(S) + Cardinality(T) - Cardinality(S \cap T)
  BY <1>1, FS_Union
<1>3. S \cap T = {} => Cardinality(S \cap T) = 0
  BY FS_EmptySet
<1> QED
  BY <1>1, <1>2, <1>3

\* The first batch leaves a sequence, and one is added to it.
LEMMA BatchLeaves ==
  ASSUME NEW s \in Seq(SUBSET Bulk!Book), s # <<>>, Apart(s)
  PROVE  /\ Head(s) \in SUBSET Bulk!Book /\ Tail(s) \in Seq(SUBSET Bulk!Book)
         /\ Len(Tail(s)) = Len(s) - 1 /\ Len(s) >= 1
         /\ Apart(Tail(s))
         /\ Head(s) \subseteq Of(s) /\ Of(Tail(s)) = Of(s) \ Head(s)
<1>1. PICK h \in SUBSET Bulk!Book, rest \in Seq(SUBSET Bulk!Book) :
        /\ h = Head(s) /\ rest = Tail(s) /\ h = s[1] /\ Len(rest) = Len(s) - 1
        /\ Len(s) >= 1 /\ 1 \in DOMAIN s
        /\ \A i \in DOMAIN rest : i + 1 \in DOMAIN s /\ rest[i] = s[i + 1]
        /\ \A i \in DOMAIN s : i = 1 \/ (i - 1 \in DOMAIN rest /\ rest[i - 1] = s[i])
  <2>1. /\ Head(s) \in SUBSET Bulk!Book /\ Tail(s) \in Seq(SUBSET Bulk!Book)
        /\ Head(s) = s[1] /\ Len(Tail(s)) = Len(s) - 1 /\ Len(s) >= 1 /\ 1 \in DOMAIN s
    OBVIOUS
  <2>2. \A i \in DOMAIN Tail(s) : i + 1 \in DOMAIN s /\ Tail(s)[i] = s[i + 1]
    OBVIOUS
  <2>3. \A i \in DOMAIN s : i = 1 \/ (i - 1 \in DOMAIN Tail(s) /\ Tail(s)[i - 1] = s[i])
    OBVIOUS
  <2> QED
    BY <2>1, <2>2, <2>3
<1>2. Apart(rest)
  <2> SUFFICES ASSUME NEW i \in DOMAIN rest, NEW j \in DOMAIN rest, i # j
               PROVE  rest[i] \cap rest[j] = {}
    BY DEF Apart
  <2>1. i + 1 # j + 1
    OBVIOUS
  <2> QED
    BY <1>1, <2>1 DEF Apart
<1>3. h \subseteq Of(s)
  BY <1>1 DEF Of
<1>4. ASSUME NEW b, b \in Of(rest) PROVE b \in Of(s) \ h
  <2>1. PICK i \in DOMAIN rest : b \in rest[i]
    BY <1>4 DEF Of
  <2>2. i + 1 # 1
    OBVIOUS
  <2> QED
    BY <1>1, <2>1, <2>2 DEF Of, Apart
<1>5. ASSUME NEW b, b \in Of(s) \ h PROVE b \in Of(rest)
  <2>1. PICK i \in DOMAIN s : b \in s[i]
    BY <1>5 DEF Of
  <2>2. i # 1
    BY <1>1, <1>5, <2>1
  <2> QED
    BY <1>1, <2>1, <2>2 DEF Of
<1> QED
  BY <1>1, <1>2, <1>3, <1>4, <1>5

LEMMA BatchJoins ==
  ASSUME NEW s \in Seq(SUBSET Bulk!Book), NEW h \in SUBSET Bulk!Book, Apart(s), h \cap Of(s) = {}
  PROVE  /\ Append(s, h) \in Seq(SUBSET Bulk!Book) /\ Len(Append(s, h)) = Len(s) + 1
         /\ Apart(Append(s, h)) /\ Of(Append(s, h)) = Of(s) \cup h
<1>1. PICK t \in Seq(SUBSET Bulk!Book) :
        /\ t = Append(s, h) /\ Len(t) = Len(s) + 1 /\ Len(t) \in DOMAIN t /\ t[Len(t)] = h
        /\ \A i \in DOMAIN s : i \in DOMAIN t /\ t[i] = s[i]
        /\ \A i \in DOMAIN t : (i \in DOMAIN s /\ t[i] = s[i]) \/ (i = Len(t) /\ t[i] = h)
  <2>1. PICK t : t = Append(s, h)
    OBVIOUS
  <2>2. /\ t \in Seq(SUBSET Bulk!Book) /\ Len(t) = Len(s) + 1 /\ Len(t) \in DOMAIN t
        /\ t[Len(t)] = h /\ \A i \in DOMAIN s : i \in DOMAIN t /\ t[i] = s[i]
    BY <2>1
  <2>3. \A i \in DOMAIN t : (i \in DOMAIN s /\ t[i] = s[i]) \/ (i = Len(t) /\ t[i] = h)
    BY <2>1
  <2> QED
    BY <2>1, <2>2, <2>3
<1>2. Apart(t)
  BY <1>1 DEF Apart, Of
<1>3. Of(t) = Of(s) \cup h
  BY <1>1 DEF Of
<1> QED
  BY <1>1, <1>2, <1>3

LEMMA NoBatches == Apart(<<>>) /\ Of(<<>>) = {}
BY DEF Apart, Of

\* A worker takes a batch in the place of the one it has.
LEMMA WorkerTakes ==
  ASSUME Bulk!TypeOK, EachOnce, NEW w \in 1 .. Workers, NEW state, NEW h,
         h \cap Held \subseteq worker[w].batch, Bulk!Became(w, state, h),
         state \in {"take", "embed", "send", "done"}, h \in SUBSET Bulk!Book
  PROVE  /\ worker' \in [1 .. Workers -> [at : {"take", "embed", "send", "done"}, batch : SUBSET Bulk!Book]]
         /\ worker'[w].at = state /\ worker'[w].batch = h
         /\ \A v \in 1 .. Workers : v # w => worker'[v] = worker[v]
         /\ \A v, u \in 1 .. Workers : v # u => worker'[v].batch \cap worker'[u].batch = {}
         /\ worker[w].batch \subseteq Held /\ Held' = (Held \ worker[w].batch) \cup h
<1>1. PICK r \in [at : {"take", "embed", "send", "done"}, batch : SUBSET Bulk!Book] :
        r = [at |-> state, batch |-> h] /\ r.at = state /\ r.batch = h
  <2>1. PICK r : r = [at |-> state, batch |-> h]
    OBVIOUS
  <2>2. r.at = state /\ r.batch = h
    BY <2>1
  <2>3. r \in [at : {"take", "embed", "send", "done"}, batch : SUBSET Bulk!Book]
    BY <2>1
  <2> QED
    BY <2>1, <2>2, <2>3
<1>2. /\ worker \in [1 .. Workers -> [at : {"take", "embed", "send", "done"}, batch : SUBSET Bulk!Book]]
      /\ worker' = [worker EXCEPT ![w] = r]
  BY <1>1 DEF Bulk!TypeOK, Bulk!Became
<1>3. /\ worker' \in [1 .. Workers -> [at : {"take", "embed", "send", "done"}, batch : SUBSET Bulk!Book]]
      /\ worker'[w] = r /\ \A v \in 1 .. Workers : v # w => worker'[v] = worker[v]
  BY <1>2
<1>4. ASSUME NEW v \in 1 .. Workers, v # w PROVE worker[v].batch \cap h = {}
  <2>1. worker[v].batch \cap worker[w].batch = {}
    BY <1>4 DEF EachOnce
  <2>2. worker[v].batch \subseteq Held
    BY DEF Held
  <2> QED
    BY <2>1, <2>2
<1>5. \A v, u \in 1 .. Workers : v # u => worker'[v].batch \cap worker'[u].batch = {}
  <2> SUFFICES ASSUME NEW v \in 1 .. Workers, NEW u \in 1 .. Workers, v # u
               PROVE  worker'[v].batch \cap worker'[u].batch = {}
    OBVIOUS
  <2>1. CASE v = w
    BY <1>1, <1>3, <1>4, <2>1
  <2>2. CASE u = w
    BY <1>1, <1>3, <1>4, <2>2
  <2>3. CASE v # w /\ u # w
    BY <1>3, <2>3 DEF EachOnce
  <2> QED
    BY <2>1, <2>2, <2>3
<1>6. worker[w].batch \subseteq Held
  BY DEF Held
<1>7. ASSUME NEW b, b \in Held' PROVE b \in (Held \ worker[w].batch) \cup h
  <2>1. PICK v \in 1 .. Workers : b \in worker'[v].batch
    BY <1>7 DEF Held
  <2>2. CASE v = w
    BY <1>1, <1>3, <2>1, <2>2
  <2>3. CASE v # w
    <3>1. b \in worker[v].batch /\ worker[v].batch \cap worker[w].batch = {}
      BY <1>3, <2>1, <2>3 DEF EachOnce
    <3> QED
      BY <3>1 DEF Held
  <2> QED
    BY <2>2, <2>3
<1>8. ASSUME NEW b, b \in (Held \ worker[w].batch) \cup h PROVE b \in Held'
  <2>1. CASE b \in h
    BY <1>1, <1>3, <2>1 DEF Held
  <2>2. CASE b \in Held \ worker[w].batch
    <3>1. PICK v \in 1 .. Workers : b \in worker[v].batch
      BY <2>2 DEF Held
    <3>2. v # w
      BY <2>2, <3>1
    <3> QED
      BY <1>3, <3>1, <3>2 DEF Held
  <2> QED
    BY <1>8, <2>1, <2>2
<1> QED
  BY <1>1, <1>3, <1>5, <1>6, <1>7, <1>8

\* What a page ends with, in books.
LEMMA PageEnds ==
  ASSUME NEW p \in Nat, p >= 1
  PROVE  /\ (p - 1) * PageSize \in Nat /\ p * PageSize \in Nat
         /\ p * PageSize = (p - 1) * PageSize + PageSize
         /\ (p - 1) * PageSize >= p - 1
<1>1. PageSize \in Nat /\ PageSize >= 1
  BY BulkConstants
<1>2. PICK q \in Nat : p = q + 1 /\ q = p - 1
  OBVIOUS
<1>3. q * PageSize \in Nat /\ (q + 1) * PageSize = q * PageSize + PageSize
  BY <1>1, Z3
<1>4. q * PageSize >= q
  BY <1>1, Z3
<1> QED
  BY <1>1, <1>2, <1>3, <1>4

\* No more is taken than there are books, and no more errors than queries.
LEMMA TakenBound ==
  ASSUME BulkInv
  PROVE  /\ taken \in Nat /\ taken <= Total
         /\ queryErrors \in Nat /\ queryErrors <= Total + 1
         /\ queryErrors <= reader.page /\ reader.page \in 1 .. Total + 1
         /\ Total \in Nat
         /\ stats.embedded \in Nat /\ stats.skipped \in Nat /\ stats.errors \in Nat
         /\ stats \in [embedded : Bulk!Counts, skipped : Bulk!Counts, errors : Bulk!Counts]
         /\ Pending \in SUBSET Bulk!Book /\ Cardinality(Pending) \in Nat
<1>1. PagesRead \in SUBSET Bulk!Book
  BY DEF PagesRead
<1>2. Cardinality(PagesRead) \in Nat /\ Cardinality(PagesRead) <= Total
  BY <1>1, BooksFinite
<1>3. /\ taken \in Nat /\ queryErrors \in Nat /\ Total \in Nat
      /\ stats \in [embedded : Bulk!Counts, skipped : Bulk!Counts, errors : Bulk!Counts]
      /\ reader.page \in 1 .. Total + 1
  BY BulkConstants DEF BulkInv, Bulk!TypeOK, Bulk!Counts, Bulk!ReaderStates
<1>4. stats.embedded \in Nat /\ stats.skipped \in Nat /\ stats.errors \in Nat
  BY <1>3 DEF Bulk!Counts
<1>5. taken <= Total
  BY <1>2, <1>3 DEF BulkInv, OnPagesRead
<1>6. queryErrors <= reader.page
  BY <1>3 DEF BulkInv, OnPagesRead
<1>7. Pending \in SUBSET Bulk!Book
  BY <1>1 DEF BulkInv, OnPagesRead
<1> QED
  BY <1>3, <1>4, <1>5, <1>6, <1>7, BooksFinite

\* A step that takes a batch away and counts its books, or some of them once
\* the run is cancelled.
LEMMA Settles ==
  ASSUME BulkInv, NEW h \in SUBSET Pending, Pending' = Pending \ h,
         UNCHANGED <<taken, queryErrors>>, cancelled => cancelled',
         NEW n \in Nat, n <= Cardinality(h), n = Cardinality(h) \/ cancelled',
         stats'.embedded \in Nat, stats'.skipped \in Nat, stats'.errors \in Nat,
         stats'.embedded + stats'.skipped + stats'.errors =
           stats.embedded + stats.skipped + stats.errors + n
  PROVE  /\ CountedOrPending'
         /\ stats'.embedded \in Bulk!Counts /\ stats'.skipped \in Bulk!Counts
         /\ stats'.errors \in Bulk!Counts
<1>1. PICK p \in Nat, m \in Nat, q \in Nat :
        /\ p = Cardinality(Pending) /\ m = Cardinality(h) /\ q = Cardinality(Pending')
        /\ q = p - m
  BY TakenBound, TakenOut, BooksFinite
<1>2. PICK s \in Nat : s = stats.embedded + stats.skipped + stats.errors
  BY TakenBound
<1>3. s + p <= taken + queryErrors /\ (~cancelled => s + p = taken + queryErrors)
  BY <1>1, <1>2 DEF BulkInv, CountedOrPending, Settled
<1>4. /\ s + n + q <= taken + queryErrors
      /\ ~cancelled' => s + n + q = taken + queryErrors
  BY <1>1, <1>3, TakenBound
<1>5. CountedOrPending'
  BY <1>1, <1>2, <1>4 DEF CountedOrPending, Settled
<1>6. s + n <= 2 * Total + 1
  BY <1>4, TakenBound
<1> QED
  BY <1>2, <1>5, <1>6, TakenBound DEF Bulk!Counts

\* A step that moves batches, or drops them once the run is cancelled.
LEMMA Moves ==
  ASSUME BulkInv, NEW h \in SUBSET Pending, Pending' = Pending \ h,
         UNCHANGED <<stats, taken, queryErrors>>, cancelled => cancelled',
         h = {} \/ cancelled'
  PROVE  CountedOrPending'
<1>1. Cardinality(h) \in Nat /\ (h = {} => Cardinality(h) = 0)
  BY TakenBound, BooksFinite, FS_EmptySet
<1> QED
  BY <1>1, TakenBound, Settles

LEMMA Stays ==
  ASSUME BulkInv, Pending' = Pending, UNCHANGED <<stats, taken, queryErrors>>,
         cancelled => cancelled'
  PROVE  CountedOrPending'
<1>1. PICK h \in SUBSET Pending : h = {} /\ Pending' = Pending \ h
  OBVIOUS
<1> QED
  BY <1>1, Moves

\* A step in which the reader reads no page.
LEMMA SamePages ==
  ASSUME BulkInv, Pending' \subseteq Pending, UNCHANGED <<taken, queryErrors>>,
         reader' = reader \/ (reader.at = "send" /\ reader'.at \in {"send", "done"})
                          \/ (reader.at = "read" /\ reader'.at = "done"),
         reader'.page = reader.page
  PROVE  OnPagesRead'
<1>1. PICK a, z \in Nat : /\ a = Boundary /\ z = Boundary' /\ a <= z
  BY TakenBound, PageEnds, BulkConstants DEF Boundary
<1>2. PagesRead \subseteq PagesRead'
  BY <1>1, BulkConstants DEF PagesRead, Bulk!Book
<1>3. PagesRead' \in SUBSET Bulk!Book
  BY DEF PagesRead
<1>4. Cardinality(PagesRead) <= Cardinality(PagesRead') /\ Cardinality(PagesRead) \in Nat /\ Cardinality(PagesRead') \in Nat
  BY <1>2, <1>3, TakenOut, BooksFinite
<1>5. taken' <= Cardinality(PagesRead')
  BY <1>4, TakenBound DEF BulkInv, OnPagesRead
<1>6. queryErrors <= (IF reader'.at = "read" THEN reader'.page - 1 ELSE reader'.page)
  BY TakenBound DEF BulkInv, OnPagesRead
<1>7. reader'.at = "send" => reader'.page <= Total
  BY DEF BulkInv, OnPagesRead
<1> QED
  BY <1>2, <1>5, <1>6, <1>7 DEF BulkInv, OnPagesRead

\* Everything in the state is of its type.
LEMMA BulkTypes ==
  ASSUME BulkInv
  PROVE  /\ reader \in Bulk!ReaderStates
         /\ reader.batches \in Seq(SUBSET Bulk!Book)
         /\ batchCh \in Seq(SUBSET Bulk!Book) /\ resultCh \in Seq(SUBSET Bulk!Book)
         /\ Len(batchCh) <= ChanSize /\ Len(resultCh) <= ChanSize
         /\ Len(batchCh) \in Nat /\ Len(resultCh) \in Nat
         /\ worker \in [1 .. Workers -> [at : {"take", "embed", "send", "done"}, batch : SUBSET Bulk!Book]]
         /\ \A w \in 1 .. Workers : worker[w].at \in {"take", "embed", "send", "done"}
                                    /\ worker[w].batch \in SUBSET Bulk!Book
         /\ collector \in [at : {"collect", "flush", "final", "done"}, buf : SUBSET Bulk!Book]
         /\ collector.buf \in SUBSET Bulk!Book
         /\ cancelled \in BOOLEAN
         /\ Held \in SUBSET Bulk!Book
BY DEF BulkInv, Bulk!TypeOK, Bulk!ReaderStates, Held

\* The reader sends a batch, or gives up.
LEMMA SendBatchStep ==
  ASSUME BulkInv, Bulk!SendBatch
  PROVE  BulkInv'
<1>1. /\ reader.at = "send" /\ reader.batches # <<>>
      /\ UNCHANGED <<opts, resultCh, worker, collector, stats, cancelled, embedded, taken, queryErrors>>
  BY DEF Bulk!SendBatch
<1> PICK R, C, H, Q, B : /\ R = Of(reader.batches) /\ C = Of(batchCh) /\ H = Held
                         /\ Q = Of(resultCh) /\ B = collector.buf
  OBVIOUS
<1>2. InOnePlace(R, C, H, Q, B) /\ Pending = R \cup C \cup H \cup Q \cup B
  BY DEF BulkInv, EachOnce, Pending
<1>3. H = Held' /\ Q = Of(resultCh)' /\ B = collector'.buf
  BY <1>1 DEF Held
<1>4. CASE /\ Len(batchCh) < ChanSize
           /\ batchCh' = Append(batchCh, Head(reader.batches))
           /\ reader' = [reader EXCEPT !.batches = Tail(@)]
  <2>1. PICK h \in SUBSET Bulk!Book, rest \in Seq(SUBSET Bulk!Book) :
          /\ h = Head(reader.batches) /\ rest = Tail(reader.batches)
          /\ h \subseteq R /\ Of(rest) = R \ h /\ Apart(rest)
    BY <1>1, BulkTypes, BatchLeaves DEF BulkInv, EachOnce
  <2>2. h \cap C = {}
    BY <1>2, <2>1 DEF InOnePlace
  <2>3. /\ batchCh' \in Seq(SUBSET Bulk!Book) /\ Len(batchCh') = Len(batchCh) + 1
        /\ Apart(batchCh') /\ Of(batchCh') = C \cup h
    BY <1>4, <2>1, <2>2, BulkTypes, BatchJoins DEF BulkInv, EachOnce
  <2>4. /\ reader' \in Bulk!ReaderStates /\ reader'.at = "send" /\ reader'.page = reader.page
        /\ reader'.batches = rest
    BY <1>1, <1>4, <2>1, BulkTypes DEF Bulk!ReaderStates
  <2>5. Bulk!TypeOK'
    BY <1>1, <1>4, <2>3, <2>4, BulkTypes, BulkConstants, SMTT(30) DEF BulkInv, Bulk!TypeOK
  <2>6. InOnePlace(R \ h, C \cup h, H, Q, B)
    BY <1>2, <2>1 DEF InOnePlace
  <2>7. EachOnce'
    BY <1>1, <1>3, <2>1, <2>3, <2>4, <2>6 DEF BulkInv, EachOnce
  <2>8. Pending' = Pending
    BY <1>2, <1>3, <2>1, <2>3, <2>4 DEF Pending
  <2>9. CountedOrPending'
    BY <1>1, <2>8, Stays
  <2>10. OnPagesRead'
    BY <1>1, <2>4, <2>8, SamePages
  <2>11. NothingLeft'
    BY <1>1, <2>4 DEF BulkInv, NothingLeft, Bulk!AllDone
  <2> QED
    BY <2>5, <2>7, <2>9, <2>10, <2>11 DEF BulkInv
<1>5. CASE cancelled /\ reader' = [reader EXCEPT !.at = "done"] /\ UNCHANGED batchCh
  <2>1. /\ reader' \in Bulk!ReaderStates /\ reader'.at = "done" /\ reader'.page = reader.page
        /\ reader'.batches = reader.batches
    BY <1>5, BulkTypes DEF Bulk!ReaderStates
  <2>2. Bulk!TypeOK'
    BY <1>1, <1>5, <2>1 DEF BulkInv, Bulk!TypeOK
  <2>3. EachOnce' /\ Pending' = Pending
    BY <1>1, <1>3, <1>5, <2>1 DEF BulkInv, EachOnce, Pending
  <2>4. CountedOrPending'
    BY <1>1, <2>3, Stays
  <2>5. OnPagesRead'
    BY <1>1, <2>1, <2>3, SamePages
  <2>6. NothingLeft'
    BY <1>1, <1>5, <2>1 DEF BulkInv, NothingLeft, Bulk!AllDone
  <2> QED
    BY <2>2, <2>3, <2>4, <2>5, <2>6 DEF BulkInv
<1> QED
  BY <1>4, <1>5 DEF Bulk!SendBatch

\* The reader goes on to the next page, or ends.
LEMMA ReaderTurns ==
  ASSUME BulkInv,
         UNCHANGED <<opts, batchCh, resultCh, worker, collector, cancelled, embedded, taken>>,
         \/ Bulk!NextPage \/ Bulk!NoMoreBooks \/ Bulk!ReaderStops \/ Bulk!SearchFails
  PROVE  BulkInv'
<1>1. /\ reader' \in Bulk!ReaderStates /\ reader'.batches = reader.batches
      /\ reader'.at \in {"read", "done"} /\ reader.at \in {"read", "send"}
      /\ reader.at = "send" => reader.batches = <<>>
      /\ reader'.at = "done" => reader'.page = reader.page
      /\ reader'.at = "read" => \/ reader.at = "read" /\ reader'.page = reader.page
                                \/ reader.at = "send" /\ reader'.page = reader.page + 1
  <2>1. CASE Bulk!NextPage
    <3>1. reader.page <= Total /\ reader.page \in Nat /\ reader.page >= 1 /\ Total \in Nat
      BY <2>1, BulkConstants, TakenBound DEF BulkInv, OnPagesRead, Bulk!NextPage
    <3>2. CASE reader.last
      BY <2>1, <3>2, BulkTypes DEF Bulk!NextPage, Bulk!ReaderStates
    <3>3. CASE ~reader.last
      <4>1. reader' = [reader EXCEPT !.at = "read", !.page = @ + 1] /\ reader.at = "send"
            /\ reader.batches = <<>>
        BY <2>1, <3>3 DEF Bulk!NextPage
      <4>2. reader.page + 1 \in 1 .. Total + 1
        BY <3>1
      <4> QED
        BY <4>1, <4>2, BulkTypes DEF Bulk!ReaderStates
    <3> QED
      BY <3>2, <3>3
  <2>2. CASE Bulk!ReaderStops
    BY <2>2, BulkTypes DEF Bulk!ReaderStops, Bulk!Reading, Bulk!ReaderStates
  <2>3. CASE Bulk!SearchFails \/ Bulk!NoMoreBooks
    <3>1. reader.attempt \in Nat /\ reader.attempt >= 1 /\ FirstPageAttempts \in Nat
      BY BulkTypes, BulkConstants DEF Bulk!ReaderStates
    <3>2. reader \in Bulk!ReaderStates /\ reader.at = "read"
      BY <2>3, BulkTypes DEF Bulk!SearchFails, Bulk!NoMoreBooks, Bulk!Reading
    <3>3. CASE reader' = [reader EXCEPT !.at = "done"]
      BY <3>2, <3>3 DEF Bulk!ReaderStates
    <3>4. CASE reader.attempt < FirstPageAttempts /\ reader' = [reader EXCEPT !.attempt = @ + 1]
      BY <3>1, <3>2, <3>4, SMTT(30) DEF Bulk!ReaderStates
    <3> QED
      BY <2>3, <3>3, <3>4 DEF Bulk!SearchFails, Bulk!NoMoreBooks
  <2> QED
    BY <2>1, <2>2, <2>3
<1>2. reader.batches = <<>>
  BY <1>1 DEF BulkInv, NothingLeft
<1>3. \/ UNCHANGED <<stats, queryErrors>>
      \/ /\ stats' = [stats EXCEPT !.errors = @ + 1] /\ queryErrors' = queryErrors + 1
         /\ reader.at = "read" /\ reader'.at = "done"
  BY BulkTypes DEF Bulk!NextPage, Bulk!NoMoreBooks, Bulk!ReaderStops, Bulk!SearchFails, Bulk!Reading, Bulk!ReaderStates
<1>4. EachOnce' /\ Pending' = Pending
  BY <1>1 DEF BulkInv, EachOnce, Pending, Held
<1>5. NothingLeft'
  BY <1>1, <1>2 DEF BulkInv, NothingLeft, Bulk!AllDone
<1>6. CountedOrPending' /\ Bulk!TypeOK'
  <2>1. CASE UNCHANGED <<stats, queryErrors>>
    <3>1. CountedOrPending'
      BY <1>4, <2>1, Stays
    <3> QED
      BY <1>1, <2>1, <3>1 DEF BulkInv, Bulk!TypeOK
  <2>2. CASE stats' = [stats EXCEPT !.errors = @ + 1] /\ queryErrors' = queryErrors + 1
             /\ reader.at = "read"
    <3>1. /\ stats'.embedded = stats.embedded /\ stats'.skipped = stats.skipped
          /\ stats'.errors = stats.errors + 1
      BY <2>2, TakenBound
    <3>2. Cardinality(Pending') = Cardinality(Pending) /\ Cardinality(Pending) \in Nat
      BY <1>4, TakenBound
    <3>3. /\ Settled \in Nat /\ Settled' = Settled + 1
          /\ Settled <= taken + queryErrors
          /\ ~cancelled => Settled = taken + queryErrors
      BY <3>1, <3>2, TakenBound DEF Settled, BulkInv, CountedOrPending
    <3>4. CountedOrPending'
      BY <2>2, <3>3, TakenBound DEF CountedOrPending
    <3>5. queryErrors <= Total
      BY <2>2, TakenBound DEF BulkInv, OnPagesRead
    <3>6. stats'.embedded + stats'.skipped + stats'.errors <= 2 * Total + 1
      BY <2>2, <3>1, <3>2, <3>3, <3>5, TakenBound DEF Settled
    <3>7. stats' \in [embedded : Bulk!Counts, skipped : Bulk!Counts, errors : Bulk!Counts]
      BY <2>2, <3>1, <3>6, TakenBound DEF Bulk!Counts
    <3>8. queryErrors' \in Bulk!Counts
      BY <2>2, <3>5, TakenBound DEF Bulk!Counts
    <3> QED
      BY <1>1, <3>4, <3>7, <3>8 DEF BulkInv, Bulk!TypeOK
  <2> QED
    BY <1>3, <2>1, <2>2
<1>7. OnPagesRead'
  <2>1. CASE reader'.at = "done" /\ UNCHANGED queryErrors
    BY <1>1, <1>4, <2>1, SamePages
  <2>2. CASE reader'.at = "done" /\ queryErrors' = queryErrors + 1 /\ reader.at = "read"
    <3>1. PICK a, z \in Nat : a = Boundary /\ z = Boundary' /\ a <= z
      BY <1>1, <2>2, TakenBound, PageEnds, BulkConstants DEF Boundary
    <3>2. PagesRead \subseteq PagesRead'
      BY <3>1, BulkConstants DEF PagesRead, Bulk!Book
    <3>3. PagesRead' \in SUBSET Bulk!Book
      BY DEF PagesRead
    <3>4. Cardinality(PagesRead) <= Cardinality(PagesRead') /\ Cardinality(PagesRead) \in Nat
          /\ Cardinality(PagesRead') \in Nat
      BY <3>2, <3>3, TakenOut, BooksFinite
    <3>5. taken' <= Cardinality(PagesRead')
      BY <3>4, TakenBound DEF BulkInv, OnPagesRead
    <3>6. queryErrors' <= reader'.page
      BY <1>1, <2>2, TakenBound DEF BulkInv, OnPagesRead
    <3> QED
      BY <1>1, <1>4, <2>2, <3>2, <3>5, <3>6 DEF BulkInv, OnPagesRead
  <2>3. CASE reader'.at = "read"
    <3>1. UNCHANGED queryErrors
      BY <1>3, <2>3
    <3>2. PICK a \in Nat : a = Boundary /\ a = Boundary'
      <4>1. CASE reader.at = "read" /\ reader'.page = reader.page
        BY <2>3, <4>1, TakenBound, PageEnds DEF Boundary
      <4>2. CASE reader.at = "send" /\ reader'.page = reader.page + 1
        <5>1. reader'.page - 1 = reader.page
          BY <4>2, TakenBound
        <5> QED
          BY <2>3, <4>2, <5>1, TakenBound, PageEnds DEF Boundary
      <4> QED
        BY <1>1, <2>3, <4>1, <4>2
    <3>3. PagesRead' = PagesRead
      BY <3>2 DEF PagesRead
    <3>4. queryErrors' <= reader'.page - 1
      BY <1>1, <2>3, <3>1, TakenBound DEF BulkInv, OnPagesRead
    <3> QED
      BY <1>4, <2>3, <3>3, <3>4 DEF BulkInv, OnPagesRead
  <2> QED
    BY <1>1, <1>3, <2>1, <2>2, <2>3
<1> QED
  BY <1>4, <1>5, <1>6, <1>7 DEF BulkInv

\* A worker that works is not done, so the collector still collects.
LEMMA CollectorWaits ==
  ASSUME BulkInv, NEW w \in 1 .. Workers, worker[w].at # "done"
  PROVE  collector.at \in {"collect", "flush"}
BY BulkTypes DEF BulkInv, NothingLeft, Bulk!AllDone

\* What the other workers have and who has stopped is as it was.
LEMMA OthersLeft ==
  ASSUME BulkInv, NEW w \in 1 .. Workers, worker[w].at # "done",
         UNCHANGED <<reader, collector>>, cancelled => cancelled',
         \A v \in 1 .. Workers : v # w => worker'[v] = worker[v],
         worker'[w].at \in {"take", "done"} => worker'[w].batch = {},
         worker'[w].at = "done" /\ ~cancelled' => batchCh' = <<>> /\ reader.at = "done",
         batchCh = <<>> => batchCh' = <<>>
  PROVE  NothingLeft'
<1>1. collector.at \in {"collect", "flush"}
  BY CollectorWaits
<1>2. ASSUME NEW v \in 1 .. Workers
      PROVE  /\ worker'[v].at \in {"take", "done"} => worker'[v].batch = {}
             /\ worker'[v].at = "done" /\ ~cancelled' => batchCh' = <<>> /\ reader.at = "done"
  <2>1. CASE v = w
    BY <2>1
  <2>2. CASE v # w
    BY <2>2 DEF BulkInv, NothingLeft
  <2> QED
    BY <2>1, <2>2
<1> QED
  BY <1>1, <1>2 DEF BulkInv, NothingLeft

\* A worker takes a batch, drops it if the run is cancelled, or stops.
LEMMA TakeBatchStep ==
  ASSUME BulkInv, NEW w \in 1 .. Workers, Bulk!TakeBatch(w)
  PROVE  BulkInv'
<1>1. /\ worker[w].at = "take" /\ worker[w].batch = {}
      /\ UNCHANGED <<opts, reader, collector, embedded, taken, queryErrors, resultCh, stats, cancelled>>
  BY DEF Bulk!TakeBatch, Bulk!AtWork, BulkInv, NothingLeft
<1> PICK R, C, H, Q, B : /\ R = Of(reader.batches) /\ C = Of(batchCh) /\ H = Held
                         /\ Q = Of(resultCh) /\ B = collector.buf
  OBVIOUS
<1>2. InOnePlace(R, C, H, Q, B) /\ Pending = R \cup C \cup H \cup Q \cup B
  BY DEF BulkInv, EachOnce, Pending
<1>3. R = Of(reader.batches)' /\ Q = Of(resultCh)' /\ B = collector'.buf
  BY <1>1
<1>4. CASE batchCh # <<>>
  <2>1. PICK h \in SUBSET Bulk!Book, rest \in Seq(SUBSET Bulk!Book) :
          /\ h = Head(batchCh) /\ rest = Tail(batchCh) /\ h \subseteq C /\ Of(rest) = C \ h
          /\ Apart(rest) /\ Len(rest) = Len(batchCh) - 1
    BY <1>4, BulkTypes, BatchLeaves DEF BulkInv, EachOnce
  <2>2. batchCh' = rest
    BY <1>4, <2>1 DEF Bulk!TakeBatch
  <2>3. h \cap H = {}
    BY <1>2, <2>1 DEF InOnePlace
  <2>4. CASE cancelled
    <3>1. Bulk!Became(w, "done", {})
      BY <1>4, <2>4 DEF Bulk!TakeBatch
    <3>2. /\ worker' \in [1 .. Workers -> [at : {"take", "embed", "send", "done"}, batch : SUBSET Bulk!Book]]
          /\ worker'[w].at = "done" /\ worker'[w].batch = {}
          /\ \A v \in 1 .. Workers : v # w => worker'[v] = worker[v]
          /\ \A v, u \in 1 .. Workers : v # u => worker'[v].batch \cap worker'[u].batch = {}
          /\ Held' = (Held \ worker[w].batch) \cup {}
      BY <3>1, WorkerTakes DEF BulkInv
    <3>3. Held' = H
      BY <1>1, <3>2
    <3>4. Bulk!TypeOK'
      BY <1>1, <2>1, <2>2, <3>2, BulkTypes, BulkConstants DEF BulkInv, Bulk!TypeOK
    <3>5. InOnePlace(R, C \ h, H, Q, B)
      BY <1>2 DEF InOnePlace
    <3>6. EachOnce'
      BY <1>1, <1>3, <2>1, <2>2, <3>2, <3>3, <3>5 DEF BulkInv, EachOnce
    <3>7. h \in SUBSET Pending /\ Pending' = Pending \ h
      BY <1>2, <1>3, <2>1, <2>2, <3>3 DEF Pending, InOnePlace
    <3>8. CountedOrPending'
      BY <1>1, <2>4, <3>7, Moves
    <3>9. OnPagesRead'
      BY <1>1, <3>7, SamePages
    <3>10. NothingLeft'
      BY <1>1, <1>4, <2>4, <3>2, OthersLeft
    <3> QED
      BY <3>4, <3>6, <3>8, <3>9, <3>10 DEF BulkInv
  <2>5. CASE ~cancelled
    <3>1. Bulk!Became(w, "embed", h)
      BY <1>4, <2>1, <2>5 DEF Bulk!TakeBatch
    <3>2. /\ worker' \in [1 .. Workers -> [at : {"take", "embed", "send", "done"}, batch : SUBSET Bulk!Book]]
          /\ worker'[w].at = "embed" /\ worker'[w].batch = h
          /\ \A v \in 1 .. Workers : v # w => worker'[v] = worker[v]
          /\ \A v, u \in 1 .. Workers : v # u => worker'[v].batch \cap worker'[u].batch = {}
          /\ Held' = (Held \ worker[w].batch) \cup h
      BY <2>3, <3>1, WorkerTakes DEF BulkInv
    <3>3. Held' = H \cup h
      BY <1>1, <3>2
    <3>4. Bulk!TypeOK'
      BY <1>1, <2>1, <2>2, <3>2, BulkTypes, BulkConstants DEF BulkInv, Bulk!TypeOK
    <3>5. InOnePlace(R, C \ h, H \cup h, Q, B)
      BY <1>2, <2>1 DEF InOnePlace
    <3>6. EachOnce'
      BY <1>1, <1>3, <2>1, <2>2, <3>2, <3>3, <3>5 DEF BulkInv, EachOnce
    <3>7. Pending' = Pending
      BY <1>2, <1>3, <2>1, <2>2, <3>3 DEF Pending
    <3>8. CountedOrPending'
      BY <1>1, <3>7, Stays
    <3>9. OnPagesRead'
      BY <1>1, <3>7, SamePages
    <3>10. NothingLeft'
      BY <1>1, <1>4, <3>2, OthersLeft
    <3> QED
      BY <3>4, <3>6, <3>8, <3>9, <3>10 DEF BulkInv
  <2> QED
    BY <2>4, <2>5
<1>5. CASE batchCh = <<>>
  <2>1. reader.at = "done" /\ Bulk!Became(w, "done", {}) /\ batchCh' = batchCh
    BY <1>5 DEF Bulk!TakeBatch
  <2>2. /\ worker' \in [1 .. Workers -> [at : {"take", "embed", "send", "done"}, batch : SUBSET Bulk!Book]]
        /\ worker'[w].at = "done" /\ worker'[w].batch = {}
        /\ \A v \in 1 .. Workers : v # w => worker'[v] = worker[v]
        /\ \A v, u \in 1 .. Workers : v # u => worker'[v].batch \cap worker'[u].batch = {}
        /\ Held' = (Held \ worker[w].batch) \cup {}
    BY <2>1, WorkerTakes DEF BulkInv
  <2>3. Held' = H
    BY <1>1, <2>2
  <2>4. Bulk!TypeOK'
    BY <1>1, <2>1, <2>2 DEF BulkInv, Bulk!TypeOK
  <2>5. EachOnce' /\ Pending' = Pending
    BY <1>1, <1>2, <1>3, <2>1, <2>2, <2>3 DEF BulkInv, EachOnce, Pending
  <2>6. CountedOrPending'
    BY <1>1, <2>5, Stays
  <2>7. OnPagesRead'
    BY <1>1, <2>5, SamePages
  <2>8. NothingLeft'
    BY <1>1, <1>5, <2>1, <2>2, OthersLeft
  <2> QED
    BY <2>4, <2>5, <2>6, <2>7, <2>8 DEF BulkInv
<1> QED
  BY <1>4, <1>5

\* A worker embeds its batch.
LEMMA EmbedTextsStep ==
  ASSUME BulkInv, NEW w \in 1 .. Workers, Bulk!EmbedTexts(w)
  PROVE  BulkInv'
<1>1. /\ worker[w].at = "embed" /\ Bulk!Became(w, "send", worker[w].batch)
      /\ UNCHANGED <<opts, reader, collector, embedded, taken, queryErrors, batchCh, resultCh, stats, cancelled>>
  BY DEF Bulk!EmbedTexts, Bulk!AtWork
<1>2. /\ worker' \in [1 .. Workers -> [at : {"take", "embed", "send", "done"}, batch : SUBSET Bulk!Book]]
      /\ worker'[w].at = "send" /\ worker'[w].batch = worker[w].batch
      /\ \A v \in 1 .. Workers : v # w => worker'[v] = worker[v]
      /\ \A v, u \in 1 .. Workers : v # u => worker'[v].batch \cap worker'[u].batch = {}
      /\ worker[w].batch \subseteq Held
      /\ Held' = (Held \ worker[w].batch) \cup worker[w].batch
  BY <1>1, BulkTypes, WorkerTakes DEF BulkInv
<1>3. Held' = Held
  BY <1>2
<1>4. Bulk!TypeOK'
  BY <1>1, <1>2 DEF BulkInv, Bulk!TypeOK
<1>5. EachOnce' /\ Pending' = Pending
  BY <1>1, <1>2, <1>3 DEF BulkInv, EachOnce, Pending
<1>6. CountedOrPending'
  BY <1>1, <1>5, Stays
<1>7. OnPagesRead'
  BY <1>1, <1>5, SamePages
<1>8. NothingLeft'
  BY <1>1, <1>2, OthersLeft
<1> QED
  BY <1>4, <1>5, <1>6, <1>7, <1>8 DEF BulkInv

\* The books of a batch whose embedding fails are counted as errors.
LEMMA EmbedFailsStep ==
  ASSUME BulkInv, NEW w \in 1 .. Workers, Bulk!EmbedFails(w)
  PROVE  BulkInv'
<1>1. /\ worker[w].at = "embed" /\ Bulk!Became(w, "take", {})
      /\ UNCHANGED <<opts, reader, collector, embedded, taken, queryErrors, batchCh, resultCh>>
      /\ (cancelled => cancelled') /\ cancelled' \in BOOLEAN
  BY BulkTypes DEF Bulk!EmbedFails, Bulk!AtWork, Bulk!Count
<1> PICK h \in SUBSET Bulk!Book : h = worker[w].batch
  BY BulkTypes
<1>2. /\ worker' \in [1 .. Workers -> [at : {"take", "embed", "send", "done"}, batch : SUBSET Bulk!Book]]
      /\ worker'[w].at = "take" /\ worker'[w].batch = {}
      /\ \A v \in 1 .. Workers : v # w => worker'[v] = worker[v]
      /\ \A v, u \in 1 .. Workers : v # u => worker'[v].batch \cap worker'[u].batch = {}
      /\ h \subseteq Held /\ Held' = (Held \ h) \cup {}
  BY <1>1, WorkerTakes DEF BulkInv
<1> PICK R, C, H, Q, B : /\ R = Of(reader.batches) /\ C = Of(batchCh) /\ H = Held
                         /\ Q = Of(resultCh) /\ B = collector.buf
  OBVIOUS
<1>3. InOnePlace(R, C, H, Q, B) /\ Pending = R \cup C \cup H \cup Q \cup B
  BY DEF BulkInv, EachOnce, Pending
<1>4. /\ R = Of(reader.batches)' /\ C = Of(batchCh)' /\ Held' = H \ h
      /\ Q = Of(resultCh)' /\ B = collector'.buf
  BY <1>1, <1>2
<1>5. InOnePlace(R, C, H \ h, Q, B)
  BY <1>3 DEF InOnePlace
<1>6. EachOnce'
  BY <1>1, <1>2, <1>4, <1>5 DEF BulkInv, EachOnce
<1>7. h \in SUBSET Pending /\ Pending' = Pending \ h
  BY <1>2, <1>3, <1>4 DEF Pending, InOnePlace
<1>8. PICK n \in Nat : n = Cardinality(h) /\ n = Bulk!Cardinality(h)
  BY BooksFinite
<1>9. /\ stats' = [stats EXCEPT !.errors = @ + n]
      /\ stats'.embedded = stats.embedded /\ stats'.skipped = stats.skipped
      /\ stats'.errors = stats.errors + n
  BY <1>8, TakenBound DEF Bulk!EmbedFails, Bulk!Count
<1>10. /\ CountedOrPending'
       /\ stats'.embedded \in Bulk!Counts /\ stats'.skipped \in Bulk!Counts
       /\ stats'.errors \in Bulk!Counts
  <2>1. /\ stats'.embedded \in Nat /\ stats'.skipped \in Nat /\ stats'.errors \in Nat
        /\ stats'.embedded + stats'.skipped + stats'.errors =
             stats.embedded + stats.skipped + stats.errors + n
    BY <1>9, TakenBound
  <2>2. UNCHANGED <<taken, queryErrors>> /\ (cancelled => cancelled') /\ n <= Cardinality(h)
    BY <1>1, <1>8
  <2> QED
    BY <1>7, <1>8, <2>1, <2>2, Settles
<1>11. Bulk!TypeOK'
  <2>1. stats' \in [embedded : Bulk!Counts, skipped : Bulk!Counts, errors : Bulk!Counts]
    BY <1>9, <1>10, TakenBound
  <2> QED
    BY <1>1, <1>2, <2>1 DEF BulkInv, Bulk!TypeOK
<1>12. OnPagesRead'
  BY <1>1, <1>7, SamePages
<1>13. NothingLeft'
  BY <1>1, <1>2, OthersLeft
<1> QED
  BY <1>6, <1>10, <1>11, <1>12, <1>13 DEF BulkInv

\* A worker hands its batch to the collector, or drops it in a cancelled run.
LEMMA SendResultStep ==
  ASSUME BulkInv, NEW w \in 1 .. Workers, Bulk!SendResult(w)
  PROVE  BulkInv'
<1>1. /\ worker[w].at = "send"
      /\ UNCHANGED <<opts, reader, collector, embedded, taken, queryErrors, batchCh, stats, cancelled>>
  BY DEF Bulk!SendResult, Bulk!AtWork
<1> PICK h \in SUBSET Bulk!Book : h = worker[w].batch
  BY BulkTypes
<1>2. PICK state \in {"take", "done"} :
        /\ Bulk!Became(w, state, {})
        /\ \/ /\ state = "take" /\ Len(resultCh) < ChanSize
              /\ resultCh' = Append(resultCh, h)
           \/ state = "done" /\ cancelled /\ UNCHANGED resultCh
  BY DEF Bulk!SendResult
<1>3. /\ worker' \in [1 .. Workers -> [at : {"take", "embed", "send", "done"}, batch : SUBSET Bulk!Book]]
      /\ worker'[w].at = state /\ worker'[w].batch = {}
      /\ \A v \in 1 .. Workers : v # w => worker'[v] = worker[v]
      /\ \A v, u \in 1 .. Workers : v # u => worker'[v].batch \cap worker'[u].batch = {}
      /\ h \subseteq Held /\ Held' = (Held \ h) \cup {}
  BY <1>2, WorkerTakes DEF BulkInv
<1> PICK R, C, H, Q, B : /\ R = Of(reader.batches) /\ C = Of(batchCh) /\ H = Held
                         /\ Q = Of(resultCh) /\ B = collector.buf
  OBVIOUS
<1>4. InOnePlace(R, C, H, Q, B) /\ Pending = R \cup C \cup H \cup Q \cup B
  BY DEF BulkInv, EachOnce, Pending
<1>5. /\ R = Of(reader.batches)' /\ C = Of(batchCh)' /\ Held' = H \ h /\ B = collector'.buf
  BY <1>1, <1>3
<1>6. NothingLeft'
  BY <1>1, <1>2, <1>3, OthersLeft
<1>7. CASE state = "take"
  <2>1. h \cap Q = {}
    BY <1>3, <1>4 DEF InOnePlace
  <2>2. /\ resultCh' \in Seq(SUBSET Bulk!Book) /\ Len(resultCh') = Len(resultCh) + 1
        /\ Apart(resultCh') /\ Of(resultCh)' = Q \cup h
    <3>1. resultCh \in Seq(SUBSET Bulk!Book) /\ Apart(resultCh) /\ h \cap Of(resultCh) = {}
      BY <2>1, BulkTypes DEF BulkInv, EachOnce
    <3>2. resultCh' = Append(resultCh, h)
      BY <1>2, <1>7
    <3> QED
      BY <3>1, <3>2, BatchJoins
  <2>3. Bulk!TypeOK'
    BY <1>1, <1>2, <1>3, <1>7, <2>2, BulkTypes, BulkConstants DEF BulkInv, Bulk!TypeOK
  <2>4. InOnePlace(R, C, H \ h, Q \cup h, B)
    BY <1>3, <1>4 DEF InOnePlace
  <2>5. EachOnce'
    BY <1>1, <1>3, <1>5, <2>2, <2>4 DEF BulkInv, EachOnce
  <2>6. Pending' = Pending
    BY <1>3, <1>4, <1>5, <2>2 DEF Pending
  <2>7. CountedOrPending'
    BY <1>1, <2>6, Stays
  <2>8. OnPagesRead'
    BY <1>1, <2>6, SamePages
  <2> QED
    BY <1>6, <2>3, <2>5, <2>7, <2>8 DEF BulkInv
<1>8. CASE state = "done"
  <2>1. cancelled /\ UNCHANGED resultCh
    BY <1>2, <1>8
  <2>2. Bulk!TypeOK'
    BY <1>1, <1>3, <2>1 DEF BulkInv, Bulk!TypeOK
  <2>3. InOnePlace(R, C, H \ h, Q, B)
    BY <1>4 DEF InOnePlace
  <2>4. EachOnce'
    BY <1>1, <1>3, <1>5, <2>1, <2>3 DEF BulkInv, EachOnce
  <2>5. h \in SUBSET Pending /\ Pending' = Pending \ h
    BY <1>3, <1>4, <1>5, <2>1 DEF Pending, InOnePlace
  <2>6. CountedOrPending'
    BY <1>1, <2>1, <2>5, Moves
  <2>7. OnPagesRead'
    BY <1>1, <2>5, SamePages
  <2> QED
    BY <1>6, <2>2, <2>4, <2>6, <2>7 DEF BulkInv
<1> QED
  BY <1>7, <1>8

\* The collector puts a batch into its buffer.
LEMMA CollectStep ==
  ASSUME BulkInv, Bulk!Collect
  PROVE  BulkInv'
<1>1. /\ collector.at = "collect" /\ resultCh # <<>>
      /\ UNCHANGED <<opts, reader, batchCh, worker, embedded, taken, queryErrors, stats, cancelled>>
  BY DEF Bulk!Collect, Bulk!Source
<1> PICK R, C, H, Q, B : /\ R = Of(reader.batches) /\ C = Of(batchCh) /\ H = Held
                         /\ Q = Of(resultCh) /\ B = collector.buf
  OBVIOUS
<1>2. InOnePlace(R, C, H, Q, B) /\ Pending = R \cup C \cup H \cup Q \cup B
  BY DEF BulkInv, EachOnce, Pending
<1>3. PICK h \in SUBSET Bulk!Book, rest \in Seq(SUBSET Bulk!Book) :
        /\ h = Head(resultCh) /\ rest = Tail(resultCh) /\ h \subseteq Q /\ Of(rest) = Q \ h
        /\ Apart(rest) /\ Len(rest) = Len(resultCh) - 1
  BY <1>1, BulkTypes, BatchLeaves DEF BulkInv, EachOnce
<1>4. PICK at \in {"collect", "flush"}, buf \in SUBSET Bulk!Book :
        /\ collector' = [at |-> at, buf |-> buf] /\ buf = B \cup h
  <2>1. PICK at : at = IF Bulk!Cardinality(B \cup h) >= MilvusBatch THEN "flush" ELSE "collect"
    OBVIOUS
  <2>2. collector' = [at |-> at, buf |-> B \cup h]
    BY <1>3, <2>1 DEF Bulk!Collect
  <2>3. B \cup h \in SUBSET Bulk!Book
    BY BulkTypes
  <2> QED
    BY <2>1, <2>2, <2>3
<1>5. /\ collector' \in [at : {"collect", "flush", "final", "done"}, buf : SUBSET Bulk!Book]
      /\ collector'.at = at /\ collector'.buf = B \cup h /\ resultCh' = rest
  BY <1>3, <1>4 DEF Bulk!Collect
<1>6. R = Of(reader.batches)' /\ C = Of(batchCh)' /\ H = Held'
  BY <1>1 DEF Held
<1>7. Bulk!TypeOK'
  BY <1>1, <1>3, <1>5, BulkTypes, BulkConstants DEF BulkInv, Bulk!TypeOK
<1>8. InOnePlace(R, C, H, Q \ h, B \cup h)
  BY <1>2, <1>3 DEF InOnePlace
<1>9. EachOnce'
  BY <1>1, <1>3, <1>5, <1>6, <1>8 DEF BulkInv, EachOnce
<1>10. Pending' = Pending
  BY <1>2, <1>3, <1>5, <1>6 DEF Pending
<1>11. CountedOrPending'
  BY <1>1, <1>10, Stays
<1>12. OnPagesRead'
  BY <1>1, <1>10, SamePages
<1>13. NothingLeft'
  BY <1>1, <1>4, <1>5 DEF BulkInv, NothingLeft
<1> QED
  BY <1>7, <1>9, <1>11, <1>12, <1>13 DEF BulkInv

\* The results end once the workers are done.
LEMMA ResultsEndStep ==
  ASSUME BulkInv, Bulk!ResultsEnd
  PROVE  BulkInv'
<1>1. /\ resultCh = <<>> /\ Bulk!AllDone
      /\ UNCHANGED <<opts, reader, batchCh, worker, embedded, taken, queryErrors, resultCh, stats, cancelled>>
  BY DEF Bulk!ResultsEnd, Bulk!Source
<1>2. /\ collector' \in [at : {"collect", "flush", "final", "done"}, buf : SUBSET Bulk!Book]
      /\ collector'.buf = collector.buf /\ collector'.at \in {"final", "done"}
      /\ collector'.at = "done" => collector.buf = {}
  BY BulkTypes DEF Bulk!ResultsEnd
<1>3. Bulk!TypeOK'
  BY <1>1, <1>2 DEF BulkInv, Bulk!TypeOK
<1>4. EachOnce' /\ Pending' = Pending
  BY <1>1, <1>2 DEF BulkInv, EachOnce, Pending, Held
<1>5. CountedOrPending'
  BY <1>1, <1>4, Stays
<1>6. OnPagesRead'
  BY <1>1, <1>4, SamePages
<1>7. NothingLeft'
  BY <1>1, <1>2 DEF BulkInv, NothingLeft, Bulk!AllDone
<1> QED
  BY <1>3, <1>4, <1>5, <1>6, <1>7 DEF BulkInv

\* The buffer is written, or the write fails; its books are counted either way.
LEMMA FlushStep ==
  ASSUME BulkInv, Bulk!FlushMilvusBatch \/ Bulk!FlushFails
  PROVE  BulkInv'
<1>1. /\ collector.at \in {"flush", "final"} /\ Bulk!Flushed
      /\ UNCHANGED <<opts, reader, batchCh, worker, taken, queryErrors, resultCh>>
      /\ (cancelled => cancelled') /\ cancelled' \in BOOLEAN
      /\ embedded' \subseteq Bulk!Book
  BY BulkTypes DEF Bulk!FlushMilvusBatch, Bulk!FlushFails, Bulk!Source, Bulk!Count, BulkInv, Bulk!TypeOK
<1> PICK R, C, H, Q, B : /\ R = Of(reader.batches) /\ C = Of(batchCh) /\ H = Held
                         /\ Q = Of(resultCh) /\ B = collector.buf
  OBVIOUS
<1>2. InOnePlace(R, C, H, Q, B) /\ Pending = R \cup C \cup H \cup Q \cup B
  BY DEF BulkInv, EachOnce, Pending
<1>3. /\ collector' \in [at : {"collect", "flush", "final", "done"}, buf : SUBSET Bulk!Book]
      /\ collector'.buf = {}
      /\ (collector'.at = "done" /\ collector.at = "final") \/ collector'.at = "collect"
  BY <1>1 DEF Bulk!Flushed
<1>4. R = Of(reader.batches)' /\ C = Of(batchCh)' /\ H = Held' /\ Q = Of(resultCh)'
  BY <1>1 DEF Held
<1>5. InOnePlace(R, C, H, Q, {})
  BY <1>2 DEF InOnePlace
<1>6. EachOnce'
  BY <1>1, <1>3, <1>4, <1>5 DEF BulkInv, EachOnce
<1>7. B \in SUBSET Pending /\ Pending' = Pending \ B
  BY <1>2, <1>3, <1>4 DEF Pending, InOnePlace
<1>8. PICK n \in Nat : n = Cardinality(B) /\ n = Bulk!Cardinality(B)
  BY BulkTypes, BooksFinite
<1>9. /\ stats' \in [embedded : Nat, skipped : Nat, errors : Nat]
      /\ stats'.embedded + stats'.skipped + stats'.errors =
           stats.embedded + stats.skipped + stats.errors + n
  <2>1. CASE Bulk!FlushMilvusBatch
    <3>1. stats' = [stats EXCEPT !.embedded = @ + n]
      BY <1>8, <2>1 DEF Bulk!FlushMilvusBatch
    <3> QED
      BY <3>1, TakenBound DEF Bulk!Counts
  <2>2. CASE Bulk!FlushFails
    <3>1. stats' = [stats EXCEPT !.errors = @ + n]
      BY <1>8, <2>2 DEF Bulk!FlushFails, Bulk!Count
    <3> QED
      BY <3>1, TakenBound DEF Bulk!Counts
  <2> QED
    BY <2>1, <2>2
<1>10. /\ CountedOrPending'
       /\ stats'.embedded \in Bulk!Counts /\ stats'.skipped \in Bulk!Counts
       /\ stats'.errors \in Bulk!Counts
  <2>1. stats'.embedded \in Nat /\ stats'.skipped \in Nat /\ stats'.errors \in Nat
    BY <1>9
  <2>2. UNCHANGED <<taken, queryErrors>> /\ (cancelled => cancelled') /\ n <= Cardinality(B)
    BY <1>1, <1>8
  <2> QED
    BY <1>7, <1>8, <1>9, <2>1, <2>2, Settles
<1>11. stats' \in [embedded : Bulk!Counts, skipped : Bulk!Counts, errors : Bulk!Counts]
  BY <1>9, <1>10
<1>12. Bulk!TypeOK'
  BY <1>1, <1>3, <1>11 DEF BulkInv, Bulk!TypeOK
<1>13. OnPagesRead'
  BY <1>1, <1>7, SamePages
<1>14. NothingLeft'
  BY <1>1, <1>3 DEF BulkInv, NothingLeft, Bulk!AllDone
<1> QED
  BY <1>6, <1>10, <1>12, <1>13, <1>14 DEF BulkInv

\* The caller cancels the run.
LEMMA CallerCancelsStep ==
  ASSUME BulkInv, Bulk!CallerCancels
  PROVE  BulkInv'
<1>1. /\ cancelled'
      /\ UNCHANGED <<opts, reader, batchCh, resultCh, worker, collector, stats, embedded, taken, queryErrors>>
  BY DEF Bulk!CallerCancels
<1>2. Bulk!TypeOK'
  BY <1>1 DEF BulkInv, Bulk!TypeOK, Bulk!CallerCancels
<1>3. EachOnce' /\ Pending' = Pending
  BY <1>1 DEF BulkInv, EachOnce, Pending, Held
<1>4. CountedOrPending'
  BY <1>1, <1>3, Stays
<1>5. OnPagesRead'
  BY <1>1, <1>3, SamePages
<1>6. NothingLeft'
  BY <1>1 DEF BulkInv, NothingLeft, Bulk!AllDone
<1> QED
  BY <1>2, <1>3, <1>4, <1>5, <1>6 DEF BulkInv

\* Multiples are in order; division leaves a remainder.
LEMMA Multiples ==
  ASSUME NEW m \in Nat, m >= 1
  PROVE  /\ \A a, b \in Nat : a <= b => a * m <= b * m
         /\ \A a \in Nat : a * m \in Nat /\ (a + 1) * m = a * m + m
<1>1. ASSUME NEW a \in Nat, NEW b \in Nat, a <= b PROVE a * m <= b * m
  <2>1. PICK d \in Nat : b = a + d
    BY <1>1
  <2>2. (a + d) * m = a * m + d * m /\ d * m \in Nat /\ a * m \in Nat
    BY Z3
  <2> QED
    BY <2>1, <2>2
<1>2. ASSUME NEW a \in Nat PROVE a * m \in Nat /\ (a + 1) * m = a * m + m
  BY Z3
<1> QED
  BY <1>1, <1>2

LEMMA Divided ==
  ASSUME NEW a \in Nat, NEW m \in Nat, m >= 1
  PROVE  /\ a \div m \in Nat
         /\ \E t \in 0 .. m - 1 : a = (a \div m) * m + t
<1>1. a \div m \in Nat
  BY Z3
<1>2. a % m \in 0 .. m - 1
  BY Z3
<1>3. a = (a \div m) * m + (a % m)
  BY Z3
<1> QED
  BY <1>1, <1>2, <1>3

\* Each of n ranks falls into one of k batches.
Covers(k, n) ==
  /\ k \in Nat
  /\ \A r \in 1 .. n : \E i \in 1 .. k : (i - 1) * BatchSize < r /\ r <= i * BatchSize
  /\ \A r \in 1 .. n : \A i, j \in 1 .. k :
       (i - 1) * BatchSize < r /\ r <= i * BatchSize /\
       (j - 1) * BatchSize < r /\ r <= j * BatchSize => i = j

LEMMA RanksInBatches ==
  ASSUME NEW n \in Nat
  PROVE  Covers((n + BatchSize - 1) \div BatchSize, n)
<1>0. PICK k : k = (n + BatchSize - 1) \div BatchSize
  OBVIOUS
<1>1. PICK m \in Nat : m = BatchSize /\ m >= 1
  BY BulkConstants
<1>2. PICK x \in Nat : x = n + m - 1
  BY <1>1
<1>3. k \in Nat /\ \E t \in 0 .. m - 1 : x = k * m + t
  <2>1. k = x \div m
    BY <1>0, <1>1, <1>2
  <2>2. x \div m \in Nat /\ \E t \in 0 .. m - 1 : x = (x \div m) * m + t
    BY <1>1, Divided
  <2> QED
    BY <2>1, <2>2
<1>4. ASSUME NEW r \in 1 .. n PROVE \E i \in 1 .. k : (i - 1) * m < r /\ r <= i * m
  <2>1. PICK y \in Nat : y = r - 1
    OBVIOUS
  <2>2. PICK q \in Nat : \E t \in 0 .. m - 1 : y = q * m + t
    <3>1. PICK q : q = y \div m
      OBVIOUS
    <3>2. y \div m \in Nat /\ \E t \in 0 .. m - 1 : y = (y \div m) * m + t
      BY <1>1, Divided
    <3> QED
      BY <3>1, <3>2
  <2>3. PICK t \in 0 .. m - 1 : r - 1 = q * m + t
    BY <2>1, <2>2
  <2>4. PICK u \in 0 .. m - 1 : n + m - 1 = k * m + u
    BY <1>2, <1>3
  <2>5. q * m \in Nat /\ k * m \in Nat /\ (q + 1) * m = q * m + m
    BY <1>1, <1>3, Multiples
  <2>6. ~(k <= q)
    <3> SUFFICES ASSUME k <= q PROVE FALSE
      OBVIOUS
    <3>1. k * m <= q * m
      BY <1>1, <1>3, Multiples
    <3> QED
      BY <1>1, <2>3, <2>4, <2>5, <3>1
  <2>7. PICK i \in 1 .. k : i = q + 1 /\ i - 1 = q
    BY <1>3, <2>6
  <2>8. q * m < r /\ r <= (q + 1) * m
    BY <1>1, <2>3, <2>5
  <2> QED
    BY <2>7, <2>8
<1>5. ASSUME NEW r \in 1 .. n, NEW i \in 1 .. k, NEW j \in 1 .. k, i < j,
             r <= i * m, (j - 1) * m < r
      PROVE  FALSE
  <2>1. PICK a, b \in Nat : a = i /\ b = j - 1 /\ a <= b
    BY <1>3, <1>5
  <2>2. a * m <= b * m /\ a * m \in Nat /\ b * m \in Nat
    BY <1>1, <2>1, Multiples
  <2> QED
    BY <1>5, <2>1, <2>2
<1>6. ASSUME NEW r \in 1 .. n, NEW i \in 1 .. k, NEW j \in 1 .. k,
             (i - 1) * m < r, r <= i * m, (j - 1) * m < r, r <= j * m
      PROVE  i = j
  <2>1. i \in Nat /\ j \in Nat
    BY <1>3
  <2> QED
    BY <1>5, <1>6, <2>1
<1>7. Covers(k, n)
  BY <1>1, <1>3, <1>4, <1>6 DEF Covers
<1> QED
  BY <1>0, <1>7

\* The batches of a set of books hold each of them once, and no other.
LEMMA BatchesOf ==
  ASSUME NEW S \in SUBSET Bulk!Book
  PROVE  /\ Bulk!Batches(S) \in Seq(SUBSET Bulk!Book)
         /\ Apart(Bulk!Batches(S)) /\ Of(Bulk!Batches(S)) = S
<1> PICK n \in Nat : n = Cardinality(S) /\ n = Bulk!Cardinality(S)
  BY BooksFinite
<1>0. PICK k : k = (n + BatchSize - 1) \div BatchSize
  OBVIOUS
<1>1. ASSUME NEW b \in S PROVE Bulk!Rank(b, S) \in 1 .. n
  <2> PICK T \in SUBSET S : T = {d \in S : d <= b}
    OBVIOUS
  <2>1. b \in T
    BY BulkConstants DEF Bulk!Book
  <2>2. /\ IsFiniteSet(T) /\ Cardinality(T) \in Nat /\ Cardinality(T) <= n
        /\ Bulk!Cardinality(T) = Cardinality(T)
    BY BooksFinite, TakenOut
  <2>3. Cardinality(T) # 0
    BY <2>1, <2>2, FS_EmptySet
  <2>4. Bulk!Rank(b, S) = Cardinality(T)
    BY <2>2 DEF Bulk!Rank
  <2> QED
    BY <2>2, <2>3, <2>4
<1>2. /\ k \in Nat
      /\ \A r \in 1 .. n : \E i \in 1 .. k : (i - 1) * BatchSize < r /\ r <= i * BatchSize
      /\ \A r \in 1 .. n : \A i, j \in 1 .. k :
           (i - 1) * BatchSize < r /\ r <= i * BatchSize /\
           (j - 1) * BatchSize < r /\ r <= j * BatchSize => i = j
  <2>1. Covers((n + BatchSize - 1) \div BatchSize, n)
    BY RanksInBatches
  <2>2. Covers(k, n)
    BY <1>0, <2>1
  <2> QED
    BY <2>2 DEF Covers
<1>3. PICK s : s = Bulk!Batches(S)
  OBVIOUS
<1>4. s = [i \in 1 .. k |-> {b \in S : (i - 1) * BatchSize < Bulk!Rank(b, S) /\ Bulk!Rank(b, S) <= i * BatchSize}]
  BY <1>0, <1>3 DEF Bulk!Batches
<1>5. /\ DOMAIN s = 1 .. k
      /\ \A i \in 1 .. k : \A b : b \in s[i] <=>
           b \in S /\ (i - 1) * BatchSize < Bulk!Rank(b, S) /\ Bulk!Rank(b, S) <= i * BatchSize
  BY <1>4
<1>6. s \in [1 .. k -> SUBSET Bulk!Book]
  BY <1>4
<1>7. s \in Seq(SUBSET Bulk!Book)
  BY <1>2, <1>6
<1>8. Apart(s)
  <2> SUFFICES ASSUME NEW i \in 1 .. k, NEW j \in 1 .. k, i # j, NEW b, b \in s[i], b \in s[j]
               PROVE  FALSE
    BY <1>5 DEF Apart
  <2>1. PICK r \in 1 .. n : r = Bulk!Rank(b, S)
    BY <1>1, <1>5
  <2>2. (i - 1) * BatchSize < r /\ r <= i * BatchSize /\ (j - 1) * BatchSize < r /\ r <= j * BatchSize
    BY <1>5, <2>1
  <2> QED
    BY <1>2, <2>2
<1>9. Of(s) = S
  <2>1. ASSUME NEW b, b \in Of(s) PROVE b \in S
    <3>1. PICK i \in 1 .. k : b \in s[i]
      BY <1>5, <2>1 DEF Of
    <3> QED
      BY <1>5, <3>1
  <2>2. ASSUME NEW b \in S PROVE b \in Of(s)
    <3>1. PICK r \in 1 .. n : r = Bulk!Rank(b, S)
      BY <1>1
    <3>2. PICK i \in 1 .. k : (i - 1) * BatchSize < r /\ r <= i * BatchSize
      BY <1>2
    <3>3. b \in s[i]
      BY <1>5, <3>1, <3>2
    <3> QED
      BY <1>5, <3>3 DEF Of
  <2> QED
    BY <2>1, <2>2
<1> QED
  BY <1>3, <1>7, <1>8, <1>9

\* A page is taken: the books skipped are counted, the others are on their way.
LEMMA TakePageStep ==
  ASSUME BulkInv, reader.at = "read", NEW existing, NEW failed \in {0, 1},
         Bulk!TakePage(existing, failed),
         UNCHANGED <<opts, batchCh, resultCh, worker, collector, cancelled, embedded>>
  PROVE  BulkInv'
<1>1. PICK onPage, skipped, wanted, some :
        /\ onPage \in SUBSET Bulk!Book /\ skipped \in SUBSET onPage
        /\ wanted \in SUBSET onPage /\ some \in SUBSET onPage
        /\ onPage = Bulk!Page(reader.page) /\ onPage # {}
        /\ skipped = (IF opts.force THEN {} ELSE onPage \cap existing)
        /\ wanted = onPage \ skipped /\ some = Bulk!Allowed(wanted)
        /\ stats' = [stats EXCEPT !.skipped = @ + Bulk!Cardinality(skipped), !.errors = @ + failed]
        /\ queryErrors' = queryErrors + failed
        /\ taken' = taken + Bulk!Cardinality(skipped) + Bulk!Cardinality(some)
        /\ reader' = IF Bulk!OverLimit(Bulk!Cardinality(wanted)) /\ some = {}
                     THEN [reader EXCEPT !.at = "done"]
                     ELSE [reader EXCEPT !.at = "send", !.batches = Bulk!Batches(some),
                                         !.last = Bulk!Cardinality(onPage) < PageSize]
  <2>1. PICK onPage : onPage = Bulk!Page(reader.page)
    OBVIOUS
  <2>2. PICK skipped : skipped = (IF opts.force THEN {} ELSE onPage \cap existing)
    OBVIOUS
  <2>3. PICK wanted : wanted = onPage \ skipped
    OBVIOUS
  <2>4. PICK some : some = Bulk!Allowed(wanted)
    OBVIOUS
  <2>5. /\ onPage \in SUBSET Bulk!Book /\ skipped \in SUBSET onPage
        /\ wanted \in SUBSET onPage /\ some \in SUBSET onPage
    BY <2>1, <2>2, <2>3, <2>4 DEF Bulk!Page, Bulk!Allowed, Bulk!First
  <2> QED
    BY <2>1, <2>2, <2>3, <2>4, <2>5 DEF Bulk!TakePage
<1>2. some \in SUBSET Bulk!Book /\ some \subseteq onPage /\ some \cap skipped = {}
  BY <1>1 DEF Bulk!Allowed, Bulk!First
<1>3. PICK p \in Nat : p = reader.page /\ p >= 1 /\ p <= Total + 1
  BY TakenBound
<1>4. PICK a \in Nat, z \in Nat : /\ a = (p - 1) * PageSize /\ z = p * PageSize
                                  /\ z = a + PageSize /\ a >= p - 1
  BY <1>3, PageEnds
<1>5. \A b : b \in onPage <=> b \in Bulk!Book /\ a < b /\ b <= z
  BY <1>1, <1>3, <1>4 DEF Bulk!Page
<1>6. p <= Total
  <2>1. PICK b : b \in onPage
    BY <1>1
  <2>2. b \in Nat /\ b <= Total /\ a < b /\ Total \in Nat
    BY <1>5, <2>1, BulkConstants DEF Bulk!Book
  <2> QED
    BY <1>3, <1>4, <2>2
<1>7. PICK r, s \in Nat : r = Cardinality(skipped) /\ r = Bulk!Cardinality(skipped)
                          /\ s = Cardinality(some) /\ s = Bulk!Cardinality(some)
  BY <1>1, <1>2, BooksFinite
<1>8. /\ stats' = [stats EXCEPT !.skipped = @ + r, !.errors = @ + failed]
      /\ taken' = taken + r + s
  BY <1>1, <1>7
<1>9. /\ stats'.embedded = stats.embedded /\ stats'.skipped = stats.skipped + r
      /\ stats'.errors = stats.errors + failed
      /\ stats' \in [embedded : Nat, skipped : Nat, errors : Nat]
  <2>1. PICK e, k, x \in Nat : e = stats.embedded /\ k = stats.skipped /\ x = stats.errors
    BY TakenBound
  <2>2. stats' = [embedded |-> e, skipped |-> k + r, errors |-> x + failed]
    BY <1>8, <2>1, TakenBound
  <2> QED
    BY <2>1, <2>2
<1>10. PICK batches \in Seq(SUBSET Bulk!Book) :
         /\ reader' \in Bulk!ReaderStates /\ reader'.page = p /\ reader'.batches = batches
         /\ Apart(batches) /\ Of(batches) = some
         /\ \/ reader'.at = "done" /\ batches = <<>>
            \/ reader'.at = "send"
  <2>1. CASE Bulk!OverLimit(Bulk!Cardinality(wanted)) /\ some = {}
    <3>1. reader' = [reader EXCEPT !.at = "done"]
      BY <1>1, <2>1
    <3>2. reader.batches = <<>>
      BY DEF BulkInv, NothingLeft
    <3>3. /\ reader' \in Bulk!ReaderStates /\ reader'.page = p /\ reader'.batches = <<>>
          /\ reader'.at = "done"
      BY <1>3, <3>1, <3>2, BulkTypes DEF Bulk!ReaderStates
    <3>4. <<>> \in Seq(SUBSET Bulk!Book)
      OBVIOUS
    <3> QED
      BY <2>1, <3>3, <3>4, NoBatches
  <2>2. CASE ~(Bulk!OverLimit(Bulk!Cardinality(wanted)) /\ some = {})
    <3>1. PICK batches : batches = Bulk!Batches(some)
      OBVIOUS
    <3>2. batches \in Seq(SUBSET Bulk!Book) /\ Apart(batches) /\ Of(batches) = some
      BY <1>2, <3>1, BatchesOf
    <3>3. PICK last \in BOOLEAN : last = (Bulk!Cardinality(onPage) < PageSize)
      <4>1. PICK n, m \in Nat : n = Bulk!Cardinality(onPage) /\ m = PageSize
        BY <1>1, BooksFinite, BulkConstants
      <4>2. (n < m) \in BOOLEAN
        OBVIOUS
      <4> QED
        BY <4>1, <4>2
    <3>4. reader' = [reader EXCEPT !.at = "send", !.batches = batches, !.last = last]
      BY <1>1, <2>2, <3>1, <3>3
    <3>5. /\ reader' \in Bulk!ReaderStates /\ reader'.page = p /\ reader'.batches = batches
          /\ reader'.at = "send"
      BY <1>3, <3>2, <3>4, BulkTypes DEF Bulk!ReaderStates
    <3> QED
      BY <3>2, <3>5
  <2> QED
    BY <2>1, <2>2
<1> PICK R, C, H, Q, B : /\ R = Of(reader.batches) /\ C = Of(batchCh) /\ H = Held
                         /\ Q = Of(resultCh) /\ B = collector.buf
  OBVIOUS
<1>11. InOnePlace(R, C, H, Q, B) /\ Pending = R \cup C \cup H \cup Q \cup B
  BY DEF BulkInv, EachOnce, Pending
<1>12. R = {}
  BY NoBatches DEF BulkInv, NothingLeft
<1>13. /\ Of(reader.batches)' = some /\ C = Of(batchCh)' /\ H = Held'
       /\ Q = Of(resultCh)' /\ B = collector'.buf
  BY <1>10 DEF Held
<1>14. /\ Boundary = a /\ Boundary' = z
  BY <1>3, <1>4, <1>10 DEF Boundary
<1>15. /\ PagesRead \in SUBSET Bulk!Book /\ PagesRead \cap onPage = {}
       /\ PagesRead' = PagesRead \cup onPage
  <2>1. \A b \in Bulk!Book : b \in Nat
    BY BulkConstants DEF Bulk!Book
  <2>2. PageSize \in Nat
    BY BulkConstants
  <2> QED
    BY <1>4, <1>5, <1>14, <2>1, <2>2 DEF PagesRead
<1>16. Pending \cap some = {} /\ Pending' = Pending \cup some /\ Pending' \subseteq PagesRead'
  BY <1>2, <1>11, <1>12, <1>13, <1>15 DEF Pending, BulkInv, OnPagesRead
<1>17. EachOnce'
  <2>1. InOnePlace(some, C, H, Q, B)
    BY <1>11, <1>12, <1>16 DEF InOnePlace
  <2> QED
    BY <1>10, <1>13, <2>1 DEF BulkInv, EachOnce
<1>18. Cardinality(Pending') = Cardinality(Pending) + s
  BY <1>2, <1>7, <1>16, TakenBound, PutIn
<1>19. taken' <= Cardinality(PagesRead') /\ Cardinality(PagesRead') <= Total
  <2>1. Cardinality(skipped \cup some) = r + s
    <3>1. skipped \in SUBSET Bulk!Book /\ some \in SUBSET Bulk!Book /\ skipped \cap some = {}
      BY <1>1, <1>2
    <3> QED
      BY <1>7, <3>1, PutIn
  <2>2. Cardinality(skipped \cup some) <= Cardinality(onPage)
    BY <1>1, <1>2, TakenOut
  <2>3. Cardinality(PagesRead') = Cardinality(PagesRead) + Cardinality(onPage)
    BY <1>1, <1>15, PutIn
  <2>4. taken <= Cardinality(PagesRead)
    BY DEF BulkInv, OnPagesRead
  <2>5. /\ Cardinality(PagesRead) \in Nat /\ Cardinality(onPage) \in Nat
        /\ Cardinality(PagesRead') <= Total
    BY <1>1, <1>15, BooksFinite
  <2> QED
    BY <1>8, <2>1, <2>2, <2>3, <2>4, <2>5, TakenBound, SMTT(30)
<1>20. queryErrors' <= p
  BY <1>1, <1>3, TakenBound DEF BulkInv, OnPagesRead
<1>21. OnPagesRead'
  BY <1>6, <1>10, <1>16, <1>19, <1>20 DEF OnPagesRead
<1>22. CountedOrPending' /\ stats'.embedded + stats'.skipped + stats'.errors <= 2 * Total + 1
  <2>1. /\ Settled \in Nat /\ Settled' = Settled + r + s + failed
        /\ Settled' >= stats'.embedded + stats'.skipped + stats'.errors
    <3>1. PICK e, k, x, c \in Nat : /\ e = stats.embedded /\ k = stats.skipped /\ x = stats.errors
                                    /\ c = Cardinality(Pending)
      BY TakenBound
    <3>2. Settled = e + k + x + c
      BY <3>1 DEF Settled
    <3>3. Settled' = e + (k + r) + (x + failed) + (c + s)
      BY <1>9, <1>18, <3>1 DEF Settled
    <3>4. stats'.embedded + stats'.skipped + stats'.errors = e + (k + r) + (x + failed)
      BY <1>9, <3>1
    <3> QED
      BY <3>2, <3>3, <3>4
  <2>2. /\ Settled <= taken + queryErrors
        /\ ~cancelled => Settled = taken + queryErrors
    BY DEF BulkInv, CountedOrPending
  <2>3. taken' + queryErrors' = taken + queryErrors + r + s + failed
    BY <1>1, <1>8, TakenBound, SMTT(30)
  <2>4. CountedOrPending'
    BY <2>1, <2>2, <2>3, TakenBound, SMTT(30) DEF CountedOrPending
  <2>5. taken' + queryErrors' <= 2 * Total + 1
    <3>1. /\ taken' \in Nat /\ queryErrors' \in Nat /\ Total \in Nat
          /\ Cardinality(PagesRead') \in Nat
      BY <1>1, <1>8, <1>15, TakenBound, BooksFinite, SMTT(30)
    <3>2. PICK t, q, c, d \in Nat : t = taken' /\ q = queryErrors' /\ c = Cardinality(PagesRead') /\ d = Total
      BY <3>1
    <3>3. t <= c /\ c <= d /\ q <= p /\ p <= d
      BY <1>6, <1>19, <1>20, <3>2
    <3>4. t + q <= 2 * d + 1
      BY <3>3
    <3> QED
      BY <3>2, <3>4
  <2>6. Settled' <= taken' + queryErrors'
    BY <2>4 DEF CountedOrPending
  <2> QED
    <3>1. PICK n, m, t, d \in Nat :
            /\ n = Settled' /\ m = stats'.embedded + stats'.skipped + stats'.errors
            /\ t = taken' + queryErrors' /\ d = Total
      <4>1. failed \in Nat
        OBVIOUS
      <4>2. Settled' \in Nat
        BY <2>1, <4>1
      <4>3. taken' \in Nat
        BY <1>8, TakenBound
      <4>4. queryErrors' \in Nat /\ Total \in Nat
        BY <1>1, <4>1, TakenBound
      <4>5. stats'.embedded + stats'.skipped + stats'.errors \in Nat
        BY <1>9
      <4>6. taken' + queryErrors' \in Nat
        <5>1. PICK u, v \in Nat : u = taken' /\ v = queryErrors'
          BY <4>3, <4>4
        <5>2. u + v \in Nat
          OBVIOUS
        <5> QED
          BY <5>1, <5>2
      <4> QED
        BY <4>2, <4>4, <4>5, <4>6, Zenon
    <3>2. m <= n /\ n <= t /\ t <= 2 * d + 1
      BY <2>1, <2>5, <2>6, <3>1
    <3>3. m <= 2 * d + 1
      BY <3>2
    <3> QED
      BY <2>4, <3>1, <3>3
<1>23. Bulk!TypeOK'
  <2>1. stats' \in [embedded : Bulk!Counts, skipped : Bulk!Counts, errors : Bulk!Counts]
    <3>1. PICK e, k, x \in Nat : /\ stats' = [embedded |-> e, skipped |-> k, errors |-> x]
                                 /\ e + k + x <= 2 * Total + 1
      BY <1>9, <1>22
    <3> QED
      BY <3>1, TakenBound, SMTT(30) DEF Bulk!Counts
  <2>2. taken' \in Nat /\ queryErrors' \in Nat
    BY <1>1, <1>8, TakenBound, SMTT(30)
  <2>3. taken' <= Total
    <3>1. Cardinality(PagesRead') \in Nat
      BY <1>1, <1>15, BooksFinite
    <3> QED
      BY <1>19, <2>2, <3>1, TakenBound
  <2>4. taken' \in Bulk!Counts /\ queryErrors' \in Bulk!Counts
    BY <1>3, <1>20, <2>2, <2>3, TakenBound, SMTT(30) DEF Bulk!Counts
  <2> QED
    BY <1>10, <2>1, <2>4 DEF BulkInv, Bulk!TypeOK
<1>24. NothingLeft'
  BY <1>10 DEF BulkInv, NothingLeft, Bulk!AllDone
<1> QED
  BY <1>17, <1>21, <1>22, <1>23, <1>24 DEF BulkInv

LEMMA BulkInit == AllInit => BulkInv
<1> SUFFICES ASSUME AllInit PROVE BulkInv
  OBVIOUS
<1>1. Bulk!Init
  BY DEF AllInit
<1>2. /\ reader = [at |-> "read", page |-> 1, attempt |-> 1, last |-> FALSE, batches |-> <<>>]
      /\ batchCh = <<>> /\ resultCh = <<>> /\ collector = [at |-> "collect", buf |-> {}]
      /\ worker = [w \in 1 .. Workers |-> [at |-> "take", batch |-> {}]]
      /\ stats = [embedded |-> 0, skipped |-> 0, errors |-> 0]
      /\ taken = 0 /\ queryErrors = 0 /\ cancelled = FALSE
  BY <1>1 DEF Bulk!Init
<1>3. Held = {} /\ Pending = {}
  BY <1>2, NoBatches DEF Held, Pending
<1>4. Bulk!TypeOK
  <2>1. <<>> \in Seq(SUBSET Bulk!Book) /\ Len(<<>>) = 0
    OBVIOUS
  <2>2. reader \in Bulk!ReaderStates
    BY <1>2, <2>1, BulkConstants DEF Bulk!ReaderStates
  <2>3. 0 \in Bulk!Counts
    BY BulkConstants DEF Bulk!Counts
  <2> QED
    <3>1. opts \in [force : BOOLEAN, limit : Limits] /\ embedded \subseteq Bulk!Book
      BY <1>1, BulkConstants DEF Bulk!Init, Bulk!Book
    <3>2. Len(batchCh) <= ChanSize /\ Len(resultCh) <= ChanSize
      BY <1>2, <2>1, BulkConstants
    <3>3. worker \in [1 .. Workers -> [at : {"take", "embed", "send", "done"}, batch : SUBSET Bulk!Book]]
      BY <1>2
    <3>4. stats \in [embedded : Bulk!Counts, skipped : Bulk!Counts, errors : Bulk!Counts]
      BY <1>2, <2>3
    <3>5. collector \in [at : {"collect", "flush", "final", "done"}, buf : SUBSET Bulk!Book]
      BY <1>2
    <3> QED
      BY <1>2, <2>1, <2>2, <2>3, <3>1, <3>2, <3>3, <3>4, <3>5 DEF Bulk!TypeOK
<1>5. EachOnce
  BY <1>2, <1>3, NoBatches DEF EachOnce, InOnePlace
<1>6. OnPagesRead
  <2>1. PagesRead \in SUBSET Bulk!Book
    BY DEF PagesRead
  <2>2. Cardinality(PagesRead) \in Nat
    BY <2>1, BooksFinite
  <2> QED
    BY <1>2, <1>3, <2>2 DEF OnPagesRead
<1>7. CountedOrPending
  BY <1>2, <1>3, FS_EmptySet DEF CountedOrPending, Settled
<1>8. NothingLeft
  BY <1>2 DEF NothingLeft
<1> QED
  BY <1>4, <1>5, <1>6, <1>7, <1>8 DEF BulkInv

LEMMA BulkNext == BulkInv /\ [AllNext]_allVars => BulkInv'
<1> SUFFICES ASSUME BulkInv, [AllNext]_allVars PROVE BulkInv'
  OBVIOUS
<1>1. CASE UNCHANGED backfillVars
  BY <1>1 DEF backfillVars, BulkInv, Bulk!TypeOK, EachOnce, Pending, Held, OnPagesRead, PagesRead,
              Boundary, CountedOrPending, Settled, NothingLeft, Bulk!AllDone
<1>2. CASE Bulk!Reader
  <2>1. CASE Bulk!SearchBooks \/ Bulk!HasEmbeddingsFails
    BY <2>1, TakePageStep DEF Bulk!SearchBooks, Bulk!HasEmbeddingsFails, Bulk!Reading, Bulk!Others
  <2>2. CASE Bulk!SearchFails \/ Bulk!NoMoreBooks \/ Bulk!NextPage \/ Bulk!ReaderStops
    BY <2>2, ReaderTurns DEF Bulk!SearchFails, Bulk!NoMoreBooks, Bulk!NextPage, Bulk!ReaderStops, Bulk!Others
  <2> QED
    BY <1>2, <2>1, <2>2, SendBatchStep DEF Bulk!Reader
<1>3. ASSUME NEW w \in 1 .. Workers, Bulk!Worker(w) PROVE BulkInv'
  BY <1>3, TakeBatchStep, EmbedTextsStep, EmbedFailsStep, SendResultStep DEF Bulk!Worker
<1>4. CASE Bulk!Collector
  BY <1>4, CollectStep, ResultsEndStep, FlushStep DEF Bulk!Collector
<1> QED
  BY <1>1, <1>2, <1>3, <1>4, CallerCancelsStep DEF AllNext, allVars, Bulk!Next

LEMMA BulkInvariant == AllSpec => []BulkInv
BY BulkInit, BulkNext, PTL DEF AllSpec

\* However many books, workers and errors there are and whoever cancels when:
\* no book is counted twice, and a run that neither its caller nor MaxErrors
\* errors cancelled has counted each book it took as embedded, as skipped or as
\* an error, and each failed query.
THEOREM NoBookForgotten == AllSpec => []EveryBookCounted
<1>1. BulkInv => EveryBookCounted
  <2> SUFFICES ASSUME BulkInv PROVE Bulk!EveryBookCounted
    BY DEF EveryBookCounted
  <2>1. PICK n \in Nat : n = stats.embedded + stats.skipped + stats.errors
    BY TakenBound
  <2>2. /\ n + Cardinality(Pending) <= taken + queryErrors
        /\ ~cancelled => n + Cardinality(Pending) = taken + queryErrors
    BY <2>1 DEF BulkInv, CountedOrPending, Settled
  <2>3. ASSUME Bulk!Ended, ~cancelled PROVE Pending = {}
    <3>1. \A w \in 1 .. Workers : worker[w].at = "done" /\ worker[w].batch = {}
      BY <2>3 DEF Bulk!Ended, Bulk!AllDone, BulkInv, NothingLeft
    <3>2. 1 \in 1 .. Workers
      BY BulkConstants
    <3>3. /\ batchCh = <<>> /\ reader.batches = <<>> /\ resultCh = <<>> /\ collector.buf = {}
      BY <2>3, <3>1, <3>2 DEF Bulk!Ended, BulkInv, NothingLeft
    <3> QED
      BY <3>1, <3>3, NoBatches DEF Pending, Held
  <2>4. Pending = {} => Cardinality(Pending) = 0
    BY FS_EmptySet
  <2> QED
    BY <2>1, <2>2, <2>3, <2>4, TakenBound DEF Bulk!EveryBookCounted
<1> QED
  BY BulkInvariant, <1>1, PTL
=============================================================================
