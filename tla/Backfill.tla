------------------------------ MODULE Backfill ------------------------------
(***************************************************************************)
(* EmbedAllBooks: the pipeline that gives every book a vector.  A reader   *)
(* pages through the books and sends batches, workers embed the batches,   *)
(* and the caller's goroutine collects the results and writes them in      *)
(* bulk.  Too many errors, or the caller's context, cancel all of them.    *)
(***************************************************************************)
EXTENDS Integers, FiniteSets, Sequences

CONSTANTS Total,           \* books, in the order of the pages
          Embedded,        \* those that have a vector already
          Limits,          \* values of MaxEmbeddings; 0 is no limit
          PageSize, BatchSize, Workers,
          ChanSize,        \* embedWorkers * 2
          MilvusBatch, MaxErrors, FirstPageAttempts

VARIABLES opts,       \* EmbedAllBooksOptions of this run
          reader,     \* the page it is at and the batches still to be sent
          batchCh, resultCh,
          worker, collector,
          stats,      \* EmbedAllBooksStats
          cancelled,
          vectors,    \* books that have a vector
          (* for the properties *)
          taken,      \* books the reader has taken from its pages
          queryErrors \* errors that are not about a book

vars == <<opts, reader, batchCh, resultCh, worker, collector, stats, cancelled,
          vectors, taken, queryErrors>>

Book == 1 .. Total
Counts == 0 .. 2 * Total + 2
ReaderStates == [at : {"read", "send", "done"}, page : 1 .. Total + 1,
                 attempt : 1 .. FirstPageAttempts, last : BOOLEAN,
                 batches : Seq(SUBSET Book)]

TypeOK ==
  /\ opts \in [force : BOOLEAN, limit : Limits]
  /\ reader \in ReaderStates
  /\ batchCh \in Seq(SUBSET Book) /\ Len(batchCh) <= ChanSize
  /\ resultCh \in Seq(SUBSET Book) /\ Len(resultCh) <= ChanSize
  /\ worker \in [1 .. Workers -> [at : {"take", "embed", "send", "done"}, batch : SUBSET Book]]
  /\ collector \in [at : {"collect", "flush", "final", "done"}, buf : SUBSET Book]
  /\ stats \in [embedded : Counts, skipped : Counts, errors : Counts]
  /\ cancelled \in BOOLEAN
  /\ vectors \subseteq Book /\ taken \in Counts /\ queryErrors \in Counts

Init ==
  /\ opts \in [force : BOOLEAN, limit : Limits]
  /\ reader = [at |-> "read", page |-> 1, attempt |-> 1, last |-> FALSE, batches |-> <<>>]
  /\ batchCh = <<>> /\ resultCh = <<>>
  /\ worker = [w \in 1 .. Workers |-> [at |-> "take", batch |-> {}]]
  /\ collector = [at |-> "collect", buf |-> {}]
  /\ stats = [embedded |-> 0, skipped |-> 0, errors |-> 0]
  /\ cancelled = FALSE
  /\ vectors = Embedded
  /\ taken = 0 /\ queryErrors = 0

-----------------------------------------------------------------------------
(* The reader: produceBookBatches *)

Others == <<opts, batchCh, resultCh, worker, collector>>

\* The books of page p.  Of a set of books: the rank of one, the n first ones,
\* and the batches in which they are sent.
Page(p) == {b \in Book : (p - 1) * PageSize < b /\ b <= p * PageSize}
Rank(b, books) == Cardinality({d \in books : d <= b})
First(books, n) == {b \in books : Rank(b, books) <= n}
Batches(books) ==
  [i \in 1 .. (Cardinality(books) + BatchSize - 1) \div BatchSize |->
     {b \in books : (i - 1) * BatchSize < Rank(b, books) /\ Rank(b, books) <= i * BatchSize}]

\* The limit only knows the upserts that are through by now, not the books that
\* are still in the pipeline.
OverLimit(n) == opts.limit > 0 /\ stats.embedded + n > opts.limit
Allowed(books) ==
  IF ~OverLimit(Cardinality(books)) THEN books
  ELSE First(books, opts.limit - stats.embedded)

\* A page with books: those without a vector, or all of them, become batches.
\* The lookup of the vectors may fail; then none is skipped.
TakePage(existing, failed) ==
  LET books == Page(reader.page)
      skipped == IF opts.force THEN {} ELSE books \cap existing
      wanted == books \ skipped
      some == Allowed(wanted)
  IN /\ books # {}
     /\ stats' = [stats EXCEPT !.skipped = @ + Cardinality(skipped), !.errors = @ + failed]
     /\ queryErrors' = queryErrors + failed
     /\ taken' = taken + Cardinality(skipped) + Cardinality(some)
     /\ reader' = IF OverLimit(Cardinality(wanted)) /\ some = {} THEN [reader EXCEPT !.at = "done"]
                  ELSE [reader EXCEPT !.at = "send", !.batches = Batches(some),
                                      !.last = Cardinality(books) < PageSize]

Reading == reader.at = "read"

SearchBooks ==
  /\ Reading /\ ~cancelled
  /\ TakePage(vectors, 0)
  /\ UNCHANGED <<Others, cancelled, vectors>>

HasEmbeddingsFails ==
  /\ Reading /\ ~cancelled /\ ~opts.force
  /\ TakePage({}, 1)
  /\ UNCHANGED <<Others, cancelled, vectors>>

\* Mutant: the first page is asked for until it comes.
SearchFailsForever ==
  /\ Reading
  /\ reader' = [reader EXCEPT !.attempt = @ + 1]
  /\ UNCHANGED <<Others, stats, queryErrors, cancelled, vectors, taken>>

\* The first page is asked for again; the error of any other one, or the last
\* of the first, ends the reading.
SearchFails ==
  /\ Reading
  /\ IF reader.page = 1 /\ reader.attempt < FirstPageAttempts
     THEN /\ reader' = [reader EXCEPT !.attempt = @ + 1]
          /\ UNCHANGED <<stats, queryErrors>>
     ELSE /\ reader' = [reader EXCEPT !.at = "done"]
          /\ stats' = [stats EXCEPT !.errors = @ + 1]
          /\ queryErrors' = queryErrors + 1
  /\ UNCHANGED <<Others, cancelled, vectors, taken>>

\* An empty first page is asked for again, too.
NoMoreBooks ==
  /\ Reading /\ Page(reader.page) = {}
  /\ reader' = IF reader.page = 1 /\ reader.attempt < FirstPageAttempts
               THEN [reader EXCEPT !.attempt = @ + 1] ELSE [reader EXCEPT !.at = "done"]
  /\ UNCHANGED <<Others, stats, cancelled, vectors, taken, queryErrors>>

\* Mutant: the reader does not watch the context while it waits to send.
SendBatchOrWait ==
  /\ reader.at = "send" /\ reader.batches # <<>>
  /\ Len(batchCh) < ChanSize
  /\ batchCh' = Append(batchCh, Head(reader.batches))
  /\ reader' = [reader EXCEPT !.batches = Tail(@)]
  /\ UNCHANGED <<opts, resultCh, worker, collector, stats, cancelled, vectors, taken, queryErrors>>

\* The select takes either branch when both are open.
SendBatch ==
  /\ reader.at = "send" /\ reader.batches # <<>>
  /\ \/ /\ Len(batchCh) < ChanSize
        /\ batchCh' = Append(batchCh, Head(reader.batches))
        /\ reader' = [reader EXCEPT !.batches = Tail(@)]
     \/ /\ cancelled
        /\ reader' = [reader EXCEPT !.at = "done"]
        /\ UNCHANGED batchCh
  /\ UNCHANGED <<opts, resultCh, worker, collector, stats, cancelled, vectors, taken, queryErrors>>

NextPage ==
  /\ reader.at = "send" /\ reader.batches = <<>>
  /\ reader' = IF reader.last THEN [reader EXCEPT !.at = "done"]
               ELSE [reader EXCEPT !.at = "read", !.page = @ + 1]
  /\ UNCHANGED <<Others, stats, cancelled, vectors, taken, queryErrors>>

ReaderStops ==
  /\ Reading /\ cancelled
  /\ reader' = [reader EXCEPT !.at = "done"]
  /\ UNCHANGED <<Others, stats, cancelled, vectors, taken, queryErrors>>

Reader == SearchBooks \/ HasEmbeddingsFails \/ SearchFails \/ NoMoreBooks
            \/ SendBatch \/ NextPage \/ ReaderStops

-----------------------------------------------------------------------------
(* The workers: embedBatch *)

Became(w, state, batch) == worker' = [worker EXCEPT ![w] = [at |-> state, batch |-> batch]]
AtWork == <<opts, reader, collector, vectors, taken, queryErrors>>

\* Errors about books are counted one by one; at MaxErrors the run is cancelled.
Count(n) ==
  /\ stats' = [stats EXCEPT !.errors = @ + n]
  /\ cancelled' = (cancelled \/ stats.errors + n >= MaxErrors)

\* A batch taken after the cancellation is dropped, uncounted.
TakeBatch(w) ==
  /\ worker[w].at = "take"
  /\ IF batchCh # <<>>
     THEN /\ batchCh' = Tail(batchCh)
          /\ IF cancelled THEN Became(w, "done", {}) ELSE Became(w, "embed", Head(batchCh))
     ELSE reader.at = "done" /\ Became(w, "done", {}) /\ UNCHANGED batchCh
  /\ UNCHANGED <<AtWork, resultCh, stats, cancelled>>

EmbedTexts(w) ==
  /\ worker[w].at = "embed"
  /\ Became(w, "send", worker[w].batch)
  /\ UNCHANGED <<AtWork, batchCh, resultCh, stats, cancelled>>

EmbedFails(w) ==
  /\ worker[w].at = "embed"
  /\ Count(Cardinality(worker[w].batch))
  /\ Became(w, "take", {})
  /\ UNCHANGED <<AtWork, batchCh, resultCh>>

SendResult(w) ==
  /\ worker[w].at = "send"
  /\ \/ /\ Len(resultCh) < ChanSize
        /\ resultCh' = Append(resultCh, worker[w].batch)
        /\ Became(w, "take", {})
     \/ cancelled /\ Became(w, "done", {}) /\ UNCHANGED resultCh
  /\ UNCHANGED <<AtWork, batchCh, stats, cancelled>>

Worker(w) == TakeBatch(w) \/ EmbedTexts(w) \/ EmbedFails(w) \/ SendResult(w)

-----------------------------------------------------------------------------
(* The collector: bulk upserts and what is left at the end *)

Source == <<opts, reader, batchCh, worker, taken, queryErrors>>
AllDone == \A w \in 1 .. Workers : worker[w].at = "done"

Collect ==
  /\ collector.at = "collect" /\ resultCh # <<>>
  /\ resultCh' = Tail(resultCh)
  /\ LET buf == collector.buf \cup Head(resultCh)
     IN collector' = [at |-> IF Cardinality(buf) >= MilvusBatch THEN "flush" ELSE "collect",
                      buf |-> buf]
  /\ UNCHANGED <<Source, stats, cancelled, vectors>>

\* Mutant: what is in the buffer at the end is not written.
ResultsEndUnwritten ==
  /\ collector.at = "collect" /\ resultCh = <<>> /\ AllDone
  /\ collector' = [collector EXCEPT !.at = "done"]
  /\ UNCHANGED <<Source, resultCh, stats, cancelled, vectors>>

\* The channel is closed once the workers are done.
ResultsEnd ==
  /\ collector.at = "collect" /\ resultCh = <<>> /\ AllDone
  /\ collector' = [collector EXCEPT !.at = IF collector.buf = {} THEN "done" ELSE "final"]
  /\ UNCHANGED <<Source, resultCh, stats, cancelled, vectors>>

Flushed == collector' = [at |-> IF collector.at = "final" THEN "done" ELSE "collect", buf |-> {}]

FlushMilvusBatch ==
  /\ collector.at \in {"flush", "final"}
  /\ vectors' = vectors \cup collector.buf
  /\ stats' = [stats EXCEPT !.embedded = @ + Cardinality(collector.buf)]
  /\ Flushed
  /\ UNCHANGED <<Source, resultCh, cancelled>>

FlushFails ==
  /\ collector.at \in {"flush", "final"}
  /\ Count(Cardinality(collector.buf))
  /\ Flushed
  /\ UNCHANGED <<Source, resultCh, vectors>>

Collector == Collect \/ ResultsEnd \/ FlushMilvusBatch \/ FlushFails

-----------------------------------------------------------------------------
\* The caller gives up, or the service shuts down.
CallerCancels ==
  /\ ~cancelled
  /\ cancelled' = TRUE
  /\ UNCHANGED <<opts, reader, batchCh, resultCh, worker, collector, stats, vectors, taken, queryErrors>>

Next ==
  \/ Reader
  \/ \E w \in 1 .. Workers : Worker(w)
  \/ Collector
  \/ CallerCancels

Spec == Init /\ [][Next]_vars

\* Goroutines run, and requests to the stores and the model return.
Fairness ==
  /\ WF_vars(Reader)
  /\ \A w \in 1 .. Workers : WF_vars(Worker(w))
  /\ WF_vars(Collector)
FairSpec == Spec /\ Fairness

-----------------------------------------------------------------------------
Ended == reader.at = "done" /\ AllDone /\ collector.at = "done"

\* Every book the reader has taken is counted once: as embedded, as skipped or
\* as an error.  Only a run that is cancelled - by its caller, or by MaxErrors
\* errors - may leave some of them out.
EveryBookCounted ==
  LET counted == stats.embedded + stats.skipped + stats.errors IN
  /\ counted <= taken + queryErrors
  /\ Ended /\ ~cancelled => counted = taken + queryErrors

\* The run ends, and none of its goroutines stays behind: whichever of them
\* waits at a full or an empty channel when it is cancelled, or when too many
\* errors cancel it.
RunEnds == <>Ended
=============================================================================
