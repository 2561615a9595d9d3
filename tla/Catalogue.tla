------------------------------ MODULE Catalogue ------------------------------
(***************************************************************************)
(* A book and its copies: the document in MongoDB, the entry of the        *)
(* Elasticsearch index, and the vector the AI service derives from it.     *)
(* The index is written by the book service after each change, the vector  *)
(* by a consumer of the book.changed events, by a bulk run over all books, *)
(* and on demand.  A book is reduced to the number of its last change.     *)
(***************************************************************************)
EXTENDS Naturals, FiniteSets, Sequences, SequencesExt

CONSTANTS Books, Calls,
          MaxChange,   \* bound: changes of all books together
          MaxFaults,   \* bound: failed requests and crashes
          Absent

VARIABLES books,     \* MongoDB: book -> number of its last change, or Absent
          index,     \* Elasticsearch: the change that is indexed, or Absent
          vectors,   \* Milvus: the change that is embedded, or Absent
          queue,     \* ai.book.embedding: one book id per event
          consumer,  \* the event being handled, not yet acknowledged
          call,      \* the invocations in flight
          created,   \* a deleted book never comes back under its id
          change,    \* changes so far
          faults,
          (* for the properties *)
          astray,    \* books of which two changes overlapped or one lost a write
          missed     \* books of which an event was lost or a vector went back

vars == <<books, index, vectors, queue, consumer, call, created, change, faults, astray, missed>>
mongo == <<books, created, change>>
notes == <<astray, missed>>

Change == 1 .. MaxChange
Copies == [Books -> Change \cup {Absent}]
Idle == [at |-> "idle"]
CallStates ==
  [at : {"idle"}] \cup [at : {"read", "unindex", "publish"}, book : Books]
    \cup [at : {"index"}, book : Books, doc : Change]
    \cup [at : {"upsert"}, docs : Copies]
    \cup [at : {"fetch"}, hits : Seq(Books)]
    \cup [at : {"answer"}, hits : Seq(Books), found : SUBSET Books]

TypeOK ==
  /\ books \in Copies /\ index \in Copies /\ vectors \in Copies
  /\ queue \in Seq(Books)
  /\ consumer \in {Idle} \cup [at : {"embed"}, doc : Change]
  /\ call \in [Calls -> CallStates]
  /\ created \subseteq Books /\ change \in 0 .. MaxChange
  /\ faults \in 0 .. MaxFaults
  /\ astray \subseteq Books /\ missed \subseteq Books

Init ==
  /\ books = [b \in Books |-> Absent]
  /\ index = books /\ vectors = books
  /\ queue = <<>>
  /\ consumer = Idle
  /\ call = [c \in Calls |-> Idle]
  /\ created = {} /\ change = 0
  /\ faults = 0
  /\ astray = {} /\ missed = {}

-----------------------------------------------------------------------------
At(c, stage) == call[c].at = stage
GoOn(c, k) == call' = [call EXCEPT ![c] = k]
Return(c) == GoOn(c, Idle)
Copied(f, b, d) == [f EXCEPT ![b] = d]

Writing(b) == {c \in Calls : call[c].at \in {"read", "index", "unindex"} /\ call[c].book = b}
Overlapping(b) == astray' = IF Writing(b) = {} THEN astray ELSE astray \cup {b}

Fault == faults < MaxFaults /\ faults' = faults + 1

-----------------------------------------------------------------------------
(* The book service: MongoDB first, then the index, then the event *)

CreateBook(c, b) ==
  /\ At(c, "idle") /\ b \notin created /\ change < MaxChange
  /\ created' = created \cup {b}
  /\ change' = change + 1
  /\ books' = Copied(books, b, change')
  /\ GoOn(c, [at |-> "index", book |-> b, doc |-> change'])
  /\ UNCHANGED <<index, vectors, queue, consumer, faults, notes>>

\* UpdateOne of a document that is not there is no error; the re-read is one.
UpdateBook(c, b) ==
  /\ At(c, "idle") /\ books[b] # Absent /\ change < MaxChange
  /\ change' = change + 1
  /\ books' = Copied(books, b, change')
  /\ GoOn(c, [at |-> "read", book |-> b])
  /\ Overlapping(b)
  /\ UNCHANGED <<index, vectors, queue, consumer, created, faults, missed>>

\* Mutant: what is indexed is the book as it was before the update.
IndexedDocBefore(b) == IF index[b] = Absent THEN books[b] ELSE index[b]
IndexedDoc(b) == books[b]

FindByID(c) ==
  /\ At(c, "read")
  /\ LET b == call[c].book IN
       IF books[b] = Absent THEN Return(c)
       ELSE GoOn(c, [at |-> "index", book |-> b, doc |-> IndexedDoc(b)])
  /\ UNCHANGED <<mongo, index, vectors, queue, consumer, faults, notes>>

IndexBook(c) ==
  /\ At(c, "index")
  /\ index' = Copied(index, call[c].book, call[c].doc)
  /\ GoOn(c, [at |-> "publish", book |-> call[c].book])
  /\ UNCHANGED <<mongo, vectors, queue, consumer, faults, notes>>

\* The error is logged, an error status of the answer is not even read.
IndexFails(c) ==
  /\ At(c, "index") /\ Fault
  /\ astray' = astray \cup {call[c].book}
  /\ GoOn(c, [at |-> "publish", book |-> call[c].book])
  /\ UNCHANGED <<mongo, index, vectors, queue, consumer, missed>>

Publish(c) ==
  /\ At(c, "publish")
  /\ queue' = Append(queue, call[c].book)
  /\ Return(c)
  /\ UNCHANGED <<mongo, index, vectors, consumer, faults, notes>>

\* No channel, no queue bound yet, or the connection breaks: no event.
PublishFails(c) ==
  /\ At(c, "publish") /\ Fault
  /\ missed' = missed \cup {call[c].book}
  /\ Return(c)
  /\ UNCHANGED <<mongo, index, vectors, queue, consumer, astray>>

\* No event: the vector of a deleted book stays.
DeleteBook(c, b) ==
  /\ At(c, "idle") /\ books[b] # Absent
  /\ books' = Copied(books, b, Absent)
  /\ GoOn(c, [at |-> "unindex", book |-> b])
  /\ Overlapping(b)
  /\ UNCHANGED <<index, vectors, queue, consumer, created, change, faults, missed>>

Unindex(c) ==
  /\ At(c, "unindex")
  /\ index' = Copied(index, call[c].book, Absent)
  /\ Return(c)
  /\ UNCHANGED <<mongo, vectors, queue, consumer, faults, notes>>

\* A request to a store fails after MongoDB was written, or the service stops.
BookServiceFails(c) ==
  /\ call[c].at \in {"read", "index", "unindex", "publish"} /\ Fault
  /\ astray' = IF At(c, "publish") THEN astray ELSE astray \cup {call[c].book}
  /\ missed' = IF At(c, "unindex") THEN missed ELSE missed \cup {call[c].book}
  /\ Return(c)
  /\ UNCHANGED <<mongo, index, vectors, queue, consumer>>

-----------------------------------------------------------------------------
(* SearchBooks with a keyword: ids from the index, best match first, then  *)
(* the books from MongoDB in one query.                                    *)

Indexed == {b \in Books : index[b] # Absent}

SearchBooks(c) ==
  /\ At(c, "idle")
  /\ \E hits \in UNION {SetToSeqs(s) : s \in SUBSET Indexed} :
       GoOn(c, [at |-> "fetch", hits |-> hits])
  /\ UNCHANGED <<mongo, index, vectors, queue, consumer, faults, notes>>

FindByIDs(c) ==
  /\ At(c, "fetch")
  /\ GoOn(c, [at |-> "answer", hits |-> call[c].hits,
              found |-> {b \in ToSet(call[c].hits) : books[b] # Absent}])
  /\ UNCHANGED <<mongo, index, vectors, queue, consumer, faults, notes>>

\* The books found go into a slice as long as their number, each at the place
\* its id has among the hits; a place beyond the end is a panic, and no answer.
InPlace(k) == \A i \in DOMAIN k.hits : k.hits[i] \in k.found => i <= Cardinality(k.found)

Answer(c) ==
  /\ At(c, "answer")
  /\ Return(c)
  /\ UNCHANGED <<mongo, index, vectors, queue, consumer, faults, notes>>

-----------------------------------------------------------------------------
(* Vectors *)

\* EmbedBook re-reads the book the event names; a book that is gone, like any
\* other error, is logged and the event acknowledged.
ReceiveEvent ==
  /\ consumer = Idle /\ queue # <<>>
  /\ IF books[Head(queue)] = Absent
     THEN queue' = Tail(queue) /\ UNCHANGED consumer
     ELSE consumer' = [at |-> "embed", doc |-> books[Head(queue)]] /\ UNCHANGED queue
  /\ UNCHANGED <<mongo, index, vectors, call, faults, notes>>

EmbedBook ==
  /\ consumer # Idle
  /\ vectors' = Copied(vectors, Head(queue), consumer.doc)
  /\ queue' = Tail(queue)
  /\ consumer' = Idle
  /\ UNCHANGED <<mongo, index, call, faults, notes>>

EmbedFails ==
  /\ consumer # Idle /\ Fault
  /\ missed' = missed \cup {Head(queue)}
  /\ queue' = Tail(queue)
  /\ consumer' = Idle
  /\ UNCHANGED <<mongo, index, vectors, call, astray>>

\* Mutant: the broker forgets an event when it is delivered.
ConsumerStopsAcked ==
  /\ consumer # Idle /\ Fault
  /\ consumer' = Idle
  /\ queue' = Tail(queue)
  /\ UNCHANGED <<mongo, index, vectors, call, notes>>

\* The AI service stops or loses its connection: the event is delivered again.
ConsumerStops ==
  /\ consumer # Idle /\ Fault
  /\ consumer' = Idle
  /\ UNCHANGED <<mongo, index, vectors, queue, call, notes>>

\* A page of the bulk run; unless forced it takes the books without a vector.
ReadPage(c, force) ==
  /\ At(c, "idle")
  /\ GoOn(c, [at |-> "upsert", docs |-> [b \in Books |-> IF force \/ vectors[b] = Absent
                                                         THEN books[b] ELSE Absent]])
  /\ UNCHANGED <<mongo, index, vectors, queue, consumer, faults, notes>>

\* FindSimilarBooks of a book that has no vector yet.
FindSimilarBooks(c, b) ==
  /\ At(c, "idle") /\ vectors[b] = Absent /\ books[b] # Absent
  /\ GoOn(c, [at |-> "upsert", docs |-> [d \in Books |-> IF d = b THEN books[b] ELSE Absent]])
  /\ UNCHANGED <<mongo, index, vectors, queue, consumer, faults, notes>>

\* What was read is written, however old it is by now.
Upsert(c) ==
  /\ At(c, "upsert")
  /\ LET docs == call[c].docs
         back == {b \in Books : docs[b] # Absent /\ vectors[b] # Absent /\ docs[b] < vectors[b]}
     IN /\ vectors' = [b \in Books |-> IF docs[b] = Absent THEN vectors[b] ELSE docs[b]]
        /\ missed' = missed \cup back
  /\ Return(c)
  /\ UNCHANGED <<mongo, index, queue, consumer, faults, astray>>

\* The model, the vector store or the service stops before the vectors are written.
UpsertFails(c) ==
  /\ At(c, "upsert")
  /\ Return(c)
  /\ UNCHANGED <<mongo, index, vectors, queue, consumer, faults, notes>>

-----------------------------------------------------------------------------
Next ==
  \/ \E c \in Calls :
       \/ \E b \in Books :
            \/ CreateBook(c, b) \/ UpdateBook(c, b) \/ DeleteBook(c, b)
            \/ FindSimilarBooks(c, b)
       \/ FindByID(c) \/ IndexBook(c) \/ IndexFails(c)
       \/ Publish(c) \/ PublishFails(c) \/ Unindex(c) \/ BookServiceFails(c)
       \/ SearchBooks(c) \/ FindByIDs(c) \/ Answer(c)
       \/ \E force \in BOOLEAN : ReadPage(c, force)
       \/ Upsert(c) \/ UpsertFails(c)
  \/ ReceiveEvent \/ EmbedBook \/ EmbedFails \/ ConsumerStops

Spec == Init /\ [][Next]_vars

\* A handler that has begun goes on, and the consumer reconnects and takes the
\* next event; nothing makes anybody change a book or start a bulk run.
Progress ==
  /\ \A c \in Calls : WF_vars(FindByID(c) \/ IndexBook(c) \/ Publish(c) \/ Unindex(c))
  /\ WF_vars(ReceiveEvent \/ EmbedBook)

FairSpec == Spec /\ Progress

-----------------------------------------------------------------------------
\* The index shows each book as MongoDB has it, and no deleted one, whenever no
\* call is between the two - unless two changes of the book overlapped or a
\* request for it failed: then the index may stay wrong for good.
IndexFollows ==
  \A b \in Books : b \notin astray /\ Writing(b) = {} => index[b] = books[b]

\* In the end the vector of a book is the one of its last change, however the
\* consumer stops, events repeat, and bulk runs write what they read earlier -
\* unless the event was lost or a bulk run wrote back an older vector.
VectorsFollow ==
  \A b \in Books :
    <>[](b \in missed \/ books[b] = Absent \/ vectors[b] = books[b])

\* "Returned in the order of the index's relevance": a search answers with the
\* books that are still there.
SearchAnswers == \A c \in Calls : At(c, "answer") => InPlace(call[c])
=============================================================================
