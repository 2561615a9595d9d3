----------------------------- MODULE MCPipelines -----------------------------
\* The parts of the system that hand things on - the catalogue to its copies,
\* the bulk run over all books from worker to worker, the payments to the
\* broker, the chat stream to the client - one per behaviour: the initial state
\* chooses which.  The bulk run is, as a whole, a step of the catalogue
\* (ReadPage, Upsert).
EXTENDS Payments

CONSTANTS o1, o2, b1, b2, c1, c2,
          Books, MaxChange, MaxFaults, Absent,
          Total, Embedded, Limits, PageSize, BatchSize, Workers, ChanSize,
          MilvusBatch, MaxErrors, FirstPageAttempts,
          MaxParts

\* The bounds are numbers, and an absent document is none of the changes.
ASSUME CopyConstants ==
  /\ MaxChange \in Nat /\ MaxFaults \in Nat /\ MaxParts \in Nat
  /\ Absent \notin Nat

\* Pages, batches and channels have room, there is a worker, and some book may
\* have its vector before the run.
ASSUME BulkConstants ==
  /\ Total \in Nat /\ Embedded \subseteq 1 .. Total /\ Limits \subseteq Int
  /\ PageSize \in Nat \ {0} /\ BatchSize \in Nat \ {0}
  /\ Workers \in Nat \ {0} /\ FirstPageAttempts \in Nat \ {0}
  /\ ChanSize \in Nat /\ MilvusBatch \in Nat /\ MaxErrors \in Nat

VARIABLES part,
          books, index, vectors, queue, consumer, call, created, change, faults,
          astray, missed,
          opts, reader, batchCh, resultCh, worker, collector, stats, cancelled,
          embedded, taken, queryErrors,
          configured, stage, reply, pending, saved, saveFailed, stream, wire,
          relaying, gone, seen

Cat == INSTANCE Catalogue
Bulk == INSTANCE Backfill WITH vectors <- embedded
Chat == INSTANCE ChatStream

catalogueVars == <<books, index, vectors, queue, consumer, call, created, change,
                   faults, astray, missed>>
backfillVars == <<opts, reader, batchCh, resultCh, worker, collector, stats, cancelled,
                  embedded, taken, queryErrors>>
chatVars == <<configured, stage, reply, pending, saved, saveFailed, stream, wire,
              relaying, gone, seen>>
paymentVars == <<payments, publishing, sent, lost, queues>>
allVars == <<part, catalogueVars, backfillVars, chatVars, paymentVars>>

AllInit ==
  /\ part \in {"catalogue", "backfill", "chat", "payments"}
  /\ Cat!Init /\ Bulk!Init /\ Chat!Init /\ Init
  /\ part # "backfill" => opts = [force |-> FALSE, limit |-> 0]
  /\ part # "chat" => configured

AllNext ==
  /\ UNCHANGED part
  /\ \/ /\ part = "catalogue" /\ Cat!Next
        /\ UNCHANGED <<backfillVars, chatVars, paymentVars>>
     \/ /\ part = "backfill" /\ Bulk!Next
        /\ UNCHANGED <<catalogueVars, chatVars, paymentVars>>
     \/ /\ part = "chat" /\ Chat!Next
        /\ UNCHANGED <<catalogueVars, backfillVars, paymentVars>>
     \/ /\ part = "payments" /\ Next
        /\ UNCHANGED <<catalogueVars, backfillVars, chatVars>>

BulkOnly ==
  part = "backfill" /\ UNCHANGED <<part, catalogueVars, chatVars, paymentVars>>

Fairness ==
  /\ Cat!Progress
  /\ WF_backfillVars(BulkOnly /\ Bulk!Reader)
  /\ \A w \in 1 .. Workers : WF_backfillVars(BulkOnly /\ Bulk!Worker(w))
  /\ WF_backfillVars(BulkOnly /\ Bulk!Collector)

AllSpec == AllInit /\ [][AllNext]_allVars
AllFairSpec == AllSpec /\ Fairness

\* The state of the part that runs has its type.
AllTypeOK ==
  CASE part = "catalogue" -> Cat!TypeOK
    [] part = "backfill" -> Bulk!TypeOK
    [] part = "chat" -> Chat!TypeOK
    [] part = "payments" -> TypeOK
\* See Catalogue.
IndexFollows == part = "catalogue" => Cat!IndexFollows
\* See Catalogue.
VectorsFollow == Cat!VectorsFollow
\* See Catalogue.
SearchAnswers == Cat!SearchAnswers
\* See Backfill.
EveryBookCounted == part = "backfill" => Bulk!EveryBookCounted
\* See Backfill; the other parts have no run.
RunEnds == part = "backfill" => Bulk!RunEnds
\* See ChatStream.
DoneMeansSaved == part = "chat" => Chat!DoneMeansSaved
\* See ChatStream.
PendingReachesClient == Chat!PendingReachesClient
=============================================================================
