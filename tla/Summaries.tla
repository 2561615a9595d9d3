------------------------------ MODULE Summaries ------------------------------
(***************************************************************************)
(* The summary of one book, generated by a language model and kept twice:  *)
(* in MongoDB for good and in Redis for a while.  Summaries are numbered   *)
(* in the order in which they were generated.                              *)
(***************************************************************************)
EXTENDS Naturals

CONSTANTS Calls,
          MaxSummaries,  \* bound: summaries ever generated
          NoSummary

VARIABLES cache,    \* ai:summary:<book> in Redis
          saved,    \* the document in MongoDB
          made,     \* summaries generated so far
          call,     \* the invocations of GenerateBookSummary in flight
          (* for the properties *)
          given,    \* the newest summary a call has returned after storing it
          mixed     \* two calls overlapped, or a store failed

vars == <<cache, saved, made, call, given, mixed>>

Summary == 1 .. MaxSummaries
Idle == [at |-> "idle"]
CallStates == [at : {"idle", "lookup", "generate"}] \cup [at : {"save", "fill"}, summary : Summary]

TypeOK ==
  /\ cache \in Summary \cup {NoSummary}
  /\ saved \in Summary \cup {NoSummary}
  /\ made \in 0 .. MaxSummaries
  /\ call \in [Calls -> CallStates]
  /\ given \in 0 .. MaxSummaries
  /\ mixed \in BOOLEAN

Init ==
  /\ cache = NoSummary
  /\ saved = NoSummary
  /\ made = 0
  /\ call = [c \in Calls |-> Idle]
  /\ given = 0
  /\ mixed = FALSE

At(c, stage) == call[c].at = stage
GoOn(c, k) == call' = [call EXCEPT ![c] = k]

\* A call that neither Redis answers nor is alone.
Begin(c, stage) ==
  /\ At(c, "idle")
  /\ GoOn(c, [at |-> stage])
  /\ mixed' = (mixed \/ \E d \in Calls : ~At(d, "idle"))
  /\ UNCHANGED <<cache, saved, made, given>>

-----------------------------------------------------------------------------
\* force_regenerate skips both stores; a summary in Redis is the answer.
GenerateBookSummary(c, force) ==
  /\ force \/ cache = NoSummary
  /\ Begin(c, IF force THEN "generate" ELSE "lookup")

\* GetBookSummary; an error of MongoDB is logged and counts as a miss.
GetBookSummary(c) ==
  /\ At(c, "lookup")
  /\ GoOn(c, IF saved = NoSummary THEN [at |-> "generate"]
             ELSE [at |-> "fill", summary |-> saved])
  /\ UNCHANGED <<cache, saved, made, given, mixed>>

LookupFails(c) ==
  /\ At(c, "lookup")
  /\ GoOn(c, [at |-> "generate"])
  /\ UNCHANGED <<cache, saved, made, given, mixed>>

RunAgent(c) ==
  /\ At(c, "generate")
  /\ made < MaxSummaries
  /\ made' = made + 1
  /\ GoOn(c, [at |-> "save", summary |-> made + 1])
  /\ UNCHANGED <<cache, saved, given, mixed>>

\* No key, no reply, or a reply that is not JSON: answered, and nothing stored.
AgentFails(c) ==
  /\ At(c, "generate")
  /\ GoOn(c, Idle)
  /\ UNCHANGED <<cache, saved, made, given, mixed>>

\* Mutant: a new summary is stored in MongoDB only.
SaveBookSummaryOnly(c) ==
  /\ At(c, "save")
  /\ saved' = call[c].summary
  /\ given' = call[c].summary
  /\ GoOn(c, Idle)
  /\ UNCHANGED <<cache, made, mixed>>

SaveBookSummary(c) ==
  /\ At(c, "save")
  /\ saved' = call[c].summary
  /\ GoOn(c, [at |-> "fill", summary |-> call[c].summary])
  /\ UNCHANGED <<cache, made, given, mixed>>

\* The error is logged; Redis gets the summary all the same.
SaveFails(c) ==
  /\ At(c, "save")
  /\ GoOn(c, [at |-> "fill", summary |-> call[c].summary])
  /\ mixed' = TRUE
  /\ UNCHANGED <<cache, saved, made, given>>

Later(s) == IF s > given THEN s ELSE given

CacheSet(c) ==
  /\ At(c, "fill")
  /\ cache' = call[c].summary
  /\ given' = Later(call[c].summary)
  /\ GoOn(c, Idle)
  /\ UNCHANGED <<saved, made, mixed>>

CacheSetFails(c) ==
  /\ At(c, "fill")
  /\ GoOn(c, Idle)
  /\ mixed' = TRUE
  /\ UNCHANGED <<cache, saved, made, given>>

CacheExpires ==
  /\ cache # NoSummary
  /\ cache' = NoSummary
  /\ UNCHANGED <<saved, made, call, given, mixed>>

Next ==
  \/ \E c \in Calls :
       \/ \E force \in BOOLEAN : GenerateBookSummary(c, force)
       \/ GetBookSummary(c) \/ LookupFails(c) \/ RunAgent(c) \/ AgentFails(c)
       \/ SaveBookSummary(c) \/ SaveFails(c) \/ CacheSet(c) \/ CacheSetFails(c)
  \/ CacheExpires

Spec == Init /\ [][Next]_vars

-----------------------------------------------------------------------------
\* Once somebody was given a summary, nobody gets an older one, from Redis or
\* after Redis forgot it - as long as no two calls overlapped and no store
\* failed.  Overlapping calls can leave the older of two summaries for good.
NeverOlder ==
  ~mixed => /\ cache # NoSummary => cache >= given
            /\ given > 0 => saved # NoSummary /\ saved >= given
=============================================================================
