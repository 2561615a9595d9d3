------------------------------ MODULE ChatStream ------------------------------
(***************************************************************************)
(* One streamed chat turn: the AI service sends the pieces of the reply    *)
(* while the agent produces them, saves the turn and says done; the        *)
(* gateway relays the chunks as server-sent events.  The client may leave, *)
(* the AI service may stop, the stream may break or time out at any        *)
(* moment.  What the turn says and does is in Assistant.                   *)
(***************************************************************************)
EXTENDS Naturals, Sequences

CONSTANT MaxParts   \* bound: pieces of one reply

VARIABLES configured,  \* the service has an API key
          stage,       \* where StreamChat is
          reply,       \* pieces of the reply so far
          pending,     \* the gate holds an action to be confirmed
          saved,       \* pieces of the reply in the stored session
          saveFailed,
          stream,      \* "open", "ended" by the handler, or "cut"
          wire,        \* chunks sent and not received
          relaying,    \* the gateway's loop runs
          gone,        \* the client has left
          seen         \* the events the client received

service == <<configured, stage, reply, pending, saved, saveFailed>>
gateway == <<relaying, gone, seen>>
vars == <<service, stream, wire, gateway>>

Stages == {"start", "agent", "talking", "closing", "suggesting", "saving", "done", "returned"}
Chunk == [type : {"delta"}, part : 1 .. MaxParts]
           \cup [type : {"metadata"}, about : {"session", "confirmation", "suggestions"}]
           \cup [type : {"error", "done", "answer"}]
Delta(i) == [type |-> "delta", part |-> i]
Metadata(about) == [type |-> "metadata", about |-> about]
Done == [type |-> "done"]
Error == [type |-> "error"]
\* The fixed sentence of a service without an API key.
Unavailable == [type |-> "answer"]

TypeOK ==
  /\ configured \in BOOLEAN /\ pending \in BOOLEAN /\ saveFailed \in BOOLEAN
  /\ relaying \in BOOLEAN /\ gone \in BOOLEAN
  /\ stage \in Stages
  /\ reply \in 0 .. MaxParts /\ saved \in 0 .. MaxParts
  /\ stream \in {"open", "ended", "cut"}
  /\ wire \in Seq(Chunk)
  /\ seen \in Seq(Chunk)

Init ==
  /\ configured \in BOOLEAN
  /\ stage = "start"
  /\ reply = 0 /\ saved = 0
  /\ pending = FALSE /\ saveFailed = FALSE
  /\ stream = "open" /\ wire = <<>>
  /\ relaying = TRUE /\ gone = FALSE /\ seen = <<>>

-----------------------------------------------------------------------------
(* StreamChat.  A Send fails exactly when the stream is cut. *)

Send(chunks) == wire' = IF stream = "cut" THEN wire ELSE wire \o chunks

\* A Send whose error ends the handler.
SendOrReturn(chunk, next) ==
  /\ Send(<<chunk>>)
  /\ stage' = IF stream = "cut" THEN "returned" ELSE next

Return == stage' = "returned" /\ stream' = IF stream = "open" THEN "ended" ELSE stream

SendSession ==
  /\ stage = "start"
  /\ SendOrReturn(Metadata("session"), "agent")
  /\ UNCHANGED <<configured, reply, pending, saved, saveFailed, stream, gateway>>

NotConfigured ==
  /\ stage = "agent" /\ ~configured
  /\ Send(<<Unavailable, Done>>)
  /\ Return
  /\ UNCHANGED <<configured, reply, pending, saved, saveFailed, gateway>>

AgentFails ==
  /\ stage = "agent" /\ configured
  /\ Send(<<Error, Done>>)
  /\ Return
  /\ UNCHANGED <<configured, reply, pending, saved, saveFailed, gateway>>

NewLibrarianAgent ==
  /\ stage = "agent" /\ configured
  /\ stage' = "talking"
  /\ UNCHANGED <<configured, reply, pending, saved, saveFailed, stream, wire, gateway>>

SendDelta ==
  /\ stage = "talking" /\ reply < MaxParts
  /\ reply' = reply + 1
  /\ SendOrReturn(Delta(reply'), "talking")
  /\ UNCHANGED <<configured, pending, saved, saveFailed, stream, gateway>>

\* A tool of the agent asks for a confirmation.
QueuePending ==
  /\ stage = "talking"
  /\ pending' = TRUE
  /\ UNCHANGED <<configured, stage, reply, saved, saveFailed, stream, wire, gateway>>

\* The agent reports an error, its timeout among them: what it said is kept.
AgentError ==
  /\ stage = "talking"
  /\ stage' = "closing"
  /\ Send(<<Error>>)
  /\ UNCHANGED <<configured, reply, pending, saved, saveFailed, stream, gateway>>

\* The agent has finished, or its reply broke off, which is only logged.
AgentEnds ==
  /\ stage = "talking"
  /\ stage' = "closing"
  /\ UNCHANGED <<configured, reply, pending, saved, saveFailed, stream, wire, gateway>>

TakeLastPending ==
  /\ stage = "closing"
  /\ stage' = IF reply > 0 THEN "suggesting" ELSE "done"
  /\ Send(IF pending THEN <<Metadata("confirmation")>> ELSE <<>>)
  /\ UNCHANGED <<configured, reply, pending, saved, saveFailed, stream, gateway>>

SendSuggestions ==
  /\ stage = "suggesting"
  /\ stage' = "saving"
  /\ \E found \in BOOLEAN :
       Send(IF found THEN <<Metadata("suggestions")>> ELSE <<>>)
  /\ UNCHANGED <<configured, reply, pending, saved, saveFailed, stream, gateway>>

SaveChatSession ==
  /\ stage = "saving"
  /\ stage' = "done"
  /\ saved' = reply
  /\ UNCHANGED <<configured, reply, pending, saveFailed, stream, wire, gateway>>

SaveFails ==
  /\ stage = "saving"
  /\ stage' = "done"
  /\ saveFailed' = TRUE
  /\ UNCHANGED <<configured, reply, pending, saved, stream, wire, gateway>>

SendDone ==
  /\ stage = "done"
  /\ Send(<<Done>>)
  /\ Return
  /\ UNCHANGED <<configured, reply, pending, saved, saveFailed, gateway>>

ServiceStops ==
  /\ stage # "returned"
  /\ stage' = "returned" /\ stream' = "cut"
  /\ UNCHANGED <<configured, reply, pending, saved, saveFailed, wire, gateway>>

-----------------------------------------------------------------------------
(* The connection, the client and the gateway. *)

\* Lost connection, or the timeout of the gateway's call.
Cut ==
  /\ stream = "open"
  /\ stream' = "cut"
  /\ UNCHANGED <<service, wire, gateway>>

\* The request's context, and with it the stream, is cancelled.
ClientLeaves ==
  /\ ~gone /\ relaying
  /\ gone' = TRUE
  /\ stream' = IF stream = "open" THEN "cut" ELSE stream
  /\ UNCHANGED <<service, wire, relaying, seen>>

ClientGone ==
  /\ relaying /\ gone
  /\ relaying' = FALSE
  /\ UNCHANGED <<service, stream, wire, gone, seen>>

Write(events) == seen' = IF gone THEN seen ELSE seen \o events

\* The event written for a chunk: of a chunk that asks for a confirmation only
\* the session id, the suggested books and the actions, and it has no books.
writeSSE(chunk) ==
  IF chunk = Metadata("confirmation") THEN Metadata("session") ELSE chunk

Relay ==
  /\ relaying /\ wire # <<>>
  /\ Write(<<writeSSE(Head(wire))>>)
  /\ wire' = Tail(wire)
  /\ relaying' = (Head(wire) # Done)
  /\ UNCHANGED <<service, stream, gone>>

\* Mutant: any error of Recv ends the loop as the end of the stream does (which
\* the loop never meets: the handler says done before it returns).
RecvFailsAsEOF ==
  /\ relaying /\ stream = "cut"
  /\ Write(<<Done>>)
  /\ relaying' = FALSE
  /\ UNCHANGED <<service, stream, wire, gone>>

RecvFails ==
  /\ relaying /\ stream = "cut"
  /\ Write(<<Error, Done>>)
  /\ relaying' = FALSE
  /\ UNCHANGED <<service, stream, wire, gone>>

Next ==
  \/ SendSession \/ NotConfigured \/ AgentFails \/ NewLibrarianAgent
  \/ SendDelta \/ QueuePending \/ AgentError \/ AgentEnds
  \/ TakeLastPending \/ SendSuggestions \/ SaveChatSession \/ SaveFails \/ SendDone
  \/ ServiceStops \/ Cut \/ ClientLeaves \/ ClientGone
  \/ Relay \/ RecvFails

Spec == Init /\ [][Next]_vars

-----------------------------------------------------------------------------
Received(chunk) == \E i \in DOMAIN seen : seen[i] = chunk
Finished == configured /\ Received(Done) /\ ~Received(Error)
Said == {i \in DOMAIN seen : seen[i].type = "delta"}

\* A client that is told done, and of no error, has seen every piece of the
\* reply in order, and the next turn will find exactly that in the history,
\* wherever the stream broke - unless the store refused the session.
DoneMeansSaved ==
  Finished /\ ~saveFailed =>
    /\ {seen[i] : i \in Said} = {Delta(n) : n \in 1 .. saved}
    /\ \A i, j \in Said : i < j => seen[i].part < seen[j].part

\* A turn that leaves an action to be confirmed tells the client so.
PendingReachesClient == Finished /\ pending => Received(Metadata("confirmation"))
=============================================================================
