------------------------------ MODULE Assistant ------------------------------
(***************************************************************************)
(* The AI assistant: chat turns that read and write the chat session of one *)
(* user, and the gate in front of the tools that order, pay and cancel.  A  *)
(* tool call is registered as a pending action first; the client shows it   *)
(* and sends its id back with a later turn, which stages the arguments as   *)
(* approved; the next call of that tool in the session runs with them.      *)
(*                                                                          *)
(* Pending and approved actions are keys of Redis with a TTL, the session   *)
(* is one document of MongoDB, and turns of one session may overlap, as may *)
(* the tool calls of one message of the model: each command is a step.  The *)
(* model calls any tool with any argument.                                  *)
(*                                                                          *)
(* A definition marked "Mutation:" is a plausible bug in the definition it  *)
(* precedes; putting it in that one's place must break the property named.  *)
(***************************************************************************)
EXTENDS Integers, Sequences

CONSTANTS
    Turns,     \* slots for the chat requests in flight
    Calls,     \* slots for the tool calls in flight
    Sessions,
    Tools,     \* create_order, create_payment, cancel_order
    Args,      \* what a tool may be called with
    Actions,   \* the action ids rand draws, each once
    MaxTurns,  \* chat requests in all
    MaxFaults  \* crashes and failing commands

ASSUME AssistantConstants == MaxTurns \in Nat /\ MaxFaults \in Nat

VARIABLES
    record,      \* what was registered under an action id
    pending,     \* the ids whose ai:hitl:pend key exists
    approved,    \* ai:hitl:approved of a session and tool: {} or {id}, id for its args
    chat,        \* exchanges in the document of each session
    turn,        \* what each request does next
    call,        \* what each approved tool call does next
    shown,       \* ids the client was given, with secret and summary
    confirmed,   \* ids the client has sent back
    executed,    \* the RPCs made for an action
    saved,       \* exchanges saved, per session
    overlapped,  \* sessions that had two turns, or two such calls, at once
    started,     \* requests so far
    faults

redisVars == <<record, pending, approved>>
clientVars == <<shown, confirmed, executed>>
countVars == <<overlapped, started>>
vars == <<redisVars, chat, turn, call, clientVars, saved, countVars, faults>>

Record == [session: Sessions, tool: Tools, args: Args]
NoRecord == [tool |-> "none"]
Approved == {{}} \cup {{i} : i \in Actions}
RPC == [tool: Tools, args: Args]

Idle == [at |-> "idle"]
Staging == [at: {"stage", "unpend"}, session: Sessions, action: Actions]
Loading == [at: {"load"}, session: Sessions]
Thinking == [at: {"agent", "failed"}, session: Sessions, loaded: Nat, last: SUBSET Actions]
Calling == [at: {"consume", "call"}, turn: Turns, session: Sessions, tool: Tools, args: Args,
            action: Actions]

Init ==
    /\ record = [i \in Actions |-> NoRecord]
    /\ pending = {}
    /\ approved = [k \in Sessions \X Tools |-> {}]
    /\ chat = [s \in Sessions |-> 0]
    /\ turn = [p \in Turns |-> Idle]
    /\ call = [c \in Calls |-> Idle]
    /\ shown = {} /\ confirmed = {}
    /\ executed = [i \in Actions |-> <<>>]
    /\ saved = [s \in Sessions |-> 0]
    /\ overlapped = {} /\ started = 0 /\ faults = 0

Becomes(p, t) == turn' = [turn EXCEPT ![p] = t]
Load(s) == [at |-> "load", session |-> s]

(* A request arrives; ghosts keep how many did, and whether they overlap.   *)
Arrive(p, s) ==
    /\ turn[p] = Idle
    /\ started < MaxTurns
    /\ started' = started + 1
    /\ overlapped' = IF \E q \in Turns : turn[q] # Idle /\ turn[q].session = s
                       THEN overlapped \cup {s} ELSE overlapped

-----------------------------------------------------------------------------
Chat(p, s) ==
    /\ Arrive(p, s)
    /\ Becomes(p, Load(s))
    /\ UNCHANGED <<redisVars, chat, call, clientVars, saved, faults>>

(* ApplyConfirmation: GET the pending record, SET the approved arguments,   *)
(* DEL the record.  An error is logged and the turn goes on.                *)

Confirm(p, s, i) ==
    /\ Arrive(p, s)
    /\ i \in shown
    /\ confirmed' = confirmed \cup {i}
    /\ Becomes(p, IF i \in pending /\ record[i].session = s
                    THEN [at |-> "stage", session |-> s, action |-> i]
                    ELSE Load(s))
    /\ UNCHANGED <<redisVars, chat, call, shown, executed, saved, faults>>

(* Mutation: approvals pile up under the key (TypeOK).                      *)
StageApprovedBeside(p) ==
    /\ turn[p].at = "stage"
    /\ LET i == turn[p].action
       IN approved' = [approved EXCEPT ![<<record[i].session, record[i].tool>>] = @ \cup {i}]
    /\ turn' = [turn EXCEPT ![p].at = "unpend"]
    /\ UNCHANGED <<record, pending, chat, call, clientVars, saved, countVars, faults>>

StageApproved(p) ==
    /\ turn[p].at = "stage"
    /\ LET i == turn[p].action
       IN approved' = [approved EXCEPT ![<<record[i].session, record[i].tool>>] = {i}]
    /\ turn' = [turn EXCEPT ![p].at = "unpend"]
    /\ UNCHANGED <<record, pending, chat, call, clientVars, saved, countVars, faults>>

(* Mutation: the record stays and can be confirmed again (ExecutedOnce).    *)
KeepPending(p) ==
    /\ turn[p].at = "unpend"
    /\ Becomes(p, Load(turn[p].session))
    /\ UNCHANGED <<redisVars, chat, call, clientVars, saved, countVars, faults>>

DropPending(p) ==
    /\ turn[p].at = "unpend"
    /\ pending' = pending \ {turn[p].action}
    /\ Becomes(p, Load(turn[p].session))
    /\ UNCHANGED <<record, approved, chat, call, clientVars, saved, countVars, faults>>

-----------------------------------------------------------------------------
(* The agent runs on the session as it was loaded.                          *)

LoadChatSession(p) ==
    /\ turn[p].at = "load"
    /\ LET s == turn[p].session
       IN Becomes(p, [at |-> "agent", session |-> s, loaded |-> chat[s], last |-> {}])
    /\ UNCHANGED <<redisVars, chat, call, clientVars, saved, countVars, faults>>

(* RegisterPending: the request's gate remembers its last action only.      *)
RegisterPending(p, t, a, i) ==
    /\ turn[p].at = "agent"
    /\ record[i] = NoRecord
    /\ record' = [record EXCEPT ![i] = [session |-> turn[p].session, tool |-> t, args |-> a]]
    /\ pending' = pending \cup {i}
    /\ turn' = [turn EXCEPT ![p].last = {i}]
    /\ UNCHANGED <<approved, chat, call, clientVars, saved, countVars>>

FindNothing(p, t, a, i) ==
    /\ RegisterPending(p, t, a, i)
    /\ approved[<<turn[p].session, t>>] = {}
    /\ UNCHANGED faults

(* TryConsumeApprovedArgs: GET, then DEL; the arguments replace the ones    *)
(* the model has given.                                                     *)

StartCall(p, c, t, a, i) ==
    LET s == turn[p].session
    IN /\ turn[p].at = "agent"
       /\ call[c] = Idle
       /\ i \in approved[<<s, t>>]
       /\ call' = [call EXCEPT ![c] = [at |-> "consume", turn |-> p, session |-> s, tool |-> t,
                                      args |-> a, action |-> i]]
       /\ overlapped' = IF \E d \in Calls : call[d] # Idle /\ call[d].turn = p
                          THEN overlapped \cup {s} ELSE overlapped
       /\ UNCHANGED <<redisVars, chat, turn, clientVars, saved, started, faults>>

(* Mutation: the model's own arguments are used (ConfirmedOnly).            *)
FindApprovedKeepArgs(p, c, t, i) == \E a \in Args : StartCall(p, c, t, a, i)

FindApproved(p, c, t, i) == StartCall(p, c, t, record[i].args, i)

ConsumeApproved(c) ==
    /\ call[c].at = "consume"
    /\ approved' = [approved EXCEPT ![<<call[c].session, call[c].tool>>] = {}]
    /\ call' = [call EXCEPT ![c].at = "call"]
    /\ UNCHANGED <<record, pending, chat, turn, clientVars, saved, countVars, faults>>

Execute(c) ==
    executed' = [executed EXCEPT ![call[c].action] =
                   Append(@, [tool |-> call[c].tool, args |-> call[c].args])]

CallService(c) ==
    /\ call[c].at = "call"
    /\ Execute(c)
    /\ call' = [call EXCEPT ![c] = Idle]
    /\ UNCHANGED <<redisVars, chat, turn, shown, confirmed, saved, countVars, faults>>

(* An error from the service, which may have done its part; the error of a  *)
(* tool ends the agent's run.                                               *)
CallFails(c) ==
    /\ call[c].at = "call"
    /\ Execute(c) \/ UNCHANGED executed
    /\ call' = [call EXCEPT ![c] = Idle]
    /\ turn' = [turn EXCEPT ![call[c].turn].at = "failed"]
    /\ UNCHANGED <<redisVars, chat, shown, confirmed, saved, countVars, faults>>

NoCall(p) == \A c \in Calls : call[c] # Idle => call[c].turn # p

-----------------------------------------------------------------------------
(* The reply: the last pending action is shown, and the session is written  *)
(* as a whole.  A stream that fails midway replies with what it has.        *)

(* Mutation: only the new exchange is written (HistoryComplete).            *)
ReplyAlone(p) ==
    /\ turn[p].at \in {"agent", "failed"} /\ NoCall(p)
    /\ LET s == turn[p].session
       IN /\ chat' = [chat EXCEPT ![s] = 1]
          /\ saved' = [saved EXCEPT ![s] = @ + 1]
    /\ shown' = shown \cup turn[p].last
    /\ Becomes(p, Idle)
    /\ UNCHANGED <<redisVars, call, confirmed, executed, countVars, faults>>

Reply(p) ==
    /\ turn[p].at \in {"agent", "failed"} /\ NoCall(p)
    /\ LET s == turn[p].session
       IN /\ chat' = [chat EXCEPT ![s] = turn[p].loaded + 1]
          /\ saved' = [saved EXCEPT ![s] = @ + 1]
    /\ shown' = shown \cup turn[p].last
    /\ Becomes(p, Idle)
    /\ UNCHANGED <<redisVars, call, confirmed, executed, countVars, faults>>

(* There is no model, or it fails or times out: an apology, nothing saved.  *)
(* A stream that fails before its first word still shows the last pending   *)
(* action.                                                                  *)
AgentFails(p) ==
    /\ turn[p].at \in {"load", "agent", "failed"} /\ NoCall(p)
    /\ \/ UNCHANGED shown
       \/ turn[p].at # "load" /\ shown' = shown \cup turn[p].last
    /\ Becomes(p, Idle)
    /\ UNCHANGED <<redisVars, chat, call, confirmed, executed, saved, countVars, faults>>

-----------------------------------------------------------------------------
(* TTLs, and faults.                                                        *)

ExpirePending(i) ==
    /\ i \in pending
    /\ pending' = pending \ {i}
    /\ UNCHANGED <<record, approved, chat, call, turn, clientVars, saved, countVars, faults>>

ExpireApproved(s, t) ==
    /\ approved[<<s, t>>] # {}
    /\ approved' = [approved EXCEPT ![<<s, t>>] = {}]
    /\ UNCHANGED <<record, pending, chat, call, turn, clientVars, saved, countVars, faults>>

Fault == faults < MaxFaults /\ faults' = faults + 1

Crash(p) ==
    /\ Fault
    /\ turn[p] # Idle
    /\ Becomes(p, Idle)
    /\ call' = [c \in Calls |-> IF call[c] # Idle /\ call[c].turn = p THEN Idle ELSE call[c]]
    /\ UNCHANGED <<redisVars, chat, clientVars, saved, countVars>>

(* A confirmation whose SET fails is logged and dropped; an action that     *)
(* cannot be registered ends the agent's run.                               *)
SetFails(p) ==
    /\ Fault
    /\ \/ turn[p].at = "stage" /\ Becomes(p, Load(turn[p].session))
       \/ turn[p].at = "agent" /\ turn' = [turn EXCEPT ![p].at = "failed"]
    /\ UNCHANGED <<redisVars, chat, call, clientVars, saved, countVars>>

(* The error of either DEL is ignored.                                      *)
DelPendingFails(p) ==
    /\ Fault
    /\ turn[p].at = "unpend"
    /\ Becomes(p, Load(turn[p].session))
    /\ UNCHANGED <<redisVars, chat, call, clientVars, saved, countVars>>

DelApprovedFails(c) ==
    /\ Fault
    /\ call[c].at = "consume"
    /\ call' = [call EXCEPT ![c].at = "call"]
    /\ UNCHANGED <<redisVars, chat, turn, clientVars, saved, countVars>>

(* A GET that fails is taken for a missing key.                             *)
GetFails(p, t, a, i) ==
    /\ Fault
    /\ RegisterPending(p, t, a, i)

(* A session that cannot be loaded is taken for a new one.                  *)
LoadFails(p) ==
    /\ Fault
    /\ turn[p].at = "load"
    /\ Becomes(p, [at |-> "agent", session |-> turn[p].session, loaded |-> 0, last |-> {}])
    /\ UNCHANGED <<redisVars, chat, call, clientVars, saved, countVars>>

(* The error of the save is logged.                                         *)
SaveFails(p) ==
    /\ Fault
    /\ turn[p].at \in {"agent", "failed"} /\ NoCall(p)
    /\ shown' = shown \cup turn[p].last
    /\ Becomes(p, Idle)
    /\ UNCHANGED <<redisVars, chat, call, confirmed, executed, saved, countVars>>

-----------------------------------------------------------------------------
Step(p) ==
    \/ StageApproved(p) \/ DropPending(p) \/ LoadChatSession(p)
    \/ Reply(p) \/ AgentFails(p)
    \/ \E c \in Calls, t \in Tools, i \in Actions : FindApproved(p, c, t, i)
    \/ \E t \in Tools, a \in Args, i \in Actions : FindNothing(p, t, a, i)

CallStep(c) == ConsumeApproved(c) \/ CallService(c) \/ CallFails(c) \/ DelApprovedFails(c)

Request(p) ==
    \E s \in Sessions : Chat(p, s) \/ \E i \in Actions : Confirm(p, s, i)

Failure(p) ==
    \/ Crash(p) \/ SetFails(p) \/ DelPendingFails(p) \/ LoadFails(p) \/ SaveFails(p)
    \/ \E t \in Tools, a \in Args, i \in Actions : GetFails(p, t, a, i)

Expiry ==
    \/ \E i \in Actions : ExpirePending(i)
    \/ \E s \in Sessions, t \in Tools : ExpireApproved(s, t)

Next ==
    \/ \E p \in Turns : Request(p) \/ Step(p) \/ Failure(p)
    \/ \E c \in Calls : CallStep(c)
    \/ Expiry

Spec == Init /\ [][Next]_vars

-----------------------------------------------------------------------------
(* Properties.                                                              *)

(* The types of the keys, the documents and the turns.                      *)
TypeOK ==
    /\ record \in [Actions -> Record \cup {NoRecord}]
    /\ pending \subseteq Actions
    /\ approved \in [Sessions \X Tools -> Approved]
    /\ chat \in [Sessions -> Nat] /\ saved \in [Sessions -> Nat]
    /\ turn \in [Turns -> {Idle} \cup Staging \cup Loading \cup Thinking]
    /\ call \in [Calls -> {Idle} \cup Calling]
    /\ shown \subseteq Actions /\ confirmed \subseteq Actions
    /\ executed \in [Actions -> Seq(RPC)]
    /\ overlapped \subseteq Sessions
    /\ started \in 0 .. MaxTurns /\ faults \in 0 .. MaxFaults

(* What the gate is for: an order, payment or cancellation is made only     *)
(* with the tool and arguments the client was shown and has confirmed,      *)
(* whatever the model asks for, and however turns overlap and fail.         *)
ConfirmedOnly ==
    \A i \in Actions : \A k \in DOMAIN executed[i] :
        i \in confirmed /\ executed[i][k] = [tool |-> record[i].tool, args |-> record[i].args]

(* As long as the turns of the session, and the confirmed calls of a turn,  *)
(* come one after the other and no command fails, an action is carried out  *)
(* at most once, however often its confirmation is sent.                    *)
ExecutedOnce ==
    faults = 0 =>
        \A i \in Actions :
            record[i] # NoRecord /\ record[i].session \notin overlapped => Len(executed[i]) <= 1

(* Under the same conditions no exchange of a session is lost.              *)
HistoryComplete ==
    faults = 0 => \A s \in Sessions : s \in overlapped \/ chat[s] = saved[s]
=============================================================================
