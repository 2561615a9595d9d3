--------------------------- MODULE AssistantProofs ---------------------------
(***************************************************************************)
(* The gate's promise, for every number of turns, calls, sessions, tools    *)
(* and actions, under all overlaps and faults.                              *)
(*                                                                          *)
(* ConfirmedOnly is not inductive: the arguments of an RPC come from a      *)
(* call, the call has them from an approval, the approval from a record.    *)
(* Inv follows that chain: each link stands for a registered action the     *)
(* client has confirmed, and a registered record is never written again.    *)
(***************************************************************************)
EXTENDS Assistant, TLAPS

Registered(i) == record[i] \in Record

Turn == {Idle} \cup Staging \cup Loading \cup Thinking
Call == {Idle} \cup Calling

(* A staged confirmation stands for a confirmed action; a turn remembers    *)
(* registered actions.                                                      *)
GoodTurn(v) ==
    /\ v \in Staging => v.action \in confirmed /\ record[v.action].session = v.session
    /\ v \in Thinking => \A i \in v.last : Registered(i)

(* A call with stored arguments stands for a confirmed action.              *)
GoodCall(v) ==
    v \in Calling =>
        /\ v.action \in confirmed
        /\ v.tool = record[v.action].tool /\ v.args = record[v.action].args

(* A call belongs to a turn whose agent runs.                               *)
Attached == \A c \in Calls : call[c] \in Calling => turn[call[c].turn] \in Thinking

GoodApproval(s, t, i) ==
    i \in confirmed /\ record[i].session = s /\ record[i].tool = t

Inv ==
    /\ TypeOK
    /\ \A p \in Turns : GoodTurn(turn[p])
    /\ \A c \in Calls : GoodCall(call[c])
    /\ Attached
    /\ \A s \in Sessions, t \in Tools : \A i \in approved[<<s, t>>] : GoodApproval(s, t, i)
    /\ \A i \in pending \cup shown \cup confirmed : Registered(i)
    /\ ConfirmedOnly

(* Registered records stay, and the client takes nothing back.              *)
Grows ==
    /\ \A i \in Actions : Registered(i) => record'[i] = record[i]
    /\ confirmed \subseteq confirmed'

LEMMA NoRecordIsNone == NoRecord \notin Record
BY DEF NoRecord, Record

LEMMA IdleIsPlain ==
    Idle \notin Staging /\ Idle \notin Loading /\ Idle \notin Thinking /\ Idle \notin Calling
BY DEF Idle, Staging, Loading, Thinking, Calling

LEMMA InitInv == Init => Inv
<1> SUFFICES ASSUME Init PROVE Inv
  OBVIOUS
<1>1. TypeOK
  BY AssistantConstants DEF Init, TypeOK, Approved
<1>2. \A p \in Turns : GoodTurn(turn[p])
  BY IdleIsPlain DEF Init, GoodTurn
<1>3. (\A c \in Calls : GoodCall(call[c])) /\ Attached
  BY IdleIsPlain DEF Init, GoodCall, Attached
<1>4. ConfirmedOnly
  BY DEF Init, ConfirmedOnly
<1> QED
  BY <1>1, <1>2, <1>3, <1>4 DEF Init, Inv

-----------------------------------------------------------------------------
(* What growth of the records and confirmations cannot undo.                *)

LEMMA GoodTurnStays ==
    ASSUME Inv, Grows, NEW v \in Turn, GoodTurn(v) PROVE GoodTurn(v)'
<1>1. \A i \in confirmed : Registered(i) /\ record'[i] = record[i] /\ i \in confirmed'
  BY DEF Inv, TypeOK, Grows
<1>2. \A i \in Actions : Registered(i) => Registered(i)'
  BY DEF Grows, Registered
<1>3. v \in Staging => v.action \in confirmed' /\ record'[v.action].session = v.session
  BY <1>1 DEF GoodTurn
<1>4. v \in Thinking => \A i \in v.last : i \in Actions /\ Registered(i)
  BY DEF GoodTurn, Thinking
<1> QED
  BY <1>2, <1>3, <1>4 DEF GoodTurn

LEMMA GoodCallStays ==
    ASSUME Inv, Grows, NEW v \in Call, GoodCall(v) PROVE GoodCall(v)'
<1>1. \A i \in confirmed : record'[i] = record[i] /\ i \in confirmed'
  BY DEF Inv, TypeOK, Grows
<1> QED
  BY <1>1 DEF GoodCall

LEMMA PromisesStay ==
    ASSUME Inv, Grows
    PROVE  /\ \A s \in Sessions, t \in Tools : \A i \in approved[<<s, t>>] :
                  GoodApproval(s, t, i)'
           /\ executed' = executed => ConfirmedOnly'
           /\ \A i \in pending \cup shown \cup confirmed : Registered(i)'
<1>1. \A i \in confirmed : record'[i] = record[i] /\ i \in confirmed'
  BY DEF Inv, TypeOK, Grows
<1>2. \A s \in Sessions, t \in Tools : \A i \in approved[<<s, t>>] : GoodApproval(s, t, i)'
  BY <1>1 DEF Inv, GoodApproval
<1>3. executed' = executed => ConfirmedOnly'
  BY <1>1 DEF Inv, ConfirmedOnly
<1>4. \A i \in pending \cup shown \cup confirmed : Registered(i)'
  BY DEF Inv, TypeOK, Grows, Registered
<1> QED
  BY <1>2, <1>3, <1>4

(* Turns and calls that stay where they are.                                *)
LEMMA TurnsStay ==
    ASSUME Inv, Grows, UNCHANGED turn
    PROVE  turn' \in [Turns -> Turn] /\ \A q \in Turns : GoodTurn(turn[q])'
<1>1. turn \in [Turns -> Turn]
  BY DEF Inv, TypeOK, Turn
<1>2. ASSUME NEW q \in Turns PROVE GoodTurn(turn[q])'
  <2>1. PICK w \in Turn : w = turn[q] /\ GoodTurn(w)
    BY <1>1 DEF Inv
  <2>2. GoodTurn(w)'
    BY <2>1, GoodTurnStays
  <2> QED
    BY <2>1, <2>2 DEF GoodTurn
<1> QED
  BY <1>1, <1>2

LEMMA CallsStay ==
    ASSUME Inv, Grows, UNCHANGED call
    PROVE  call' \in [Calls -> Call] /\ \A d \in Calls : GoodCall(call[d])'
<1>1. call \in [Calls -> Call]
  BY DEF Inv, TypeOK, Call
<1>2. ASSUME NEW d \in Calls PROVE GoodCall(call[d])'
  <2>1. PICK w \in Call : w = call[d] /\ GoodCall(w)
    BY <1>1 DEF Inv
  <2>2. GoodCall(w)'
    BY <2>1, GoodCallStays
  <2> QED
    BY <2>1, <2>2 DEF GoodCall
<1> QED
  BY <1>1, <1>2

(* One turn moves.                                                          *)
LEMMA TurnMoves ==
    ASSUME Inv, Grows, NEW p \in Turns, NEW v \in Turn, GoodTurn(v)',
           turn' = [turn EXCEPT ![p] = v]
    PROVE  turn' \in [Turns -> Turn] /\ \A q \in Turns : GoodTurn(turn[q])'
<1>1. turn \in [Turns -> Turn]
  BY DEF Inv, TypeOK, Turn
<1>2. ASSUME NEW q \in Turns PROVE GoodTurn(turn[q])'
  <2>1. PICK w \in Turn : w = turn[q] /\ GoodTurn(w)
    BY <1>1 DEF Inv
  <2>2. GoodTurn(w)'
    BY <2>1, GoodTurnStays
  <2>3. turn'[q] = v \/ turn'[q] = w
    BY <1>1, <2>1
  <2> QED
    BY <2>2, <2>3 DEF GoodTurn
<1> QED
  BY <1>1, <1>2

(* A turn may leave its agent only when it has no call in flight.           *)
LEMMA AttachedStays ==
    ASSUME Inv, NEW p \in Turns, NEW v \in Turn, turn' = [turn EXCEPT ![p] = v],
           UNCHANGED call,
           turn[p] \notin Thinking \/ v \in Thinking \/ NoCall(p)
    PROVE  Attached'
<1> SUFFICES ASSUME NEW c \in Calls, call[c] \in Calling
             PROVE  turn'[call[c].turn] \in Thinking
  BY DEF Attached
<1>1. call[c] # Idle /\ call[c].turn \in Turns /\ turn[call[c].turn] \in Thinking
  BY IdleIsPlain DEF Inv, Attached, Calling
<1>2. CASE call[c].turn = p
  <2>1. v \in Thinking
    BY <1>1, <1>2 DEF NoCall
  <2> QED
    BY <1>2, <2>1 DEF Inv, TypeOK
<1>3. CASE call[c].turn # p
  BY <1>1, <1>3 DEF Inv, TypeOK
<1> QED
  BY <1>2, <1>3

(* One call moves.                                                          *)
LEMMA CallMoves ==
    ASSUME Inv, Grows, NEW c \in Calls, NEW v \in Call, GoodCall(v),
           call' = [call EXCEPT ![c] = v]
    PROVE  call' \in [Calls -> Call] /\ \A d \in Calls : GoodCall(call[d])'
<1>1. call \in [Calls -> Call]
  BY DEF Inv, TypeOK, Call
<1>2. ASSUME NEW d \in Calls PROVE GoodCall(call[d])'
  <2>1. PICK w \in Call : w = call[d] /\ GoodCall(w)
    BY <1>1 DEF Inv
  <2>2. GoodCall(w)' /\ GoodCall(v)'
    BY <2>1, GoodCallStays
  <2>3. call'[d] = v \/ call'[d] = w
    BY <1>1, <2>1
  <2> QED
    BY <2>2, <2>3 DEF GoodCall
<1> QED
  BY <1>1, <1>2

(* A step that makes no record, confirms nothing, and at most takes keys    *)
(* away and shows registered actions.                                       *)
LEMMA QuietStep ==
    ASSUME Inv, UNCHANGED <<record, confirmed>>,
           turn' \in [Turns -> Turn], \A q \in Turns : GoodTurn(turn[q])',
           call' \in [Calls -> Call], \A d \in Calls : GoodCall(call[d])',
           Attached',
           pending' \subseteq pending,
           approved' \in [Sessions \X Tools -> Approved],
           \A k \in Sessions \X Tools : approved'[k] \subseteq approved[k],
           shown' \subseteq Actions, \A i \in shown' : Registered(i),
           executed' \in [Actions -> Seq(RPC)], ConfirmedOnly',
           chat' \in [Sessions -> Nat], saved' \in [Sessions -> Nat],
           overlapped' \subseteq Sessions,
           started' \in 0 .. MaxTurns, faults' \in 0 .. MaxFaults
    PROVE  Inv'
<1>1. TypeOK'
  BY DEF Inv, TypeOK, Turn, Call
<1>2. \A s \in Sessions, t \in Tools : \A i \in approved'[<<s, t>>] : GoodApproval(s, t, i)'
  BY DEF Inv, GoodApproval
<1>3. \A i \in pending' \cup shown' \cup confirmed' : Registered(i)'
  BY DEF Inv, Registered
<1> QED
  BY <1>1, <1>2, <1>3 DEF Inv

(* Such a step of one turn, without an RPC.                                 *)
LEMMA QuietTurn ==
    ASSUME Inv, UNCHANGED <<record, confirmed, executed, call>>,
           NEW p \in Turns, NEW v \in Turn, GoodTurn(v), turn' = [turn EXCEPT ![p] = v],
           turn[p] \notin Thinking \/ v \in Thinking \/ NoCall(p),
           pending' \subseteq pending, approved' = approved,
           shown' \subseteq Actions, \A i \in shown' : Registered(i),
           chat' \in [Sessions -> Nat], saved' \in [Sessions -> Nat],
           overlapped' \subseteq Sessions,
           started' \in 0 .. MaxTurns, faults' \in 0 .. MaxFaults
    PROVE  Inv'
<1>1. Grows
  BY DEF Grows
<1>2. GoodTurn(v)'
  BY <1>1, GoodTurnStays
<1>3. turn' \in [Turns -> Turn] /\ \A q \in Turns : GoodTurn(turn[q])'
  BY <1>1, <1>2, TurnMoves
<1>4. call' \in [Calls -> Call] /\ \A d \in Calls : GoodCall(call[d])'
  BY <1>1, CallsStay
<1>5. Attached'
  BY AttachedStays
<1>6. executed' \in [Actions -> Seq(RPC)] /\ ConfirmedOnly'
  BY <1>1, PromisesStay DEF Inv, TypeOK
<1>7. approved' \in [Sessions \X Tools -> Approved]
        /\ \A k \in Sessions \X Tools : approved'[k] \subseteq approved[k]
  BY DEF Inv, TypeOK
<1> QED
  BY <1>3, <1>4, <1>5, <1>6, <1>7, QuietStep

(* A turn without an action has nothing to promise.                         *)
LEMMA PlainTurns ==
    /\ Idle \in Turn /\ GoodTurn(Idle)
    /\ \A s \in Sessions : Load(s) \in Turn /\ GoodTurn(Load(s))
    /\ \A s \in Sessions, n \in Nat :
         LET v == [at |-> "agent", session |-> s, loaded |-> n, last |-> {}]
         IN v \in Turn /\ GoodTurn(v)
BY DEF Turn, GoodTurn, Idle, Load, Staging, Loading, Thinking

(* Where a turn or a call is says what it carries.                          *)
LEMMA Places ==
    ASSUME Inv, NEW p \in Turns
    PROVE  /\ turn[p] \in Turn /\ GoodTurn(turn[p])
           /\ turn[p].at \in {"stage", "unpend"} => turn[p] \in Staging
           /\ turn[p].at = "load" => turn[p] \in Loading
           /\ turn[p].at \in {"agent", "failed"} => turn[p] \in Thinking
BY DEF Inv, TypeOK, Turn, Idle, Staging, Loading, Thinking

LEMMA CallPlaces ==
    ASSUME Inv, NEW c \in Calls
    PROVE  /\ call[c] \in Call /\ GoodCall(call[c])
           /\ call[c].at \in {"consume", "call"} =>
                /\ call[c] \in Calling /\ call[c].turn \in Turns
                /\ turn[call[c].turn] \in Thinking
BY DEF Inv, TypeOK, Call, Idle, Calling, Attached

LEMMA PlacesApart ==
    /\ \A v \in Staging : v \notin Thinking
    /\ \A v \in Loading : v \notin Thinking
BY DEF Staging, Loading, Thinking

(* A turn goes on with what it carries.                                     *)
LEMMA StagingGoesOn ==
    ASSUME Inv, NEW v \in Staging, GoodTurn(v)
    PROVE  [v EXCEPT !.at = "unpend"] \in Turn /\ GoodTurn([v EXCEPT !.at = "unpend"])
<1>1. PICK w : w = [v EXCEPT !.at = "unpend"]
  OBVIOUS
<1>2. w \in Staging /\ w.action = v.action /\ w.session = v.session
  BY <1>1 DEF Staging
<1>3. w \notin Thinking
  BY <1>2, PlacesApart
<1> QED
  BY <1>1, <1>2, <1>3 DEF Turn, GoodTurn

LEMMA AgentFailsOn ==
    ASSUME Inv, NEW v \in Thinking, GoodTurn(v), NEW w, w = [v EXCEPT !.at = "failed"]
    PROVE  w \in Turn /\ w \in Thinking /\ GoodTurn(w)
<1>1. w \in Thinking /\ w.last = v.last
  BY DEF Thinking
<1> QED
  BY <1>1, PlacesApart DEF Turn, GoodTurn

LEMMA CallGoesOn ==
    ASSUME Inv, NEW v \in Calling, GoodCall(v), NEW w, w = [v EXCEPT !.at = "call"]
    PROVE  w \in Call /\ w \in Calling /\ w.turn = v.turn /\ GoodCall(w)
<1>1. w \in Calling /\ w.action = v.action /\ w.tool = v.tool /\ w.args = v.args
        /\ w.turn = v.turn
  BY DEF Calling
<1> QED
  BY <1>1 DEF Call, GoodCall

-----------------------------------------------------------------------------
(* The actions of a turn.                                                   *)

LEMMA ArriveTypes ==
    ASSUME Inv, NEW p \in Turns, NEW s \in Sessions, Arrive(p, s)
    PROVE  /\ overlapped' \subseteq Sessions /\ started' \in 0 .. MaxTurns
           /\ turn[p] \notin Thinking
BY AssistantConstants, IdleIsPlain DEF Arrive, Inv, TypeOK

LEMMA ChatInv ==
    ASSUME Inv, NEW p \in Turns, NEW s \in Sessions, Chat(p, s) PROVE Inv'
<1>1. PICK v \in Turn : v = Load(s) /\ GoodTurn(v)
  BY PlainTurns
<1>2. turn' = [turn EXCEPT ![p] = v]
  BY <1>1 DEF Chat, Becomes
<1>3. overlapped' \subseteq Sessions /\ started' \in 0 .. MaxTurns /\ turn[p] \notin Thinking
  BY ArriveTypes DEF Chat
<1> QED
  BY <1>1, <1>2, <1>3, QuietTurn
  DEF Chat, Inv, TypeOK, redisVars, clientVars

(* The turns that end, with a reply or without.                             *)
LEMMA EndInv ==
    ASSUME Inv, NEW p \in Turns, AgentFails(p) \/ Reply(p) \/ SaveFails(p)
    PROVE  Inv'
<1>1. PICK v \in Turn : v = Idle /\ GoodTurn(v)
  BY PlainTurns
<1>2. turn' = [turn EXCEPT ![p] = v] /\ NoCall(p)
  BY <1>1 DEF AgentFails, Reply, SaveFails, Becomes
<1>3. turn[p].at \in {"agent", "failed"} =>
        /\ turn[p].loaded \in Nat /\ turn[p].session \in Sessions
        /\ turn[p].last \subseteq Actions /\ \A i \in turn[p].last : Registered(i)
  BY Places DEF GoodTurn, Thinking
<1>4. shown' \subseteq Actions /\ \A i \in shown' : Registered(i)
  BY <1>3 DEF AgentFails, Reply, SaveFails, Inv, TypeOK
<1>5. chat' \in [Sessions -> Nat] /\ saved' \in [Sessions -> Nat]
  BY <1>3 DEF AgentFails, Reply, SaveFails, Inv, TypeOK
<1>6. faults' \in 0 .. MaxFaults
  BY AssistantConstants DEF AgentFails, Reply, SaveFails, Fault, Inv, TypeOK
<1>7. UNCHANGED <<redisVars, call, confirmed, executed, countVars>>
  BY DEF AgentFails, Reply, SaveFails
<1> QED
  BY <1>1, <1>2, <1>4, <1>5, <1>6, <1>7, QuietTurn DEF Inv, TypeOK, redisVars, countVars

LEMMA LoadInv ==
    ASSUME Inv, NEW p \in Turns, LoadChatSession(p) \/ LoadFails(p) PROVE Inv'
<1>1. turn[p] \in Loading /\ turn[p] \notin Thinking
  BY Places, PlacesApart DEF LoadChatSession, LoadFails
<1>2. PICK s \in Sessions : turn[p].session = s
  BY <1>1 DEF Loading
<1>3. PICK n \in Nat :
        turn' = [turn EXCEPT ![p] = [at |-> "agent", session |-> s, loaded |-> n, last |-> {}]]
  BY <1>2 DEF LoadChatSession, LoadFails, Becomes, Inv, TypeOK
<1>4. PICK v \in Turn : turn' = [turn EXCEPT ![p] = v] /\ GoodTurn(v)
  BY <1>3, PlainTurns
<1>5. faults' \in 0 .. MaxFaults
  BY AssistantConstants DEF LoadChatSession, LoadFails, Fault, Inv, TypeOK
<1> QED
  BY <1>1, <1>4, <1>5, QuietTurn
  DEF LoadChatSession, LoadFails, Inv, TypeOK, redisVars, clientVars, countVars

LEMMA DropInv ==
    ASSUME Inv, NEW p \in Turns, DropPending(p) \/ DelPendingFails(p) PROVE Inv'
<1>1. turn[p] \in Staging /\ turn[p] \notin Thinking
  BY Places, PlacesApart DEF DropPending, DelPendingFails
<1>2. PICK s \in Sessions : turn[p].session = s
  BY <1>1 DEF Staging
<1>3. PICK v \in Turn : v = Load(s) /\ GoodTurn(v)
  BY PlainTurns
<1>4. turn' = [turn EXCEPT ![p] = v]
  BY <1>2, <1>3 DEF DropPending, DelPendingFails, Becomes
<1>5. faults' \in 0 .. MaxFaults
  BY AssistantConstants DEF DropPending, DelPendingFails, Fault, Inv, TypeOK
<1> QED
  BY <1>1, <1>3, <1>4, <1>5, QuietTurn
  DEF DropPending, DelPendingFails, Inv, TypeOK, redisVars, clientVars, countVars

LEMMA SetFailsInv ==
    ASSUME Inv, NEW p \in Turns, SetFails(p) PROVE Inv'
<1>1. PICK v \in Turn : /\ turn' = [turn EXCEPT ![p] = v] /\ GoodTurn(v)
                        /\ turn[p] \notin Thinking \/ v \in Thinking
  <2>1. CASE turn[p].at = "stage" /\ Becomes(p, Load(turn[p].session))
    BY <2>1, Places, PlacesApart, PlainTurns DEF Becomes, Staging
  <2>2. CASE turn[p].at = "agent" /\ turn' = [turn EXCEPT ![p].at = "failed"]
    <3>1. PICK w \in Thinking : w = turn[p] /\ GoodTurn(w)
      BY <2>2, Places
    <3>2. turn' = [turn EXCEPT ![p] = [w EXCEPT !.at = "failed"]]
      BY <2>2, <3>1
    <3> QED
      BY <3>1, <3>2, AgentFailsOn
  <2> QED
    BY <2>1, <2>2 DEF SetFails
<1>2. faults' \in 0 .. MaxFaults
  BY AssistantConstants DEF SetFails, Fault, Inv, TypeOK
<1> QED
  BY <1>1, <1>2, QuietTurn
  DEF SetFails, Inv, TypeOK, redisVars, clientVars, countVars

(* A crash takes the calls of its turn with it.                             *)
LEMMA CrashInv ==
    ASSUME Inv, NEW p \in Turns, Crash(p) PROVE Inv'
<1>1. Grows
  BY DEF Crash, Grows, redisVars, clientVars
<1>2. PICK v \in Turn : v = Idle /\ GoodTurn(v) /\ turn' = [turn EXCEPT ![p] = v]
  BY PlainTurns DEF Crash, Becomes
<1>3. turn' \in [Turns -> Turn] /\ \A q \in Turns : GoodTurn(turn[q])'
  BY <1>1, <1>2, GoodTurnStays, TurnMoves
<1>4. call \in [Calls -> Call]
  BY DEF Inv, TypeOK, Call
<1>5. call' \in [Calls -> Call]
  BY <1>4 DEF Crash, Call
<1>6. ASSUME NEW d \in Calls PROVE GoodCall(call[d])'
  <2>1. PICK w \in Call : w = call[d] /\ GoodCall(w)
    BY <1>4 DEF Inv
  <2>2. GoodCall(w)'
    BY <1>1, <2>1, GoodCallStays
  <2>3. call'[d] = Idle \/ call'[d] = w
    BY <2>1 DEF Crash
  <2> QED
    BY <2>2, <2>3, IdleIsPlain DEF GoodCall
<1>7. ASSUME NEW d \in Calls, call'[d] \in Calling PROVE turn'[call'[d].turn] \in Thinking
  <2>1. call'[d] = call[d] /\ call[d].turn # p
    BY <1>7, IdleIsPlain DEF Crash
  <2>2. call[d].turn \in Turns /\ turn[call[d].turn] \in Thinking
    BY <1>7, <2>1 DEF Inv, Attached, Calling
  <2> QED
    BY <1>2, <2>1, <2>2 DEF Inv, TypeOK
<1>8. executed' \in [Actions -> Seq(RPC)] /\ ConfirmedOnly'
  BY <1>1, PromisesStay DEF Crash, clientVars, Inv, TypeOK
<1>9. faults' \in 0 .. MaxFaults
  BY AssistantConstants DEF Crash, Fault, Inv, TypeOK
<1>10. Attached'
  BY <1>7 DEF Attached
<1> QED
  BY <1>3, <1>5, <1>6, <1>8, <1>9, <1>10, QuietStep
  DEF Crash, Inv, TypeOK, redisVars, clientVars, countVars

LEMMA ConfirmInv ==
    ASSUME Inv, NEW p \in Turns, NEW s \in Sessions, NEW i \in Actions, Confirm(p, s, i)
    PROVE  Inv'
<1>1. Grows
  BY DEF Confirm, Grows, redisVars
<1>2. PICK v \in Turn : turn' = [turn EXCEPT ![p] = v] /\ GoodTurn(v)'
  <2>1. CASE i \in pending /\ record[i].session = s
    <3>1. PICK v : v = [at |-> "stage", session |-> s, action |-> i]
      OBVIOUS
    <3>2. v \in Staging /\ v.action = i /\ v.session = s
      BY <3>1 DEF Staging
    <3>3. v \notin Thinking
      BY <3>2, PlacesApart
    <3>4. i \in confirmed' /\ record'[i].session = s
      BY <2>1 DEF Confirm, redisVars
    <3>5. v \in Turn /\ GoodTurn(v)'
      BY <3>2, <3>3, <3>4 DEF Turn, GoodTurn
    <3> QED
      BY <2>1, <3>1, <3>5 DEF Confirm, Becomes
  <2>2. CASE ~(i \in pending /\ record[i].session = s)
    <3>1. PICK v \in Turn : v = Load(s) /\ GoodTurn(v)
      BY PlainTurns
    <3>2. turn' = [turn EXCEPT ![p] = v]
      BY <2>2, <3>1 DEF Confirm, Becomes
    <3> QED
      BY <1>1, <3>1, <3>2, GoodTurnStays
  <2> QED
    BY <2>1, <2>2
<1>3. turn' \in [Turns -> Turn] /\ \A q \in Turns : GoodTurn(turn[q])'
  BY <1>1, <1>2, TurnMoves
<1>4. overlapped' \subseteq Sessions /\ started' \in 0 .. MaxTurns /\ turn[p] \notin Thinking
  BY ArriveTypes DEF Confirm
<1>5. UNCHANGED call
  BY DEF Confirm
<1>6. (\A d \in Calls : GoodCall(call[d])') /\ Attached'
  BY <1>1, <1>2, <1>4, <1>5, CallsStay, AttachedStays
<1>7. TypeOK'
  BY <1>3, <1>4 DEF Confirm, Inv, TypeOK, Turn, redisVars
<1>8. \A s1 \in Sessions, t1 \in Tools : \A i1 \in approved'[<<s1, t1>>] :
          GoodApproval(s1, t1, i1)'
  BY <1>1, PromisesStay DEF Confirm, redisVars
<1>9. \A i1 \in pending' \cup shown' \cup confirmed' : Registered(i1)'
  BY <1>1, PromisesStay DEF Confirm, redisVars
<1>10. ConfirmedOnly'
  BY <1>1, PromisesStay DEF Confirm
<1> QED
  BY <1>3, <1>6, <1>7, <1>8, <1>9, <1>10 DEF Inv

LEMMA StageInv ==
    ASSUME Inv, NEW p \in Turns, StageApproved(p) PROVE Inv'
<1>1. PICK w \in Staging : w = turn[p] /\ GoodTurn(w)
  BY Places DEF StageApproved
<1>2. PICK i \in Actions : i = w.action /\ i \in confirmed /\ record[i] \in Record
  BY <1>1 DEF Inv, GoodTurn, Staging, Registered
<1>3. Grows
  BY DEF StageApproved, Grows, clientVars
<1>4. PICK v \in Turn : turn' = [turn EXCEPT ![p] = v] /\ GoodTurn(v)
  <2>1. turn' = [turn EXCEPT ![p] = [w EXCEPT !.at = "unpend"]]
    BY <1>1 DEF StageApproved
  <2> QED
    BY <1>1, <2>1, StagingGoesOn
<1>5. turn' \in [Turns -> Turn] /\ \A q \in Turns : GoodTurn(turn[q])'
  BY <1>3, <1>4, GoodTurnStays, TurnMoves
<1>6. UNCHANGED call /\ turn[p] \notin Thinking
  BY <1>1, PlacesApart DEF StageApproved
<1>7. (\A d \in Calls : GoodCall(call[d])') /\ Attached'
  BY <1>3, <1>4, <1>6, CallsStay, AttachedStays
<1>8. PICK s \in Sessions, t \in Tools : s = record[i].session /\ t = record[i].tool
  BY <1>2 DEF Record
<1>9. approved' = [approved EXCEPT ![<<s, t>>] = {i}]
  BY <1>1, <1>2, <1>8 DEF StageApproved
<1>10. approved' \in [Sessions \X Tools -> Approved]
  BY <1>9 DEF Inv, TypeOK, Approved
<1>11. TypeOK'
  BY <1>5, <1>10 DEF StageApproved, Inv, TypeOK, Turn, clientVars, countVars
<1>12. ASSUME NEW s1 \in Sessions, NEW t1 \in Tools, NEW i1 \in approved'[<<s1, t1>>]
       PROVE  GoodApproval(s1, t1, i1)'
  <2>1. CASE s1 = s /\ t1 = t
    <3>1. i1 = i
      BY <1>9, <1>12, <2>1 DEF Inv, TypeOK
    <3> QED
      BY <1>2, <1>8, <2>1, <3>1 DEF GoodApproval, StageApproved, clientVars
  <2>2. CASE ~(s1 = s /\ t1 = t)
    <3>1. i1 \in approved[<<s1, t1>>]
      BY <1>9, <1>12, <2>2 DEF Inv, TypeOK
    <3> QED
      BY <1>3, <3>1, PromisesStay
  <2> QED
    BY <2>1, <2>2
<1>13. \A i1 \in pending' \cup shown' \cup confirmed' : Registered(i1)'
  BY <1>3, PromisesStay DEF StageApproved, clientVars
<1>14. ConfirmedOnly'
  BY <1>3, PromisesStay DEF StageApproved, clientVars
<1> QED
  BY <1>5, <1>7, <1>11, <1>12, <1>13, <1>14 DEF Inv

LEMMA RegisterInv ==
    ASSUME Inv, NEW p \in Turns, NEW t \in Tools, NEW a \in Args, NEW i \in Actions,
           RegisterPending(p, t, a, i), faults' \in 0 .. MaxFaults
    PROVE  Inv'
<1>1. PICK w \in Thinking : w = turn[p] /\ GoodTurn(w)
  BY Places DEF RegisterPending
<1>2. PICK r \in Record : record' = [record EXCEPT ![i] = r]
  BY <1>1 DEF RegisterPending, Thinking, Record
<1>3. Grows
  BY <1>2, NoRecordIsNone DEF RegisterPending, Grows, Registered, clientVars, Inv, TypeOK
<1>4. Registered(i)'
  BY <1>2 DEF Registered, Inv, TypeOK
<1>5. PICK v \in Turn : /\ turn' = [turn EXCEPT ![p] = v]
                        /\ GoodTurn(v)' /\ v \in Thinking
  <2>1. PICK v : v = [w EXCEPT !.last = {i}]
    OBVIOUS
  <2>2. v \in Thinking /\ v.last = {i}
    BY <2>1 DEF Thinking
  <2>3. turn' = [turn EXCEPT ![p] = v]
    BY <1>1, <2>1 DEF RegisterPending
  <2> QED
    BY <1>4, <2>2, <2>3, PlacesApart DEF Turn, GoodTurn
<1>6. turn' \in [Turns -> Turn] /\ \A q \in Turns : GoodTurn(turn[q])'
  BY <1>3, <1>5, TurnMoves
<1>7. UNCHANGED call
  BY DEF RegisterPending
<1>8. (\A d \in Calls : GoodCall(call[d])') /\ Attached'
  BY <1>3, <1>5, <1>7, CallsStay, AttachedStays
<1>9. TypeOK'
  BY <1>2, <1>6 DEF RegisterPending, Inv, TypeOK, Turn, clientVars, countVars
<1>10. \A s1 \in Sessions, t1 \in Tools : \A i1 \in approved'[<<s1, t1>>] :
          GoodApproval(s1, t1, i1)'
  BY <1>3, PromisesStay DEF RegisterPending
<1>11. \A i1 \in pending' \cup shown' \cup confirmed' : Registered(i1)'
  BY <1>3, <1>4, PromisesStay DEF RegisterPending, clientVars
<1>12. ConfirmedOnly'
  BY <1>3, PromisesStay DEF RegisterPending, clientVars
<1> QED
  BY <1>6, <1>8, <1>9, <1>10, <1>11, <1>12 DEF Inv

-----------------------------------------------------------------------------
(* The steps of a call.                                                     *)

LEMMA FindApprovedInv ==
    ASSUME Inv, NEW p \in Turns, NEW c \in Calls, NEW t \in Tools, NEW i \in Actions,
           FindApproved(p, c, t, i)
    PROVE  Inv'
<1>1. Grows
  BY DEF FindApproved, StartCall, Grows, redisVars, clientVars
<1>2. PICK s \in Sessions : s = turn[p].session /\ turn[p] \in Thinking
  BY Places DEF FindApproved, StartCall, Thinking
<1>3. GoodApproval(s, t, i)
  BY <1>2 DEF Inv, FindApproved, StartCall
<1>4. i \in confirmed /\ record[i] \in Record /\ record[i].tool = t
  BY <1>3 DEF Inv, GoodApproval, Registered
<1>5. PICK v : v = [at |-> "consume", turn |-> p, session |-> s, tool |-> t,
                    args |-> record[i].args, action |-> i]
  OBVIOUS
<1>6. /\ v \in Calling /\ v.turn = p
      /\ v.action = i /\ v.tool = t /\ v.args = record[i].args
  BY <1>4, <1>5 DEF Calling, Record
<1>7. v \in Call /\ GoodCall(v)
  BY <1>4, <1>6 DEF Call, GoodCall
<1>8. call' = [call EXCEPT ![c] = v]
  BY <1>2, <1>5 DEF FindApproved, StartCall
<1>9. call' \in [Calls -> Call] /\ \A d \in Calls : GoodCall(call[d])'
  BY <1>1, <1>7, <1>8, CallMoves
<1>10. UNCHANGED turn /\ overlapped' \subseteq Sessions
  BY <1>2 DEF FindApproved, StartCall, Inv, TypeOK
<1>11. turn' \in [Turns -> Turn] /\ \A q \in Turns : GoodTurn(turn[q])'
  BY <1>1, <1>10, TurnsStay
<1>12. Attached'
  BY <1>2, <1>6, <1>8, <1>10 DEF Attached, Inv, TypeOK
<1>13. executed' \in [Actions -> Seq(RPC)] /\ ConfirmedOnly'
  BY <1>1, PromisesStay DEF FindApproved, StartCall, clientVars, Inv, TypeOK
<1> QED
  BY <1>9, <1>10, <1>11, <1>12, <1>13, QuietStep
  DEF FindApproved, StartCall, Inv, TypeOK, redisVars, clientVars

LEMMA ConsumeInv ==
    ASSUME Inv, NEW c \in Calls, ConsumeApproved(c) \/ DelApprovedFails(c) PROVE Inv'
<1>1. Grows
  BY DEF ConsumeApproved, DelApprovedFails, Grows, redisVars, clientVars
<1>2. PICK w \in Calling : w = call[c] /\ GoodCall(w) /\ turn[w.turn] \in Thinking
  BY CallPlaces DEF ConsumeApproved, DelApprovedFails
<1>3. PICK v : v = [w EXCEPT !.at = "call"]
  OBVIOUS
<1>4. v \in Call /\ v.turn = w.turn /\ GoodCall(v)
  BY <1>2, <1>3, CallGoesOn
<1>5. call' = [call EXCEPT ![c] = v]
  BY <1>2, <1>3 DEF ConsumeApproved, DelApprovedFails
<1>6. call' \in [Calls -> Call] /\ \A d \in Calls : GoodCall(call[d])'
  BY <1>1, <1>4, <1>5, CallMoves
<1>7. UNCHANGED turn
  BY DEF ConsumeApproved, DelApprovedFails
<1>8. turn' \in [Turns -> Turn] /\ \A q \in Turns : GoodTurn(turn[q])'
  BY <1>1, <1>7, TurnsStay
<1>9. Attached'
  BY <1>2, <1>4, <1>5, <1>7 DEF Attached, Inv, TypeOK
<1>10. approved' \in [Sessions \X Tools -> Approved]
         /\ \A k \in Sessions \X Tools : approved'[k] \subseteq approved[k]
  BY DEF ConsumeApproved, DelApprovedFails, redisVars, Inv, TypeOK, Approved
<1>11. executed' \in [Actions -> Seq(RPC)] /\ ConfirmedOnly'
  BY <1>1, PromisesStay DEF ConsumeApproved, DelApprovedFails, clientVars, Inv, TypeOK
<1>12. faults' \in 0 .. MaxFaults
  BY AssistantConstants DEF ConsumeApproved, DelApprovedFails, Fault, Inv, TypeOK
<1> QED
  BY <1>6, <1>8, <1>9, <1>10, <1>11, <1>12, QuietStep
  DEF ConsumeApproved, DelApprovedFails, Inv, TypeOK, redisVars, clientVars, countVars

(* The RPC of a call is the one that was confirmed.                         *)
LEMMA ExecuteConfirmed ==
    ASSUME Inv, NEW c \in Calls, call[c] \in Calling, Execute(c),
           UNCHANGED <<record, confirmed>>
    PROVE  executed' \in [Actions -> Seq(RPC)] /\ ConfirmedOnly'
<1>1. PICK i \in Actions, r \in RPC :
         /\ executed' = [executed EXCEPT ![i] = Append(@, r)]
         /\ i \in confirmed /\ r = [tool |-> record[i].tool, args |-> record[i].args]
  BY DEF Execute, Inv, GoodCall, Calling, RPC
<1>2. executed' \in [Actions -> Seq(RPC)]
  BY <1>1 DEF Inv, TypeOK
<1>3. ConfirmedOnly'
  <2>1. SUFFICES ASSUME NEW j \in Actions, NEW k \in DOMAIN executed'[j]
                 PROVE  j \in confirmed /\ executed'[j][k] =
                          [tool |-> record[j].tool, args |-> record[j].args]
    BY DEF ConfirmedOnly
  <2>2. CASE j = i
    <3>1. executed[i] \in Seq(RPC) /\ executed'[i] = Append(executed[i], r)
      BY <1>1 DEF Inv, TypeOK
    <3>2. CASE k \in DOMAIN executed[i]
      <4>1. executed'[j][k] = executed[i][k]
        BY <2>2, <3>1, <3>2
      <4> QED
        BY <2>2, <3>2, <4>1 DEF Inv, ConfirmedOnly
    <3>3. CASE k \notin DOMAIN executed[i]
      <4>1. executed'[j][k] = r
        BY <2>1, <2>2, <3>1, <3>3
      <4> QED
        BY <1>1, <2>2, <4>1
    <3> QED
      BY <3>2, <3>3
  <2>3. CASE j # i
    <3>1. executed'[j] = executed[j]
      BY <1>1, <2>3 DEF Inv, TypeOK
    <3> QED
      BY <2>1, <3>1 DEF Inv, ConfirmedOnly
  <2> QED
    BY <2>2, <2>3
<1> QED
  BY <1>2, <1>3

LEMMA CallEndInv ==
    ASSUME Inv, NEW c \in Calls, CallService(c) \/ CallFails(c) PROVE Inv'
<1>1. UNCHANGED <<record, confirmed>> /\ Grows
  BY DEF CallService, CallFails, Grows, redisVars
<1>2. PICK w \in Calling : w = call[c] /\ w.turn \in Turns /\ turn[w.turn] \in Thinking
  BY CallPlaces DEF CallService, CallFails
<1>3. PICK v \in Call : v = Idle /\ GoodCall(v) /\ v \notin Calling
  BY IdleIsPlain DEF Call, GoodCall
<1>4. call' = [call EXCEPT ![c] = v]
  BY <1>3 DEF CallService, CallFails
<1>5. call' \in [Calls -> Call] /\ \A d \in Calls : GoodCall(call[d])'
  BY <1>1, <1>3, <1>4, CallMoves
<1>6. PICK p \in Turns : p = w.turn
  BY <1>2
<1>7. PICK u \in Thinking : u = turn[p] /\ u \in Turn /\ GoodTurn(u)
  BY <1>2, <1>6, Places
<1>8. PICK x : x = [u EXCEPT !.at = "failed"]
  OBVIOUS
<1>9. x \in Turn /\ x \in Thinking /\ GoodTurn(x)
  BY <1>7, <1>8, AgentFailsOn
<1>10. UNCHANGED turn \/ turn' = [turn EXCEPT ![p] = x]
  BY <1>2, <1>6, <1>7, <1>8 DEF CallService, CallFails
<1>11. turn' \in [Turns -> Turn] /\ \A q \in Turns : GoodTurn(turn[q])'
  BY <1>1, <1>9, <1>10, GoodTurnStays, TurnsStay, TurnMoves
<1>12. \A q \in Turns : turn[q] \in Thinking => turn'[q] \in Thinking
  BY <1>9, <1>10 DEF Inv, TypeOK
<1>13. Attached'
  <2>1. SUFFICES ASSUME NEW d \in Calls, call'[d] \in Calling
                 PROVE  turn'[call'[d].turn] \in Thinking
    BY DEF Attached
  <2>2. call'[d] = call[d]
    BY <1>3, <1>4, <2>1 DEF Inv, TypeOK
  <2> QED
    BY <1>12, <2>1, <2>2 DEF Inv, Attached, Calling
<1>14. executed' \in [Actions -> Seq(RPC)] /\ ConfirmedOnly'
  <2>1. Execute(c) \/ UNCHANGED executed
    BY DEF CallService, CallFails
  <2> QED
    BY <1>1, <1>2, <2>1, ExecuteConfirmed, PromisesStay DEF Inv, TypeOK
<1> QED
  BY <1>1, <1>5, <1>11, <1>13, <1>14, QuietStep
  DEF CallService, CallFails, Inv, TypeOK, redisVars, countVars

(* Keys that expire take promises away, and make none.                      *)
LEMMA ExpiryInv ==
    ASSUME Inv, Expiry \/ UNCHANGED vars PROVE Inv'
<1>1. /\ UNCHANGED <<record, chat, turn, call, clientVars, saved, countVars, faults>>
      /\ pending' \subseteq pending
      /\ approved' \in [Sessions \X Tools -> Approved]
      /\ \A k \in Sessions \X Tools : approved'[k] \subseteq approved[k]
  BY DEF Expiry, ExpirePending, ExpireApproved, Inv, TypeOK, Approved, vars, redisVars
<1>2. Grows
  BY <1>1 DEF Grows, clientVars
<1>3. /\ turn' \in [Turns -> Turn] /\ \A q \in Turns : GoodTurn(turn[q])'
      /\ call' \in [Calls -> Call] /\ \A d \in Calls : GoodCall(call[d])'
  BY <1>1, <1>2, TurnsStay, CallsStay
<1>4. Attached'
  BY <1>1 DEF Inv, Attached
<1>5. executed' \in [Actions -> Seq(RPC)] /\ ConfirmedOnly'
  BY <1>1, <1>2, PromisesStay DEF clientVars, Inv, TypeOK
<1> QED
  BY <1>1, <1>3, <1>4, <1>5, QuietStep DEF clientVars, countVars, Inv, TypeOK

-----------------------------------------------------------------------------
LEMMA NextInv ==
    ASSUME Inv, [Next]_vars PROVE Inv'
<1>1. CASE Expiry \/ UNCHANGED vars
  BY <1>1, ExpiryInv
<1>2. ASSUME NEW p \in Turns, Request(p) PROVE Inv'
  BY <1>2, ChatInv, ConfirmInv DEF Request
<1>3. ASSUME NEW p \in Turns, Step(p) PROVE Inv'
  <2>1. CASE StageApproved(p)
    BY <2>1, StageInv
  <2>2. CASE DropPending(p)
    BY <2>2, DropInv
  <2>3. CASE LoadChatSession(p)
    BY <2>3, LoadInv
  <2>4. CASE Reply(p) \/ AgentFails(p)
    BY <2>4, EndInv
  <2>5. ASSUME NEW c \in Calls, NEW t \in Tools, NEW i \in Actions, FindApproved(p, c, t, i)
        PROVE  Inv'
    BY <2>5, FindApprovedInv
  <2>6. ASSUME NEW t \in Tools, NEW a \in Args, NEW i \in Actions, FindNothing(p, t, a, i)
        PROVE  Inv'
    BY <2>6, RegisterInv DEF FindNothing, Inv, TypeOK
  <2> QED
    BY <1>3, <2>1, <2>2, <2>3, <2>4, <2>5, <2>6 DEF Step
<1>4. ASSUME NEW p \in Turns, Failure(p) PROVE Inv'
  <2>1. CASE Crash(p)
    BY <2>1, CrashInv
  <2>2. CASE SetFails(p)
    BY <2>2, SetFailsInv
  <2>3. CASE DelPendingFails(p)
    BY <2>3, DropInv
  <2>4. CASE LoadFails(p)
    BY <2>4, LoadInv
  <2>5. CASE SaveFails(p)
    BY <2>5, EndInv
  <2>6. ASSUME NEW t \in Tools, NEW a \in Args, NEW i \in Actions, GetFails(p, t, a, i)
        PROVE  Inv'
    <3>1. RegisterPending(p, t, a, i)
      BY <2>6 DEF GetFails
    <3>2. faults' \in 0 .. MaxFaults
      BY <2>6, AssistantConstants DEF GetFails, Fault, Inv, TypeOK
    <3> QED
      BY <3>1, <3>2, RegisterInv
  <2> QED
    BY <1>4, <2>1, <2>2, <2>3, <2>4, <2>5, <2>6 DEF Failure
<1>5. ASSUME NEW c \in Calls, CallStep(c) PROVE Inv'
  BY <1>5, ConsumeInv, CallEndInv DEF CallStep
<1> QED
  BY <1>1, <1>2, <1>3, <1>4, <1>5 DEF Next

(* Gate.TryConsumeApprovedArgs and the tools behind it: whatever overlaps,  *)
(* expires or fails, an RPC has the tool and arguments of a record the      *)
(* client has confirmed.                                                    *)
THEOREM OnlyConfirmedActions == Spec => []ConfirmedOnly
<1>1. Inv => ConfirmedOnly
  BY DEF Inv
<1> QED
  BY <1>1, InitInv, NextInv, PTL DEF Spec

(* The keys of the gate hold one approval each; documents, turns and calls  *)
(* keep their form.                                                         *)
THEOREM GateStateTyped == Spec => []TypeOK
<1>1. Inv => TypeOK
  BY DEF Inv
<1> QED
  BY <1>1, InitInv, NextInv, PTL DEF Spec

-----------------------------------------------------------------------------
(***************************************************************************)
(* What holds of a session whose turns, and whose confirmed calls, come    *)
(* one after the other without a failing command: no exchange is lost, and *)
(* a confirmed action is carried out at most once.  For every number of    *)
(* turns, calls, sessions, tools and actions.                              *)
(***************************************************************************)

\* A call runs in the session of its turn, which is that of its action.
CallsBelong ==
    \A c \in Calls : call[c] \in Calling =>
        /\ call[c].session = record[call[c].action].session
        /\ turn[call[c].turn].session = call[c].session

In(p, s) == turn[p] # Idle /\ turn[p].session = s
Alone(s) == \A p, q \in Turns : In(p, s) /\ In(q, s) => p = q

\* A turn that will write the session back has read it as it still is.
Current(s) ==
    /\ chat[s] = saved[s]
    /\ \A p \in Turns : In(p, s) /\ turn[p] \in Thinking => turn[p].loaded = chat[s]

\* Where a confirmed action is: to be staged, staged, stored, or being called.
Staged(i, stage) ==
    \E p \in Turns : turn[p] \in Staging /\ turn[p].at = stage /\ turn[p].action = i
Keyed(i) == \E k \in Sessions \X Tools : i \in approved[k]
CallsOf(i) == {c \in Calls : call[c] \in Calling /\ call[c].action = i}
Fresh(i) == executed[i] = <<>> /\ ~Keyed(i) /\ CallsOf(i) = {}

\* It is in one of these places at a time, and has not been carried out before
\* it has left the last of them.
Once(i) ==
    /\ Staged(i, "stage") => Fresh(i)
    /\ Staged(i, "unpend") => executed[i] = <<>> /\ CallsOf(i) = {}
    /\ i \in pending => Fresh(i) \/ Staged(i, "unpend")
    /\ Keyed(i) => executed[i] = <<>> /\ \A c \in CallsOf(i) : call[c].at = "consume"
    /\ CallsOf(i) # {} => executed[i] = <<>>
    /\ \A c, d \in CallsOf(i) : c = d
    /\ Len(executed[i]) <= 1

Sound(s) == Alone(s) /\ Current(s)

SessionInv ==
    /\ Inv
    /\ CallsBelong
    /\ faults = 0 =>
         /\ \A s \in Sessions \ overlapped : Sound(s)
         /\ \A i \in Actions : Registered(i) /\ record[i].session \notin overlapped => Once(i)

LEMMA InitSessionInv == Init => SessionInv
<1> SUFFICES ASSUME Init PROVE SessionInv
  OBVIOUS
<1>1. Inv
  BY InitInv
<1>2. CallsBelong
  BY IdleIsPlain DEF Init, CallsBelong
<1>3. \A s \in Sessions : Sound(s)
  BY DEF Init, Sound, Alone, Current, In
<1>4. \A i \in Actions : ~Registered(i)
  BY NoRecordIsNone DEF Init, Registered
<1> QED
  BY <1>1, <1>2, <1>3, <1>4 DEF SessionInv

\* An action that is not registered has been nowhere.
LEMMA UnregisteredIsFresh ==
    ASSUME Inv, NEW i \in Actions, ~Registered(i)
    PROVE  Fresh(i) /\ i \notin pending /\ \A stage \in {"stage", "unpend"} : ~Staged(i, stage)
<1>1. i \notin confirmed /\ i \notin pending
  BY DEF Inv
<1>2. executed[i] = <<>>
  <2>1. executed[i] \in Seq(RPC) /\ DOMAIN executed[i] = {}
    BY <1>1 DEF Inv, TypeOK, ConfirmedOnly
  <2>2. PICK e \in Seq(RPC) : e = executed[i] /\ DOMAIN e = {}
    BY <2>1
  <2>3. Len(e) = 0
    <3>1. Len(e) \in Nat /\ DOMAIN e = 1 .. Len(e)
      OBVIOUS
    <3>2. Len(e) > 0 => 1 \in DOMAIN e
      BY <3>1
    <3>3. ~(Len(e) > 0)
      BY <2>2, <3>2
    <3> QED
      BY <3>1, <3>3
  <2>4. e = <<>>
    BY <2>3
  <2> QED
    BY <2>2, <2>4
<1>3. ~Keyed(i)
  BY <1>1 DEF Inv, Keyed, GoodApproval
<1>4. CallsOf(i) = {}
  BY <1>1 DEF Inv, CallsOf, GoodCall
<1>5. \A stage \in {"stage", "unpend"} : ~Staged(i, stage)
  BY <1>1 DEF Inv, Staged, GoodTurn
<1> QED
  BY <1>1, <1>2, <1>3, <1>4, <1>5 DEF Fresh

-----------------------------------------------------------------------------
(* What steps elsewhere leave alone.                                        *)

\* A step that brings an action nowhere.
LEMMA OnceStays ==
    ASSUME NEW i \in Actions, Once(i), executed'[i] = executed[i],
           \A c \in Calls : call'[c] \in Calling /\ call'[c].action = i => call'[c] = call[c],
           Keyed(i)' => Keyed(i),
           Staged(i, "stage")' => Staged(i, "stage"),
           Staged(i, "unpend")' => Staged(i, "unpend"),
           i \in pending' => i \in pending /\ (Staged(i, "unpend") => Staged(i, "unpend")')
    PROVE  Once(i)'
<1>1. \A c \in CallsOf(i)' : c \in CallsOf(i) /\ call'[c] = call[c]
  BY DEF CallsOf
<1>2. Fresh(i) => Fresh(i)'
  BY <1>1 DEF Fresh
<1> QED
  BY <1>1, <1>2 DEF Once

\* Where other turns than the one that moves have staged actions.
LEMMA StagedElsewhere ==
    ASSUME Inv, NEW i \in Actions, NEW p \in Turns, NEW v, turn' = [turn EXCEPT ![p] = v],
           turn[p] \in Staging => turn[p].action # i, v \in Staging => v.action # i
    PROVE  \A stage \in {"stage", "unpend"} : Staged(i, stage)' = Staged(i, stage)
<1>1. turn'[p] = v /\ \A q \in Turns \ {p} : turn'[q] = turn[q]
  BY DEF Inv, TypeOK
<1> QED
  BY <1>1 DEF Staged

\* The sessions when one turn goes on or ends.
LEMMA SoundTurn ==
    ASSUME Inv, NEW p \in Turns, NEW v, turn' = [turn EXCEPT ![p] = v], turn[p] # Idle,
           v # Idle => v.session = turn[p].session,
           v # Idle /\ v \in Thinking =>
             \/ v.loaded = chat[v.session]
             \/ turn[p] \in Thinking /\ v.loaded = turn[p].loaded,
           UNCHANGED <<chat, saved>>,
           NEW s \in Sessions, Sound(s)
    PROVE  Sound(s)'
<1>1. turn'[p] = v /\ \A q \in Turns \ {p} : turn'[q] = turn[q]
  BY DEF Inv, TypeOK
<1>2. \A q \in Turns : In(q, s)' => In(q, s)
  BY <1>1 DEF In
<1>3. Alone(s)'
  BY <1>2 DEF Sound, Alone
<1>4. ASSUME NEW q \in Turns, In(q, s)', turn'[q] \in Thinking PROVE turn'[q].loaded = chat[s]
  <2>1. CASE q # p
    BY <1>1, <1>2, <1>4, <2>1 DEF Sound, Current
  <2>2. CASE q = p
    BY <1>1, <1>2, <1>4, <2>2 DEF Sound, Current, In
  <2> QED
    BY <2>1, <2>2
<1> QED
  BY <1>3, <1>4 DEF Sound, Current

LEMMA BelongTurn ==
    ASSUME Inv, CallsBelong, Grows, UNCHANGED call,
           NEW p \in Turns, NEW v, turn' = [turn EXCEPT ![p] = v],
           turn[p] \notin Thinking \/ NoCall(p) \/ v.session = turn[p].session
    PROVE  CallsBelong'
<1> SUFFICES ASSUME NEW c \in Calls, call[c] \in Calling
             PROVE  /\ call[c].session = record'[call[c].action].session
                    /\ turn'[call[c].turn].session = call[c].session
  BY DEF CallsBelong
<1>1. /\ call[c] # Idle /\ call[c].turn \in Turns /\ turn[call[c].turn] \in Thinking
      /\ call[c].action \in confirmed
  BY IdleIsPlain DEF Inv, Attached, Calling, GoodCall
<1>2. record'[call[c].action] = record[call[c].action]
  BY <1>1 DEF Inv, TypeOK, Grows
<1>3. turn'[call[c].turn].session = turn[call[c].turn].session
  <2>1. CASE call[c].turn = p
    <3>1. v.session = turn[p].session
      BY <1>1, <2>1 DEF NoCall
    <3>2. turn'[p] = v
      BY DEF Inv, TypeOK
    <3> QED
      BY <2>1, <3>1, <3>2
  <2>2. CASE call[c].turn # p
    <3>1. turn'[call[c].turn] = turn[call[c].turn]
      BY <1>1, <2>2 DEF Inv, TypeOK
    <3> QED
      BY <3>1
  <2> QED
    BY <2>1, <2>2
<1> QED
  BY <1>2, <1>3 DEF CallsBelong

\* A turn that goes on or ends, and takes nothing with it but what it no longer
\* has to stage.
LEMMA TurnStep ==
    ASSUME SessionInv, Inv', Grows,
           UNCHANGED <<record, call, executed, overlapped, chat, saved>>,
           faults' = 0 => faults = 0,
           NEW p \in Turns, NEW v, turn' = [turn EXCEPT ![p] = v], turn[p] # Idle,
           v = Idle => turn[p] \notin Thinking \/ NoCall(p),
           v # Idle => v.session = turn[p].session,
           v \notin Staging,
           v # Idle /\ v \in Thinking =>
             \/ v.loaded = chat[v.session]
             \/ turn[p] \in Thinking /\ v.loaded = turn[p].loaded,
           pending' \subseteq pending,
           \A k \in Sessions \X Tools : approved'[k] \subseteq approved[k],
           turn[p] \in Staging => turn[p].action \notin pending'
    PROVE  SessionInv'
<1>1. Inv /\ CallsBelong
  BY DEF SessionInv
<1>2. CallsBelong'
  BY <1>1, BelongTurn
<1>3. ASSUME faults' = 0, NEW s \in Sessions \ overlapped' PROVE Sound(s)'
  <2>1. Sound(s)
    BY <1>3 DEF SessionInv
  <2> QED
    BY <1>1, <2>1, SoundTurn
<1>4. ASSUME faults' = 0, NEW i \in Actions, Registered(i)', record'[i].session \notin overlapped'
      PROVE  Once(i)'
  <2>1. Once(i)
    BY <1>4 DEF SessionInv, Registered
  <2>2. turn'[p] = v /\ \A q \in Turns \ {p} : turn'[q] = turn[q]
    BY <1>1 DEF Inv, TypeOK
  <2>3. \A stage \in {"stage", "unpend"} : Staged(i, stage)' => Staged(i, stage)
    BY <2>2 DEF Staged
  <2>4. i \in pending' => (Staged(i, "unpend") => Staged(i, "unpend")')
    BY <2>2 DEF Staged
  <2>5. Keyed(i)' => Keyed(i)
    BY DEF Keyed
  <2> QED
    BY <2>1, <2>3, <2>4, <2>5, OnceStays
<1> QED
  BY <1>2, <1>3, <1>4 DEF SessionInv

\* Failing commands end the conditions; the calls only keep to their sessions.
LEMMA FaultStep ==
    ASSUME SessionInv, Inv', CallsBelong', Fault PROVE SessionInv'
<1>1. faults' # 0
  BY DEF Fault, SessionInv, Inv, TypeOK
<1> QED
  BY <1>1 DEF SessionInv

-----------------------------------------------------------------------------
(* The actions of a turn.                                                  *)

LEMMA ArriveSound ==
    ASSUME Inv, NEW p \in Turns, NEW s \in Sessions, Arrive(p, s), NEW v,
           turn' = [turn EXCEPT ![p] = v], v.session = s, v \notin Thinking,
           UNCHANGED <<chat, saved>>, NEW r \in Sessions \ overlapped', Sound(r)
    PROVE  Sound(r)'
<1>1. turn'[p] = v /\ \A q \in Turns \ {p} : turn'[q] = turn[q]
  BY DEF Inv, TypeOK
<1>2. r = s => \A q \in Turns : ~In(q, s)
  BY DEF Arrive, In
<1>3. \A q \in Turns : In(q, r)' => (q = p /\ r = s) \/ (q # p /\ In(q, r))
  <2>1. In(p, r)' => r = s
    BY <1>1 DEF In
  <2>2. \A q \in Turns \ {p} : In(q, r)' => In(q, r)
    BY <1>1 DEF In
  <2> QED
    BY <2>1, <2>2
<1>4. Alone(r)'
  BY <1>2, <1>3 DEF Sound, Alone
<1>5. \A q \in Turns : In(q, r)' /\ turn'[q] \in Thinking => turn'[q].loaded = chat'[r]
  BY <1>1, <1>3 DEF Sound, Current
<1> QED
  BY <1>4, <1>5 DEF Sound, Current

LEMMA ArriveStep ==
    ASSUME SessionInv, Inv', NEW p \in Turns, NEW s \in Sessions, Arrive(p, s), NEW v,
           turn' = [turn EXCEPT ![p] = v], v.session = s, v \notin Thinking,
           UNCHANGED <<record, pending, approved, call, executed, chat, saved, faults>>,
           Grows,
           v \in Staging => v.at = "stage" /\ v.action \in pending
                             /\ record[v.action].session = s
    PROVE  SessionInv'
<1>1. Inv /\ CallsBelong /\ turn[p] = Idle /\ turn[p] \notin Staging /\ turn[p] \notin Thinking
  BY IdleIsPlain DEF SessionInv, Arrive
<1>2. CallsBelong'
  BY <1>1, BelongTurn
<1>3. overlapped \subseteq overlapped'
  BY DEF Arrive
<1>4. ASSUME faults' = 0, NEW r \in Sessions \ overlapped' PROVE Sound(r)'
  <2>1. Sound(r)
    BY <1>3, <1>4 DEF SessionInv
  <2> QED
    BY <1>1, <2>1, ArriveSound
<1>5. ASSUME faults' = 0, NEW i \in Actions, Registered(i)', record'[i].session \notin overlapped'
      PROVE  Once(i)'
  <2>1. Once(i)
    BY <1>3, <1>5 DEF SessionInv, Registered
  <2>2. turn'[p] = v /\ \A q \in Turns \ {p} : turn'[q] = turn[q]
    BY <1>1 DEF Inv, TypeOK
  <2>3. Keyed(i)' = Keyed(i)
    BY DEF Keyed
  <2>4. CASE v \in Staging => v.action # i
    <3>1. \A stage \in {"stage", "unpend"} : Staged(i, stage)' = Staged(i, stage)
      BY <1>1, <2>4, StagedElsewhere
    <3> QED
      BY <2>1, <2>3, <3>1, OnceStays
  <2>5. CASE v \in Staging /\ v.action = i
    <3>1. \A q \in Turns : ~In(q, s)
      BY <1>5, <2>5 DEF Arrive, In
    <3>2. ~Staged(i, "unpend")
      <4>1. SUFFICES ASSUME NEW q \in Turns, turn[q] \in Staging, turn[q].action = i PROVE FALSE
        BY DEF Staged
      <4>2. turn[q].session = s /\ turn[q] # Idle
        BY <1>1, <2>5, <4>1, IdleIsPlain DEF Inv, GoodTurn
      <4> QED
        BY <3>1, <4>2 DEF In
    <3>3. Fresh(i)
      BY <2>1, <2>5, <3>2 DEF Once
    <3>4. Fresh(i)'
      BY <2>3, <3>3 DEF Fresh, CallsOf
    <3>5. ~Staged(i, "unpend")'
      BY <2>2, <2>5, <3>2 DEF Staged
    <3> QED
      BY <3>4, <3>5 DEF Once, Fresh
  <2> QED
    BY <2>4, <2>5
<1> QED
  BY <1>2, <1>4, <1>5 DEF SessionInv

LEMMA RequestStep ==
    ASSUME SessionInv, Inv', NEW p \in Turns, Request(p) PROVE SessionInv'
<1>1. ASSUME NEW s \in Sessions, Chat(p, s) PROVE SessionInv'
  <2>1. PICK v : v = Load(s)
    OBVIOUS
  <2>2. v.session = s /\ v \notin Thinking /\ v \notin Staging
    BY <2>1 DEF Load, Thinking, Staging
  <2>3. turn' = [turn EXCEPT ![p] = v] /\ Arrive(p, s)
    BY <1>1, <2>1 DEF Chat, Becomes
  <2>4. /\ UNCHANGED <<record, pending, approved, call, executed, chat, saved, faults>>
        /\ Grows
    BY <1>1 DEF Chat, redisVars, clientVars, Grows
  <2> QED
    BY <2>2, <2>3, <2>4, ArriveStep
<1>2. ASSUME NEW s \in Sessions, NEW i \in Actions, Confirm(p, s, i) PROVE SessionInv'
  <2>1. PICK v : v = IF i \in pending /\ record[i].session = s
                      THEN [at |-> "stage", session |-> s, action |-> i] ELSE Load(s)
    OBVIOUS
  <2>2. v.session = s /\ v \notin Thinking
    BY <2>1 DEF Load, Thinking
  <2>3. v \in Staging => v.at = "stage" /\ v.action \in pending /\ record[v.action].session = s
    BY <2>1 DEF Load, Staging
  <2>4. turn' = [turn EXCEPT ![p] = v] /\ Arrive(p, s)
    BY <1>2, <2>1 DEF Confirm, Becomes
  <2>5. /\ UNCHANGED <<record, pending, approved, call, executed, chat, saved, faults>>
        /\ Grows
    BY <1>2 DEF Confirm, redisVars, Grows
  <2> QED
    BY <2>2, <2>3, <2>4, <2>5, ArriveStep
<1> QED
  BY <1>1, <1>2 DEF Request

\* The arguments are stored under the one key of the action.
LEMMA StageStep ==
    ASSUME SessionInv, Inv', NEW p \in Turns, StageApproved(p) PROVE SessionInv'
<1>1. Inv /\ CallsBelong
  BY DEF SessionInv
<1>2. PICK w \in Staging : w = turn[p] /\ w.at = "stage"
  BY <1>1, Places DEF StageApproved
<1>3. PICK v : v = [w EXCEPT !.at = "unpend"]
  OBVIOUS
<1>4. /\ v \in Staging /\ v.at = "unpend" /\ v.action = w.action /\ v.session = w.session
      /\ v # Idle /\ turn[p] # Idle /\ v \notin Thinking /\ turn[p] \notin Thinking
  BY <1>2, <1>3, IdleIsPlain, PlacesApart DEF Staging
<1>5. turn' = [turn EXCEPT ![p] = v]
  BY <1>2, <1>3 DEF StageApproved
<1>6. Grows /\ UNCHANGED <<record, pending, call, executed, overlapped, faults, chat, saved>>
  BY DEF StageApproved, Grows, clientVars, countVars
<1>7. CallsBelong'
  BY <1>1, <1>4, <1>5, <1>6, BelongTurn
<1>8. ASSUME faults' = 0, NEW s \in Sessions \ overlapped' PROVE Sound(s)'
  <2>1. Sound(s)
    BY <1>6, <1>8 DEF SessionInv
  <2> QED
    BY <1>1, <1>2, <1>4, <1>5, <1>6, <2>1, SoundTurn
<1>9. ASSUME faults' = 0, NEW i \in Actions, Registered(i)', record'[i].session \notin overlapped'
      PROVE  Once(i)'
  <2>1. Once(i)
    BY <1>6, <1>9 DEF SessionInv, Registered
  <2>2. CASE i # w.action
    <3>1. \A stage \in {"stage", "unpend"} : Staged(i, stage)' = Staged(i, stage)
      BY <1>1, <1>2, <1>4, <1>5, <2>2, StagedElsewhere
    <3>2. \A k \in Sessions \X Tools : i \in approved'[k] => i \in approved[k]
      BY <1>1, <1>2, <2>2 DEF StageApproved, Inv, TypeOK
    <3>3. Keyed(i)' => Keyed(i)
      BY <3>2 DEF Keyed
    <3> QED
      BY <1>6, <2>1, <3>1, <3>3, OnceStays
  <2>3. CASE i = w.action
    <3>1. Fresh(i)
      BY <1>2, <2>1, <2>3 DEF Once, Staged
    <3>2. executed'[i] = <<>> /\ CallsOf(i)' = {}
      BY <1>6, <3>1 DEF Fresh, CallsOf
    <3>3. turn'[p] = v /\ \A q \in Turns \ {p} : turn'[q] = turn[q]
      BY <1>1, <1>5 DEF Inv, TypeOK
    <3>4. Staged(i, "unpend")'
      BY <1>4, <2>3, <3>3 DEF Staged
    <3>5. Alone(w.session)
      <4>1. w.session = record[i].session
        BY <1>1, <1>2, <2>3 DEF Inv, GoodTurn
      <4> QED
        BY <1>2, <1>6, <1>9, <4>1 DEF SessionInv, Sound, Staging
    <3>6. ~Staged(i, "stage")'
      <4>1. SUFFICES ASSUME NEW q \in Turns, turn'[q] \in Staging, turn'[q].at = "stage",
                            turn'[q].action = i
                     PROVE  FALSE
        BY DEF Staged
      <4>2. q # p /\ turn'[q] = turn[q]
        BY <1>4, <3>3, <4>1
      <4>3. turn[q].session = w.session /\ turn[q] # Idle
        BY <1>1, <1>2, <2>3, <4>1, <4>2, IdleIsPlain DEF Inv, GoodTurn
      <4>4. In(q, w.session) /\ In(p, w.session)
        BY <1>2, <1>4, <4>3 DEF In
      <4> QED
        BY <3>5, <4>2, <4>4 DEF Alone
    <3> QED
      BY <3>2, <3>4, <3>6 DEF Once
  <2> QED
    BY <2>2, <2>3
<1> QED
  BY <1>7, <1>8, <1>9 DEF SessionInv

\* A new action has been nowhere before.
LEMMA RegisterStep ==
    ASSUME SessionInv, Inv', NEW p \in Turns, NEW t \in Tools, NEW a \in Args,
           NEW i \in Actions, RegisterPending(p, t, a, i), faults' = 0 => faults = 0
    PROVE  SessionInv'
<1>1. Inv /\ CallsBelong
  BY DEF SessionInv
<1>2. PICK w \in Thinking : w = turn[p]
  BY <1>1, Places DEF RegisterPending
<1>3. PICK v : v = [w EXCEPT !.last = {i}]
  OBVIOUS
<1>4. /\ v \in Thinking /\ v.session = w.session /\ v.loaded = w.loaded
      /\ v # Idle /\ turn[p] # Idle /\ v \notin Staging /\ turn[p] \notin Staging
  BY <1>2, <1>3, IdleIsPlain, PlacesApart DEF Thinking
<1>5. turn' = [turn EXCEPT ![p] = v]
  BY <1>2, <1>3 DEF RegisterPending
<1>6. UNCHANGED <<approved, call, executed, overlapped, chat, saved, confirmed>>
  BY DEF RegisterPending, clientVars, countVars
<1>7. record[i] = NoRecord /\ \A j \in Actions \ {i} : record'[j] = record[j]
  BY <1>1 DEF RegisterPending, Inv, TypeOK
<1>8. ~Registered(i) /\ Grows
  BY <1>6, <1>7, NoRecordIsNone DEF Registered, Grows
<1>9. CallsBelong'
  BY <1>1, <1>2, <1>4, <1>5, <1>6, <1>8, BelongTurn
<1>10. ASSUME faults' = 0, NEW s \in Sessions \ overlapped' PROVE Sound(s)'
  <2>1. Sound(s)
    BY <1>6, <1>10 DEF SessionInv
  <2> QED
    BY <1>1, <1>2, <1>4, <1>5, <1>6, <2>1, SoundTurn
<1>11. \A j \in Actions : \A stage \in {"stage", "unpend"} : Staged(j, stage)' = Staged(j, stage)
  BY <1>1, <1>4, <1>5, StagedElsewhere
<1>12. \A j \in Actions : Keyed(j)' = Keyed(j)
  BY <1>6 DEF Keyed
<1>13. ASSUME faults' = 0, NEW j \in Actions, Registered(j)', record'[j].session \notin overlapped'
       PROVE  Once(j)'
  <2>1. CASE j = i
    <3>1. Fresh(i) /\ \A stage \in {"stage", "unpend"} : ~Staged(i, stage)
      BY <1>1, <1>8, UnregisteredIsFresh
    <3>2. Fresh(i)'
      BY <1>6, <1>12, <3>1 DEF Fresh, CallsOf
    <3>3. ~Staged(i, "stage")' /\ ~Staged(i, "unpend")'
      BY <1>11, <3>1
    <3> QED
      BY <2>1, <3>2, <3>3 DEF Once, Fresh
  <2>2. CASE j # i
    <3>1. Once(j)
      BY <1>6, <1>7, <1>13, <2>2 DEF SessionInv, Registered
    <3>2. j \in pending' => j \in pending
      BY <2>2 DEF RegisterPending
    <3> QED
      BY <1>6, <1>11, <1>12, <3>1, <3>2, OnceStays
  <2> QED
    BY <2>1, <2>2
<1> QED
  BY <1>9, <1>10, <1>13 DEF SessionInv

LEMMA LoadStep ==
    ASSUME SessionInv, Inv', NEW p \in Turns, LoadChatSession(p) PROVE SessionInv'
<1>1. PICK w \in Loading : w = turn[p]
  BY Places DEF SessionInv, LoadChatSession
<1>2. PICK v : v = [at |-> "agent", session |-> w.session, loaded |-> chat[w.session], last |-> {}]
  OBVIOUS
<1>3. /\ v.session = w.session /\ v.loaded = chat[v.session]
      /\ v # Idle /\ turn[p] # Idle /\ v \notin Staging /\ turn[p] \notin Staging
  BY <1>1, <1>2 DEF Idle, Loading, Staging
<1>4. turn' = [turn EXCEPT ![p] = v]
  BY <1>1, <1>2 DEF LoadChatSession, Becomes
<1>5. /\ UNCHANGED <<record, call, executed, overlapped, chat, saved, pending, approved, faults>>
      /\ Grows
  BY DEF LoadChatSession, redisVars, clientVars, countVars, Grows
<1> QED
  BY <1>1, <1>3, <1>4, <1>5, TurnStep

\* The record is gone with the confirmation that has staged it.
LEMMA DropStep ==
    ASSUME SessionInv, Inv', NEW p \in Turns, DropPending(p) PROVE SessionInv'
<1>1. PICK w \in Staging : w = turn[p]
  BY Places DEF SessionInv, DropPending
<1>2. PICK v : v = Load(w.session)
  OBVIOUS
<1>3. /\ v.session = w.session /\ v \notin Thinking /\ v # Idle /\ v \notin Staging
      /\ turn[p] # Idle
  BY <1>1, <1>2 DEF Load, Idle, Staging, Thinking
<1>4. turn' = [turn EXCEPT ![p] = v]
  BY <1>1, <1>2 DEF DropPending, Becomes
<1>5. /\ UNCHANGED <<record, call, executed, overlapped, chat, saved, approved, faults>>
      /\ Grows /\ pending' = pending \ {w.action}
  BY <1>1 DEF DropPending, clientVars, countVars, Grows
<1> QED
  BY <1>1, <1>3, <1>4, <1>5, TurnStep

LEMMA AgentFailsStep ==
    ASSUME SessionInv, Inv', NEW p \in Turns, AgentFails(p) PROVE SessionInv'
<1>1. turn[p] \notin Staging /\ turn[p] # Idle
  BY DEF AgentFails, Idle, Staging
<1>2. turn' = [turn EXCEPT ![p] = Idle] /\ NoCall(p)
  BY DEF AgentFails, Becomes
<1>3. /\ UNCHANGED <<record, call, executed, overlapped, chat, saved, pending, approved, faults>>
      /\ Grows
  BY DEF AgentFails, redisVars, countVars, Grows
<1> QED
  BY <1>1, <1>2, <1>3, IdleIsPlain, TurnStep

\* What is written back is what is there, and the new exchange.
LEMMA ReplyStep ==
    ASSUME SessionInv, Inv', NEW p \in Turns, Reply(p) PROVE SessionInv'
<1>1. Inv /\ CallsBelong
  BY DEF SessionInv
<1>2. PICK w \in Thinking : w = turn[p] /\ w.session \in Sessions
  BY <1>1, Places DEF Reply, Thinking
<1>3. /\ turn' = [turn EXCEPT ![p] = Idle] /\ NoCall(p)
      /\ chat' = [chat EXCEPT ![w.session] = w.loaded + 1]
      /\ saved' = [saved EXCEPT ![w.session] = @ + 1]
  BY <1>2 DEF Reply, Becomes
<1>4. /\ UNCHANGED <<record, pending, approved, call, executed, overlapped, faults>>
      /\ Grows
  BY DEF Reply, redisVars, countVars, Grows
<1>5. CallsBelong'
  BY <1>1, <1>3, <1>4, BelongTurn
<1>6. turn'[p] = Idle /\ \A q \in Turns \ {p} : turn'[q] = turn[q]
  BY <1>1, <1>3 DEF Inv, TypeOK
<1>7. \A s \in Sessions, q \in Turns : In(q, s)' => In(q, s) /\ q # p
  BY <1>6 DEF In
<1>8. ASSUME faults' = 0, NEW s \in Sessions \ overlapped' PROVE Sound(s)'
  <2>1. Sound(s)
    BY <1>4, <1>8 DEF SessionInv
  <2>2. Alone(s)'
    BY <1>7, <2>1 DEF Sound, Alone
  <2>3. CASE s = w.session
    <3>1. In(p, s)
      BY <1>2, <2>3, IdleIsPlain DEF In
    <3>2. \A q \in Turns : ~In(q, s)'
      BY <1>7, <2>1, <3>1 DEF Sound, Alone
    <3>3. w.loaded = chat[s] /\ chat[s] = saved[s]
      BY <1>2, <2>1, <3>1 DEF Sound, Current
    <3>4. chat'[s] = w.loaded + 1 /\ saved'[s] = saved[s] + 1
      BY <1>1, <1>2, <1>3, <2>3 DEF Inv, TypeOK
    <3> QED
      BY <2>2, <3>2, <3>3, <3>4 DEF Sound, Current
  <2>4. CASE s # w.session
    <3>1. chat'[s] = chat[s] /\ saved'[s] = saved[s]
      BY <1>1, <1>3, <2>4 DEF Inv, TypeOK
    <3>2. \A q \in Turns : In(q, s)' /\ turn'[q] \in Thinking => turn'[q].loaded = chat'[s]
      BY <1>6, <1>7, <2>1, <3>1 DEF Sound, Current
    <3> QED
      BY <2>1, <2>2, <3>1, <3>2 DEF Sound, Current
  <2> QED
    BY <2>3, <2>4
<1>9. ASSUME faults' = 0, NEW i \in Actions, Registered(i)', record'[i].session \notin overlapped'
      PROVE  Once(i)'
  <2>1. Once(i)
    BY <1>4, <1>9 DEF SessionInv, Registered
  <2>2. \A stage \in {"stage", "unpend"} : Staged(i, stage)' = Staged(i, stage)
    BY <1>1, <1>2, <1>3, IdleIsPlain, PlacesApart, StagedElsewhere
  <2>3. Keyed(i)' = Keyed(i)
    BY <1>4 DEF Keyed
  <2> QED
    BY <1>4, <2>1, <2>2, <2>3, OnceStays
<1> QED
  BY <1>5, <1>8, <1>9 DEF SessionInv

-----------------------------------------------------------------------------
(* The steps of a call.                                                    *)

LEMMA SoundStays ==
    ASSUME NEW s \in Sessions, Sound(s), UNCHANGED <<turn, chat, saved>> PROVE Sound(s)'
BY DEF Sound, Alone, Current, In

\* The turns of two calls of one action are in one session.
LEMMA FindStep ==
    ASSUME SessionInv, Inv', NEW p \in Turns, NEW c \in Calls, NEW t \in Tools,
           NEW i \in Actions, FindApproved(p, c, t, i)
    PROVE  SessionInv'
<1>1. Inv /\ CallsBelong
  BY DEF SessionInv
<1>2. PICK s \in Sessions : s = turn[p].session /\ turn[p] \in Thinking
  BY <1>1, Places DEF FindApproved, StartCall, Thinking
<1>3. GoodApproval(s, t, i) /\ Keyed(i)
  BY <1>1, <1>2 DEF Inv, FindApproved, StartCall, Keyed
<1>4. PICK v : v = [at |-> "consume", turn |-> p, session |-> s, tool |-> t,
                    args |-> record[i].args, action |-> i]
  OBVIOUS
<1>5. /\ v.at = "consume" /\ v.turn = p /\ v.action = i /\ v.session = s
      /\ call' = [call EXCEPT ![c] = v]
  BY <1>2, <1>4 DEF FindApproved, StartCall
<1>6. /\ UNCHANGED <<record, pending, approved, turn, chat, saved, executed, faults>>
      /\ overlapped \subseteq overlapped'
      /\ call[c] = Idle
  BY DEF FindApproved, StartCall, redisVars, clientVars
<1>7. call'[c] = v /\ \A d \in Calls \ {c} : call'[d] = call[d]
  BY <1>1, <1>5 DEF Inv, TypeOK
<1>8. CallsBelong'
  BY <1>1, <1>2, <1>3, <1>5, <1>6, <1>7 DEF CallsBelong, GoodApproval
<1>9. ASSUME faults' = 0, NEW r \in Sessions \ overlapped' PROVE Sound(r)'
  BY <1>6, <1>9, SoundStays DEF SessionInv
<1>10. \A j \in Actions : Keyed(j)' = Keyed(j) /\ Staged(j, "stage")' = Staged(j, "stage")
                            /\ Staged(j, "unpend")' = Staged(j, "unpend")
  BY <1>6 DEF Keyed, Staged
<1>11. ASSUME faults' = 0, NEW j \in Actions, Registered(j)', record'[j].session \notin overlapped'
       PROVE  Once(j)'
  <2>1. Once(j)
    BY <1>6, <1>11 DEF SessionInv, Registered
  <2>2. CASE j # i
    <3>1. \A d \in Calls : call'[d] \in Calling /\ call'[d].action = j => call'[d] = call[d]
      BY <1>5, <1>7, <2>2
    <3> QED
      BY <1>6, <1>10, <2>1, <3>1, OnceStays
  <2>3. CASE j = i
    <3>1. s \notin overlapped' /\ s \notin overlapped
      BY <1>3, <1>6, <1>11, <2>3 DEF GoodApproval
    <3>2. Alone(s) /\ In(p, s)
      BY <1>2, <1>6, <1>11, <3>1, IdleIsPlain DEF SessionInv, Sound, In
    <3>3. CallsOf(i) = {}
      <4>1. SUFFICES ASSUME NEW d \in Calls, call[d] \in Calling, call[d].action = i PROVE FALSE
        BY DEF CallsOf
      <4>2. /\ call[d] # Idle /\ call[d].turn \in Turns /\ turn[call[d].turn] \in Thinking
            /\ turn[call[d].turn].session = s
        BY <1>1, <1>3, <4>1, IdleIsPlain DEF CallsBelong, Inv, Attached, Calling, GoodApproval
      <4>3. In(call[d].turn, s)
        BY <4>2, IdleIsPlain DEF In
      <4>4. call[d].turn = p
        BY <3>2, <4>2, <4>3 DEF Alone
      <4>5. s \in overlapped'
        BY <1>2, <4>2, <4>4 DEF FindApproved, StartCall
      <4> QED
        BY <3>1, <4>5
    <3>4. \A stage \in {"stage", "unpend"} : ~Staged(i, stage)
      <4>1. SUFFICES ASSUME NEW q \in Turns, turn[q] \in Staging, turn[q].action = i PROVE FALSE
        BY DEF Staged
      <4>2. In(q, s)
        BY <1>1, <1>3, <4>1, IdleIsPlain DEF In, Inv, GoodTurn, GoodApproval
      <4>3. q = p
        BY <3>2, <4>2 DEF Alone
      <4> QED
        BY <1>2, <4>1, <4>3, PlacesApart
    <3>5. executed[i] = <<>> /\ i \notin pending
      BY <1>3, <2>1, <2>3, <3>4 DEF Once, Fresh
    <3>6. \A d \in CallsOf(i)' : d = c
      BY <1>7, <3>3 DEF CallsOf
    <3>7. executed'[i] = <<>> /\ Len(executed'[i]) = 0 /\ i \notin pending'
      BY <1>6, <3>5
    <3>8. ~Staged(i, "stage")' /\ ~Staged(i, "unpend")'
      BY <1>10, <3>4
    <3>9. \A d \in CallsOf(i)' : call'[d].at = "consume"
      BY <1>5, <1>7, <3>6
    <3> QED
      BY <2>3, <3>6, <3>7, <3>8, <3>9 DEF Once
  <2> QED
    BY <2>2, <2>3
<1> QED
  BY <1>8, <1>9, <1>11 DEF SessionInv

\* The arguments are gone before the call is made.
LEMMA ConsumeStep ==
    ASSUME SessionInv, Inv', NEW c \in Calls, ConsumeApproved(c) PROVE SessionInv'
<1>1. Inv /\ CallsBelong
  BY DEF SessionInv
<1>2. PICK w \in Calling : w = call[c] /\ w.at = "consume" /\ GoodCall(w)
  BY <1>1, CallPlaces DEF ConsumeApproved
<1>3. PICK v : v = [w EXCEPT !.at = "call"]
  OBVIOUS
<1>4. /\ v \in Calling /\ v.at = "call" /\ v.action = w.action /\ v.session = w.session
      /\ v.turn = w.turn
  BY <1>3 DEF Calling
<1>5. /\ call' = [call EXCEPT ![c] = v]
      /\ approved' = [approved EXCEPT ![<<w.session, w.tool>>] = {}]
  BY <1>2, <1>3 DEF ConsumeApproved
<1>6. UNCHANGED <<record, pending, turn, chat, saved, executed, overlapped, faults>>
  BY DEF ConsumeApproved, clientVars, countVars
<1>7. call'[c] = v /\ \A d \in Calls \ {c} : call'[d] = call[d]
  BY <1>1, <1>5 DEF Inv, TypeOK
<1>8. CallsBelong'
  BY <1>1, <1>2, <1>4, <1>6, <1>7 DEF CallsBelong
<1>9. ASSUME faults' = 0, NEW s \in Sessions \ overlapped' PROVE Sound(s)'
  BY <1>6, <1>9, SoundStays DEF SessionInv
<1>10. \A j \in Actions : /\ Staged(j, "stage")' = Staged(j, "stage")
                          /\ Staged(j, "unpend")' = Staged(j, "unpend")
  BY <1>6 DEF Staged
<1>11. \A k \in Sessions \X Tools : approved'[k] \subseteq approved[k]
  BY <1>1, <1>5 DEF Inv, TypeOK
<1>12. \A j \in Actions : Keyed(j)' => Keyed(j)
  BY <1>11 DEF Keyed
<1>13. ASSUME faults' = 0, NEW j \in Actions, Registered(j)', record'[j].session \notin overlapped'
       PROVE  Once(j)'
  <2>1. Once(j)
    BY <1>6, <1>13 DEF SessionInv, Registered
  <2>2. CASE j # w.action
    <3>1. \A d \in Calls : call'[d] \in Calling /\ call'[d].action = j => call'[d] = call[d]
      BY <1>4, <1>7, <2>2
    <3> QED
      BY <1>6, <1>10, <1>12, <2>1, <3>1, OnceStays
  <2>3. CASE j = w.action
    <3>1. c \in CallsOf(j)
      BY <1>2, <2>3 DEF CallsOf
    <3>2. executed[j] = <<>> /\ \A d \in CallsOf(j) : d = c
      BY <2>1, <3>1 DEF Once
    <3>3. /\ ~Staged(j, "stage") /\ ~Staged(j, "unpend") /\ j \notin pending
      BY <2>1, <3>1 DEF Once, Fresh
    <3>4. \A d \in CallsOf(j)' : d = c
      BY <1>7, <3>2 DEF CallsOf
    <3>5. ~Keyed(j)'
      <4>1. SUFFICES ASSUME NEW s \in Sessions, NEW t \in Tools, j \in approved'[<<s, t>>]
                     PROVE  FALSE
        BY DEF Keyed
      <4>2. GoodApproval(s, t, j)
        BY <1>1, <1>11, <4>1 DEF Inv
      <4>3. s = w.session /\ t = w.tool
        BY <1>1, <1>2, <2>3, <4>2 DEF GoodApproval, GoodCall, CallsBelong
      <4> QED
        BY <1>1, <1>5, <4>1, <4>3 DEF Inv, TypeOK
    <3>6. executed'[j] = <<>> /\ Len(executed'[j]) = 0 /\ j \notin pending'
      BY <1>6, <3>2, <3>3
    <3>7. ~Staged(j, "stage")' /\ ~Staged(j, "unpend")'
      BY <1>10, <3>3
    <3> QED
      BY <3>4, <3>5, <3>6, <3>7 DEF Once
  <2> QED
    BY <2>2, <2>3
<1> QED
  BY <1>8, <1>9, <1>13 DEF SessionInv

\* The call that is made was the only one, and nothing is left to make another.
LEMMA CallEndStep ==
    ASSUME SessionInv, Inv', NEW c \in Calls, CallService(c) \/ CallFails(c) PROVE SessionInv'
<1>1. Inv /\ CallsBelong
  BY DEF SessionInv
<1>2. PICK w \in Calling : /\ w = call[c] /\ w.at = "call" /\ w.turn \in Turns
                          /\ turn[w.turn] \in Thinking
  BY <1>1, CallPlaces DEF CallService, CallFails
<1>3. PICK p \in Turns, u \in Thinking : p = w.turn /\ u = turn[p]
  BY <1>2
<1>4. PICK v \in Thinking : /\ v.session = u.session /\ v.loaded = u.loaded
                           /\ turn' = [turn EXCEPT ![p] = v]
  <2>1. CASE UNCHANGED turn
    <3>1. turn' = [turn EXCEPT ![p] = u]
      BY <1>1, <1>3, <2>1 DEF Inv, TypeOK
    <3> QED
      BY <3>1
  <2>2. CASE turn' = [turn EXCEPT ![call[c].turn].at = "failed"]
    <3>1. PICK x : x = [u EXCEPT !.at = "failed"]
      OBVIOUS
    <3>2. x \in Thinking /\ x.session = u.session /\ x.loaded = u.loaded
      BY <3>1 DEF Thinking
    <3>3. turn' = [turn EXCEPT ![p] = x]
      BY <1>2, <1>3, <2>2, <3>1
    <3> QED
      BY <3>2, <3>3
  <2> QED
    BY <2>1, <2>2 DEF CallService, CallFails
<1>5. /\ call' = [call EXCEPT ![c] = Idle]
      /\ UNCHANGED <<record, pending, approved, chat, saved, overlapped, faults>>
  BY DEF CallService, CallFails, redisVars, countVars
<1>6. call'[c] = Idle /\ Idle \notin Calling /\ \A d \in Calls \ {c} : call'[d] = call[d]
  BY <1>1, <1>5, IdleIsPlain DEF Inv, TypeOK
<1>7. turn'[p] = v /\ \A q \in Turns \ {p} : turn'[q] = turn[q]
  BY <1>1, <1>4 DEF Inv, TypeOK
<1>8. v # Idle /\ turn[p] # Idle /\ v \notin Staging /\ turn[p] \notin Staging
  BY <1>3, IdleIsPlain, PlacesApart
<1>9. CallsBelong'
  <2>1. SUFFICES ASSUME NEW d \in Calls, call'[d] \in Calling
                 PROVE  /\ call'[d].session = record'[call'[d].action].session
                        /\ turn'[call'[d].turn].session = call'[d].session
    BY DEF CallsBelong
  <2>2. call'[d] = call[d] /\ call[d].turn \in Turns
    BY <1>6, <2>1 DEF Calling
  <2>3. turn'[call[d].turn].session = turn[call[d].turn].session
    BY <1>3, <1>4, <1>7, <2>2
  <2> QED
    BY <1>1, <1>5, <2>1, <2>2, <2>3 DEF CallsBelong
<1>10. ASSUME faults' = 0, NEW s \in Sessions \ overlapped' PROVE Sound(s)'
  <2>1. Sound(s)
    BY <1>5, <1>10 DEF SessionInv
  <2> QED
    BY <1>1, <1>3, <1>4, <1>5, <1>8, <2>1, SoundTurn
<1>11. \A j \in Actions : \A stage \in {"stage", "unpend"} : Staged(j, stage)' = Staged(j, stage)
  BY <1>1, <1>4, <1>8, StagedElsewhere
<1>12. \A j \in Actions : Keyed(j)' = Keyed(j)
  BY <1>5 DEF Keyed
<1>13. ASSUME faults' = 0, NEW j \in Actions, Registered(j)', record'[j].session \notin overlapped'
       PROVE  Once(j)'
  <2>1. Once(j)
    BY <1>5, <1>13 DEF SessionInv, Registered
  <2>2. CASE j # w.action
    <3>1. \A d \in Calls : call'[d] \in Calling /\ call'[d].action = j => call'[d] = call[d]
      BY <1>6
    <3>2. executed'[j] = executed[j]
      BY <1>1, <1>2, <2>2 DEF CallService, CallFails, Execute, Inv, TypeOK
    <3> QED
      BY <1>5, <1>11, <1>12, <2>1, <3>1, <3>2, OnceStays
  <2>3. CASE j = w.action
    <3>1. c \in CallsOf(j)
      BY <1>2, <2>3 DEF CallsOf
    <3>2. executed[j] = <<>> /\ \A d \in CallsOf(j) : d = c
      BY <2>1, <3>1 DEF Once
    <3>3. /\ ~Staged(j, "stage") /\ ~Staged(j, "unpend") /\ j \notin pending /\ ~Keyed(j)
      BY <1>2, <2>1, <3>1 DEF Once, Fresh
    <3>4. CallsOf(j)' = {}
      BY <1>6, <3>2 DEF CallsOf
    <3>5. Len(executed'[j]) <= 1
      <4>1. CASE UNCHANGED executed
        BY <2>1, <4>1 DEF Once
      <4>2. CASE Execute(c)
        <5>1. PICK r : executed'[j] = Append(executed[j], r) /\ r \in RPC
          BY <1>1, <1>2, <2>3, <4>2 DEF Execute, Inv, TypeOK, Calling, RPC
        <5>2. <<>> \in Seq(RPC) /\ Len(<<>>) = 0
          OBVIOUS
        <5>3. Len(Append(<<>>, r)) = 1
          BY <5>1, <5>2
        <5> QED
          BY <3>2, <5>1, <5>3
      <4> QED
        BY <4>1, <4>2 DEF CallService, CallFails
    <3>6. ~Staged(j, "stage")' /\ ~Staged(j, "unpend")' /\ ~Keyed(j)' /\ j \notin pending'
      BY <1>5, <1>11, <1>12, <3>3
    <3> QED
      BY <3>4, <3>5, <3>6 DEF Once
  <2> QED
    BY <2>2, <2>3
<1> QED
  BY <1>9, <1>10, <1>13 DEF SessionInv

\* Keys that expire, and nothing.
LEMMA ExpiryStep ==
    ASSUME SessionInv, Inv', Expiry \/ UNCHANGED vars PROVE SessionInv'
<1>1. Inv /\ CallsBelong
  BY DEF SessionInv
<1>2. /\ UNCHANGED <<record, chat, turn, call, saved, executed, overlapped, faults>>
      /\ pending' \subseteq pending
      /\ \A k \in Sessions \X Tools : approved'[k] \subseteq approved[k]
  BY <1>1 DEF Expiry, ExpirePending, ExpireApproved, Inv, TypeOK, vars, redisVars, clientVars, countVars
<1>3. CallsBelong'
  BY <1>1, <1>2 DEF CallsBelong
<1>4. ASSUME faults' = 0, NEW s \in Sessions \ overlapped' PROVE Sound(s)'
  BY <1>2, <1>4, SoundStays DEF SessionInv
<1>5. \A j \in Actions : /\ Staged(j, "stage")' = Staged(j, "stage")
                         /\ Staged(j, "unpend")' = Staged(j, "unpend")
                         /\ Keyed(j)' => Keyed(j)
  BY <1>2 DEF Staged, Keyed
<1>6. ASSUME faults' = 0, NEW i \in Actions, Registered(i)', record'[i].session \notin overlapped'
      PROVE  Once(i)'
  <2>1. Once(i)
    BY <1>2, <1>6 DEF SessionInv, Registered
  <2> QED
    BY <1>2, <1>5, <2>1, OnceStays
<1> QED
  BY <1>3, <1>4, <1>6 DEF SessionInv

-----------------------------------------------------------------------------
(* Faults: only CallsBelong has to outlive them.                           *)

LEMMA FailureStep ==
    ASSUME SessionInv, Inv', NEW p \in Turns, Failure(p) PROVE SessionInv'
<1>1. Inv /\ CallsBelong
  BY DEF SessionInv
<1>2. CASE Crash(p)
  <2>1. ASSUME NEW d \in Calls, call'[d] \in Calling
        PROVE  /\ call'[d].session = record'[call'[d].action].session
               /\ turn'[call'[d].turn].session = call'[d].session
    <3>1. call'[d] = call[d] /\ call[d].turn # p /\ call[d].turn \in Turns
      BY <1>2, <2>1, IdleIsPlain DEF Crash, Calling
    <3>2. turn'[call[d].turn] = turn[call[d].turn] /\ record' = record
      BY <1>1, <1>2, <3>1 DEF Crash, Becomes, Inv, TypeOK, redisVars
    <3> QED
      BY <1>1, <2>1, <3>1, <3>2 DEF CallsBelong
  <2> QED
    BY <1>2, <2>1, FaultStep DEF Crash, CallsBelong
<1>3. ASSUME NEW v, turn' = [turn EXCEPT ![p] = v], Fault, UNCHANGED <<record, confirmed, call>>,
             turn[p] \notin Thinking \/ NoCall(p) \/ v.session = turn[p].session
      PROVE  SessionInv'
  <2>1. Grows
    BY <1>3 DEF Grows
  <2> QED
    BY <1>1, <1>3, <2>1, BelongTurn, FaultStep
<1>4. CASE SetFails(p)
  <2>1. Fault /\ UNCHANGED <<record, confirmed, call>>
    BY <1>4 DEF SetFails, redisVars, clientVars
  <2>2. CASE turn[p].at = "stage" /\ Becomes(p, Load(turn[p].session))
    <3>1. turn[p] \notin Thinking
      BY <2>2 DEF Thinking
    <3> QED
      BY <1>3, <2>1, <2>2, <3>1 DEF Becomes
  <2>3. CASE turn[p].at = "agent" /\ turn' = [turn EXCEPT ![p].at = "failed"]
    <3>1. PICK u \in Thinking : u = turn[p]
      BY <1>1, <2>3, Places
    <3>2. PICK v : v = [u EXCEPT !.at = "failed"]
      OBVIOUS
    <3>3. v.session = turn[p].session
      BY <3>1, <3>2 DEF Thinking
    <3>4. turn' = [turn EXCEPT ![p] = v]
      BY <2>3, <3>1, <3>2
    <3> QED
      BY <1>3, <2>1, <3>3, <3>4
  <2> QED
    BY <1>4, <2>2, <2>3 DEF SetFails
<1>5. CASE DelPendingFails(p)
  <2>1. turn[p] \notin Thinking
    BY <1>5 DEF DelPendingFails, Thinking
  <2> QED
    BY <1>3, <1>5, <2>1 DEF DelPendingFails, Becomes, redisVars, clientVars
<1>6. CASE LoadFails(p)
  <2>1. turn[p] \notin Thinking
    BY <1>6 DEF LoadFails, Thinking
  <2> QED
    BY <1>3, <1>6, <2>1 DEF LoadFails, Becomes, redisVars, clientVars
<1>7. CASE SaveFails(p)
  BY <1>3, <1>7 DEF SaveFails, Becomes, redisVars
<1>8. ASSUME NEW t \in Tools, NEW a \in Args, NEW i \in Actions, GetFails(p, t, a, i)
      PROVE  SessionInv'
  <2>1. RegisterPending(p, t, a, i) /\ Fault
    BY <1>8 DEF GetFails
  <2>2. faults' # 0
    BY <1>1, <2>1 DEF Fault, Inv, TypeOK
  <2> QED
    BY <2>1, <2>2, RegisterStep
<1> QED
  BY <1>2, <1>4, <1>5, <1>6, <1>7, <1>8 DEF Failure

LEMMA DelApprovedFailsStep ==
    ASSUME SessionInv, Inv', NEW c \in Calls, DelApprovedFails(c) PROVE SessionInv'
<1>1. Inv /\ CallsBelong
  BY DEF SessionInv
<1>2. PICK w \in Calling : w = call[c]
  BY <1>1, CallPlaces DEF DelApprovedFails
<1>3. PICK v : v = [w EXCEPT !.at = "call"]
  OBVIOUS
<1>4. v.session = w.session /\ v.turn = w.turn /\ v.action = w.action
  BY <1>3 DEF Calling
<1>5. call'[c] = v /\ \A d \in Calls \ {c} : call'[d] = call[d]
  BY <1>1, <1>2, <1>3 DEF DelApprovedFails, Inv, TypeOK
<1>6. UNCHANGED <<record, turn>> /\ Fault
  BY DEF DelApprovedFails, redisVars
<1>7. CallsBelong'
  BY <1>1, <1>2, <1>4, <1>5, <1>6 DEF CallsBelong
<1> QED
  BY <1>6, <1>7, FaultStep

-----------------------------------------------------------------------------
LEMMA NextSessionInv ==
    ASSUME SessionInv, [Next]_vars PROVE SessionInv'
<1>1. Inv'
  BY NextInv DEF SessionInv
<1>2. CASE Expiry \/ UNCHANGED vars
  BY <1>1, <1>2, ExpiryStep
<1>3. ASSUME NEW p \in Turns, Request(p) PROVE SessionInv'
  BY <1>1, <1>3, RequestStep
<1>4. ASSUME NEW p \in Turns, Step(p) PROVE SessionInv'
  <2>1. CASE StageApproved(p)
    BY <1>1, <2>1, StageStep
  <2>2. CASE DropPending(p)
    BY <1>1, <2>2, DropStep
  <2>3. CASE LoadChatSession(p)
    BY <1>1, <2>3, LoadStep
  <2>4. CASE Reply(p)
    BY <1>1, <2>4, ReplyStep
  <2>5. CASE AgentFails(p)
    BY <1>1, <2>5, AgentFailsStep
  <2>6. ASSUME NEW c \in Calls, NEW t \in Tools, NEW i \in Actions, FindApproved(p, c, t, i)
        PROVE  SessionInv'
    BY <1>1, <2>6, FindStep
  <2>7. ASSUME NEW t \in Tools, NEW a \in Args, NEW i \in Actions, FindNothing(p, t, a, i)
        PROVE  SessionInv'
    <3>1. RegisterPending(p, t, a, i) /\ faults' = faults
      BY <2>7 DEF FindNothing
    <3> QED
      BY <1>1, <3>1, RegisterStep
  <2> QED
    BY <1>4, <2>1, <2>2, <2>3, <2>4, <2>5, <2>6, <2>7 DEF Step
<1>5. ASSUME NEW p \in Turns, Failure(p) PROVE SessionInv'
  BY <1>1, <1>5, FailureStep
<1>6. ASSUME NEW c \in Calls, CallStep(c) PROVE SessionInv'
  BY <1>1, <1>6, ConsumeStep, CallEndStep, DelApprovedFailsStep DEF CallStep
<1> QED
  BY <1>2, <1>3, <1>4, <1>5, <1>6 DEF Next

\* TryConsumeApprovedArgs and ApplyConfirmation: however often a confirmation is
\* sent, the order, payment or cancellation it is for happens once, as long as
\* the session's turns and calls do not overlap and no command fails.
THEOREM ConfirmedActionsRunOnce == Spec => []ExecutedOnce
<1>1. SessionInv => ExecutedOnce
  <2> SUFFICES ASSUME SessionInv, faults = 0, NEW i \in Actions, record[i] # NoRecord,
                      record[i].session \notin overlapped
               PROVE  Len(executed[i]) <= 1
    BY DEF ExecutedOnce
  <2>1. Registered(i)
    BY DEF SessionInv, Inv, TypeOK, Registered
  <2> QED
    BY <2>1 DEF SessionInv, Once
<1> QED
  BY <1>1, InitSessionInv, NextSessionInv, PTL DEF Spec

\* GetChatSession and SaveChatSession: under the same conditions the stored
\* session has every exchange of its turns.
THEOREM SessionsKeepHistory == Spec => []HistoryComplete
<1>1. SessionInv => HistoryComplete
  BY DEF SessionInv, HistoryComplete, Sound, Current
<1> QED
  BY <1>1, InitSessionInv, NextSessionInv, PTL DEF Spec
=============================================================================
