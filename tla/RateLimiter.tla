----------------------------- MODULE RateLimiter -----------------------------
(***************************************************************************)
(* The token bucket in front of the gateway's public routes: one bucket    *)
(* per client address, filled by the time that passed between two of its   *)
(* requests, and forgotten by a cleaner when the client has been idle.     *)
(* Time is counted in whole ticks.                                         *)
(***************************************************************************)
EXTENDS Integers

CONSTANTS Clients,
          Rate,       \* tokens per tick
          Burst,      \* size of a bucket
          IdleTime,   \* ticks after which the cleaner drops a bucket
          MaxTime,    \* bound: ticks in a behaviour
          Unknown

\* router.go asks for 10/s with a burst of 20 and for 20/s with 40, the
\* cleaner waits three minutes: a dropped bucket would have been full again.
ASSUME RateLimiterAssumption ==
  /\ Rate \in Nat /\ Burst \in Nat \ {0} /\ IdleTime \in Nat /\ MaxTime \in Nat
  /\ Rate * IdleTime >= Burst
  /\ Unknown \notin [tokens : Int, lastSeen : Int]

VARIABLES visitors,  \* client -> bucket, or Unknown
          now,
          admitted   \* client -> requests let through so far
vars == <<visitors, now, admitted>>

Bucket == [tokens : 0 .. Burst, lastSeen : Nat]

TypeOK ==
  /\ visitors \in [Clients -> Bucket \cup {Unknown}]
  /\ now \in Nat
  /\ admitted \in [Clients -> Nat]

Init ==
  /\ visitors = [i \in Clients |-> Unknown]
  /\ now = 0
  /\ admitted = [i \in Clients |-> 0]

AtMost(n, m) == IF n > m THEN m ELSE n

\* What the bucket holds by now.
Refilled(v) == AtMost(v.tokens + (now - v.lastSeen) * Rate, Burst)

\* A client that is not known starts with a full bucket and is let through.
FirstRequest(i) ==
  /\ visitors[i] = Unknown
  /\ visitors' = [visitors EXCEPT ![i] = [tokens |-> Burst - 1, lastSeen |-> now]]
  /\ admitted' = [admitted EXCEPT ![i] = @ + 1]
  /\ UNCHANGED now

\* Mutant: the time of the request is not noted.
AllowKeepTime(i) ==
  /\ visitors[i] # Unknown
  /\ Refilled(visitors[i]) >= 1
  /\ visitors' = [visitors EXCEPT ![i].tokens = Refilled(visitors[i]) - 1]
  /\ admitted' = [admitted EXCEPT ![i] = @ + 1]
  /\ UNCHANGED now

Allow(i) ==
  /\ visitors[i] # Unknown
  /\ Refilled(visitors[i]) >= 1
  /\ visitors' = [visitors EXCEPT ![i] =
                    [tokens |-> Refilled(visitors[i]) - 1, lastSeen |-> now]]
  /\ admitted' = [admitted EXCEPT ![i] = @ + 1]
  /\ UNCHANGED now

\* A refused request moves the clock of the bucket too.
Refuse(i) ==
  /\ visitors[i] # Unknown
  /\ Refilled(visitors[i]) < 1
  /\ visitors' = [visitors EXCEPT ![i] =
                    [tokens |-> Refilled(visitors[i]), lastSeen |-> now]]
  /\ UNCHANGED <<now, admitted>>

\* The cleaner wakes up once a minute; here it may wake up at any tick.
Forget(i) ==
  /\ visitors[i] # Unknown
  /\ now - visitors[i].lastSeen > IdleTime
  /\ visitors' = [visitors EXCEPT ![i] = Unknown]
  /\ UNCHANGED <<now, admitted>>

Tick ==
  /\ now < MaxTime
  /\ now' = now + 1
  /\ UNCHANGED <<visitors, admitted>>

Next ==
  \/ \E i \in Clients : FirstRequest(i) \/ Allow(i) \/ Refuse(i) \/ Forget(i)
  \/ Tick

Spec == Init /\ [][Next]_vars

-----------------------------------------------------------------------------
\* However its requests are spread over time, and however often its bucket is
\* forgotten in between, a client never gets more requests through than a full
\* bucket and what the time since the start is worth.
WithinBudget == \A i \in Clients : admitted[i] <= Burst + Rate * now
=============================================================================
