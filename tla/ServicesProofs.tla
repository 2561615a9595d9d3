---------------------------- MODULE ServicesProofs ----------------------------
(***************************************************************************)
(* Theorems about the services that keep state of their own, beside those  *)
(* of AccountsProofs and CartProofs: the rate limiter, the lock, the book  *)
(* summaries and the list of orders, for every value of their constants.   *)
(* They are stated of the composition the run checks, where S is           *)
(* Summaries, L RedisLock and O OrderIndex.                                *)
(***************************************************************************)
EXTENDS AccountsProofs, CartProofs, FunctionTheorems

-----------------------------------------------------------------------------
(* The rate limiter *)

\* What a client has used and what its bucket still holds were earned by the
\* time of its last request; a client that is not known may start afresh.
Earned ==
  \A i \in Clients :
    IF visitors[i] = Unknown
      THEN admitted[i] <= Rate * now
      ELSE /\ visitors[i].lastSeen <= now
           /\ admitted[i] + visitors[i].tokens <= Burst + Rate * visitors[i].lastSeen

LimiterInv == TypeOK /\ Earned

LEMMA Constants == Rate \in Nat /\ Burst \in Nat /\ Burst >= 1 /\ IdleTime \in Nat /\ Rate * IdleTime >= Burst
BY RateLimiterAssumption

LEMMA BucketKnown == Unknown \notin Bucket
BY RateLimiterAssumption, Constants DEF Bucket

\* Time passes linearly.
LEMMA Elapsed ==
  ASSUME NEW s \in Nat, NEW t \in Nat, s <= t
  PROVE  /\ t - s \in Nat
         /\ (t - s) * Rate \in Nat
         /\ Rate * s \in Nat /\ Rate * t \in Nat
         /\ Rate * s + (t - s) * Rate = Rate * t
<1>1. t - s \in Nat
  OBVIOUS
<1>2. PICK d \in Nat : t = s + d
  BY <1>1
<1>3. Rate * (s + d) = Rate * s + Rate * d /\ Rate * d = d * Rate
  BY Constants, Z3
<1>4. t - s = d
  BY <1>2
<1>5. Rate * s \in Nat /\ Rate * d \in Nat
  BY Constants, Z3
<1> QED
  BY <1>1, <1>2, <1>3, <1>4, <1>5

\* A bucket never holds more than its size, nor more than was earned.
LEMMA RefilledBound ==
  ASSUME NEW v \in Bucket, now \in Nat, v.lastSeen <= now
  PROVE  /\ Refilled(v) \in 0 .. Burst
         /\ Refilled(v) <= v.tokens + (now - v.lastSeen) * Rate
<1>1. v.tokens \in 0 .. Burst /\ v.lastSeen \in Nat
  BY DEF Bucket
<1>2. (now - v.lastSeen) * Rate \in Nat
  BY <1>1, Elapsed
<1> QED
  BY <1>1, <1>2, Constants DEF Refilled, AtMost

LEMMA InitLimiterInv == Init => LimiterInv
<1> SUFFICES ASSUME Init PROVE LimiterInv
  OBVIOUS
<1>1. Rate * 0 = 0
  BY Constants
<1> QED
  BY <1>1 DEF Init, LimiterInv, TypeOK, Earned

\* The bucket and the count of client i change, and stay within what is earned.
LEMMA Charge ==
  ASSUME LimiterInv, NEW i \in Clients, NEW v \in Bucket, NEW n \in Nat,
         visitors' = [visitors EXCEPT ![i] = v], admitted' = [admitted EXCEPT ![i] = n],
         now' = now, v.lastSeen = now, n + v.tokens <= Burst + Rate * now
  PROVE  LimiterInv'
<1> USE DEF LimiterInv, TypeOK
<1>1. TypeOK'
  OBVIOUS
<1>2. ASSUME NEW j \in Clients
      PROVE  IF visitors'[j] = Unknown
               THEN admitted'[j] <= Rate * now'
               ELSE /\ visitors'[j].lastSeen <= now'
                    /\ admitted'[j] + visitors'[j].tokens <= Burst + Rate * visitors'[j].lastSeen
  <2>1. CASE j = i
    <3>1. visitors'[j] = v /\ admitted'[j] = n
      BY <2>1
    <3> QED
      BY <3>1, BucketKnown
  <2>2. CASE j # i
    <3>1. visitors'[j] = visitors[j] /\ admitted'[j] = admitted[j]
      BY <2>2
    <3> QED
      BY <3>1 DEF Earned
  <2> QED
    BY <2>1, <2>2
<1> QED
  BY <1>1, <1>2 DEF Earned

\* Of a known bucket: its type, and what it earned until now.
LEMMA KnownBucket ==
  ASSUME LimiterInv, NEW i \in Clients, visitors[i] # Unknown
  PROVE  /\ visitors[i] \in Bucket
         /\ visitors[i].lastSeen \in Nat /\ visitors[i].lastSeen <= now
         /\ visitors[i].tokens \in Nat
         /\ admitted[i] + Refilled(visitors[i]) <= Burst + Rate * now
         /\ Refilled(visitors[i]) \in 0 .. Burst
<1> DEFINE v == visitors[i]
<1>1. v \in Bucket /\ now \in Nat /\ admitted[i] \in Nat
  BY DEF LimiterInv, TypeOK
<1>2. v.lastSeen \in Nat /\ v.tokens \in Nat
  BY <1>1, Constants DEF Bucket
<1>3. v.lastSeen <= now /\ admitted[i] + v.tokens <= Burst + Rate * v.lastSeen
  BY DEF LimiterInv, Earned
<1>4. Refilled(v) \in 0 .. Burst /\ Refilled(v) <= v.tokens + (now - v.lastSeen) * Rate
  BY <1>1, <1>3, RefilledBound
<1>5. /\ (now - v.lastSeen) * Rate \in Nat /\ Rate * v.lastSeen \in Nat /\ Rate * now \in Nat
      /\ Rate * v.lastSeen + (now - v.lastSeen) * Rate = Rate * now
  BY <1>1, <1>2, <1>3, Elapsed
<1> HIDE DEF v
<1>6. PICK e, s, w, r \in Nat : /\ e = (now - v.lastSeen) * Rate /\ s = Rate * v.lastSeen
                               /\ w = Rate * now /\ r = Refilled(v)
  BY <1>4, <1>5, Constants
<1>7. admitted[i] + v.tokens <= Burst + s /\ r <= v.tokens + e /\ s + e = w
  BY <1>3, <1>4, <1>5, <1>6
<1>8. admitted[i] + r <= Burst + w
  BY <1>1, <1>2, <1>7, Constants
<1> QED
  BY <1>1, <1>2, <1>3, <1>4, <1>6, <1>8 DEF v

LEMMA NextLimiterInv == LimiterInv /\ [Next]_vars => LimiterInv'
<1> SUFFICES ASSUME LimiterInv, [Next]_vars PROVE LimiterInv'
  OBVIOUS
<1>0. /\ now \in Nat /\ admitted \in [Clients -> Nat]
      /\ visitors \in [Clients -> Bucket \cup {Unknown}]
      /\ Rate * now \in Nat
  BY Elapsed, Constants DEF LimiterInv, TypeOK
<1>1. ASSUME NEW i \in Clients, FirstRequest(i) PROVE LimiterInv'
  <2>1. admitted[i] <= Rate * now
    BY <1>1 DEF LimiterInv, Earned, FirstRequest
  <2> DEFINE b == [tokens |-> Burst - 1, lastSeen |-> now]
  <2>2. b \in Bucket /\ b.lastSeen = now /\ b.tokens = Burst - 1
    BY <1>0, Constants DEF Bucket
  <2>3. admitted[i] + 1 \in Nat /\ (admitted[i] + 1) + b.tokens <= Burst + Rate * now
    BY <1>0, <2>1, <2>2, Constants
  <2>4. /\ visitors' = [visitors EXCEPT ![i] = b]
        /\ admitted' = [admitted EXCEPT ![i] = admitted[i] + 1]
        /\ now' = now
    BY <1>1 DEF FirstRequest
  <2> HIDE DEF b
  <2> QED
    BY <2>2, <2>3, <2>4, Charge
<1>2. ASSUME NEW i \in Clients, Allow(i) PROVE LimiterInv'
  <2>1. visitors[i] # Unknown /\ Refilled(visitors[i]) >= 1
    BY <1>2 DEF Allow
  <2>2. /\ admitted[i] + Refilled(visitors[i]) <= Burst + Rate * now
        /\ Refilled(visitors[i]) \in 0 .. Burst
    BY <2>1, KnownBucket
  <2> DEFINE b == [tokens |-> Refilled(visitors[i]) - 1, lastSeen |-> now]
  <2>3. b \in Bucket /\ b.lastSeen = now /\ b.tokens = Refilled(visitors[i]) - 1
    BY <1>0, <2>1, <2>2, Constants DEF Bucket
  <2>4. admitted[i] + 1 \in Nat /\ (admitted[i] + 1) + b.tokens <= Burst + Rate * now
    BY <1>0, <2>2, <2>3, Constants
  <2>5. /\ visitors' = [visitors EXCEPT ![i] = b]
        /\ admitted' = [admitted EXCEPT ![i] = admitted[i] + 1]
        /\ now' = now
    BY <1>2 DEF Allow
  <2> HIDE DEF b
  <2> QED
    BY <2>3, <2>4, <2>5, Charge
<1>3. ASSUME NEW i \in Clients, Refuse(i) PROVE LimiterInv'
  <2>1. visitors[i] # Unknown
    BY <1>3 DEF Refuse
  <2>2. /\ admitted[i] + Refilled(visitors[i]) <= Burst + Rate * now
        /\ Refilled(visitors[i]) \in 0 .. Burst
    BY <2>1, KnownBucket
  <2> DEFINE b == [tokens |-> Refilled(visitors[i]), lastSeen |-> now]
  <2>3. b \in Bucket /\ b.lastSeen = now /\ b.tokens = Refilled(visitors[i])
    BY <1>0, <2>2 DEF Bucket
  <2>4. admitted[i] \in Nat /\ admitted[i] + b.tokens <= Burst + Rate * now
    BY <1>0, <2>2, <2>3
  <2>5. /\ visitors' = [visitors EXCEPT ![i] = b]
        /\ admitted' = [admitted EXCEPT ![i] = admitted[i]]
        /\ now' = now
    BY <1>0, <1>3 DEF Refuse
  <2> HIDE DEF b
  <2> QED
    BY <2>3, <2>4, <2>5, Charge
<1>4. ASSUME NEW i \in Clients, Forget(i) PROVE LimiterInv'
  <2>1. /\ visitors[i] # Unknown /\ now - visitors[i].lastSeen > IdleTime
        /\ visitors' = [visitors EXCEPT ![i] = Unknown]
        /\ now' = now /\ admitted' = admitted
    BY <1>4 DEF Forget
  <2>2. /\ visitors[i].lastSeen \in Nat /\ visitors[i].lastSeen <= now
        /\ visitors[i].tokens \in Nat
    BY <2>1, KnownBucket
  <2>3. admitted[i] + visitors[i].tokens <= Burst + Rate * visitors[i].lastSeen
    BY <2>1 DEF LimiterInv, Earned
  <2>4. PICK s \in Nat : s = visitors[i].lastSeen
    BY <2>2
  <2>5. Rate * s + (now - s) * Rate = Rate * now /\ Rate * s \in Nat
    BY <1>0, <2>2, <2>4, Elapsed
  <2>6. (now - s) * Rate >= IdleTime * Rate /\ IdleTime * Rate >= Burst
    <3>1. PICK d \in Nat : now - s = IdleTime + d
      BY <1>0, <2>1, <2>2, <2>4, Constants
    <3>2. (IdleTime + d) * Rate = IdleTime * Rate + d * Rate /\ d * Rate \in Nat
      BY Constants, Z3
    <3>3. IdleTime * Rate = Rate * IdleTime /\ IdleTime * Rate \in Nat
      BY Constants, Z3
    <3> QED
      BY <3>1, <3>2, <3>3, Constants
  <2>7. admitted[i] <= Rate * now
    <3>1. admitted[i] \in Nat
      BY <1>0
    <3>2. (now - s) * Rate \in Nat
      BY <1>0, <2>2, <2>4, Elapsed
    <3>3. (now - s) * Rate >= Burst
      BY <2>6, <3>2, Constants
    <3> QED
      BY <1>0, <2>2, <2>3, <2>4, <2>5, <3>1, <3>2, <3>3, Constants
  <2>8. TypeOK'
    BY <2>1 DEF LimiterInv, TypeOK
  <2>9. Earned'
    BY <2>1, <2>7, <1>0 DEF LimiterInv, Earned
  <2> QED
    BY <2>8, <2>9 DEF LimiterInv
<1>5. ASSUME Tick PROVE LimiterInv'
  <2>1. now' = now + 1 /\ visitors' = visitors /\ admitted' = admitted
    BY <1>5 DEF Tick
  <2>2. Rate * now' \in Nat /\ Rate * now <= Rate * now'
    <3>1. Rate * (now + 1) = Rate * now + Rate
      BY <1>0, Constants, Z3
    <3> QED
      BY <1>0, <2>1, <3>1, Constants
  <2>3. TypeOK'
    BY <2>1 DEF LimiterInv, TypeOK
  <2>4. ASSUME NEW i \in Clients, visitors[i] # Unknown
        PROVE  visitors[i].lastSeen <= now'
    BY <1>0, <2>1, <2>4, KnownBucket
  <2>5. ASSUME NEW i \in Clients, visitors[i] = Unknown
        PROVE  admitted[i] <= Rate * now'
    BY <1>0, <2>2, <2>5 DEF LimiterInv, Earned
  <2>6. Earned'
    BY <2>1, <2>4, <2>5 DEF LimiterInv, Earned
  <2> QED
    BY <2>3, <2>6 DEF LimiterInv
<1>6. CASE UNCHANGED vars
  BY <1>6 DEF vars, LimiterInv, TypeOK, Earned
<1> QED
  BY <1>1, <1>2, <1>3, <1>4, <1>5, <1>6 DEF Next

\* In the composition the limiter does what RateLimiter says, or nothing.
LEMMA LimiterInvariant == AllSpec => []LimiterInv
<1>1. AllInit => LimiterInv
  BY InitLimiterInv DEF AllInit
<1>2. [AllNext]_allVars => [Next]_vars
  BY DEF AllNext, allVars, limiterVars, vars
<1>3. LimiterInv /\ [AllNext]_allVars => LimiterInv'
  BY <1>2, NextLimiterInv
<1> QED
  BY <1>1, <1>3, PTL DEF AllSpec


\* The budget of ratelimit.go: a client gets no more requests through than a
\* full bucket and the refill of the time that has passed.
THEOREM BudgetKept == AllSpec => []WithinBudget
<1>1. LimiterInv => WithinBudget
  <2> SUFFICES ASSUME LimiterInv, NEW i \in Clients
               PROVE  admitted[i] <= Burst + Rate * now
    BY DEF WithinBudget
  <2>1. admitted[i] \in Nat /\ Rate * now \in Nat
    BY Elapsed, Constants DEF LimiterInv, TypeOK
  <2>2. CASE visitors[i] = Unknown
    BY <2>1, <2>2, Constants DEF LimiterInv, Earned
  <2>3. CASE visitors[i] # Unknown
    <3>1. /\ admitted[i] + Refilled(visitors[i]) <= Burst + Rate * now
          /\ Refilled(visitors[i]) \in 0 .. Burst
      BY <2>3, KnownBucket
    <3> QED
      BY <2>1, <3>1, Constants
  <2> QED
    BY <2>2, <2>3
<1> QED
  BY <1>1, LimiterInvariant, PTL

-----------------------------------------------------------------------------
(* The lock *)

\* A handle at work whose time has not run out has its token in the key.
Holding == \A l \in Lockers : handle[l] = "holding" /\ l \notin late => key = l

LockInv == L!TypeOK /\ Holding

LEMMA NextLockInv ==
  ASSUME LockInv, [L!Next]_L!vars
  PROVE  LockInv'
<1> USE ServiceConstants DEF LockInv, L!TypeOK, L!Become
<1>1. ASSUME NEW l \in Lockers, L!Acquire(l) PROVE LockInv'
  <2>1. key = NoToken /\ key' = l /\ late' = late /\ handle' = [handle EXCEPT ![l] = "holding"]
    BY <1>1 DEF L!Acquire, L!SetNX
  <2>2. \A m \in Lockers : handle[m] = "holding" => m \in late
    BY <2>1 DEF Holding
  <2>3. Holding'
    BY <2>1, <2>2 DEF Holding
  <2> QED
    BY <2>1, <2>3
<1>2. ASSUME NEW l \in Lockers, L!AcquireWithRetry(l) \/ L!GiveUp(l) PROVE LockInv'
  <2>1. /\ key' = key /\ late' = late
        /\ handle' = [handle EXCEPT ![l] = "retrying"] \/ handle' = [handle EXCEPT ![l] = "idle"]
    BY <1>2 DEF L!AcquireWithRetry, L!GiveUp
  <2> QED
    BY <2>1 DEF Holding
<1>3. ASSUME NEW l \in Lockers, L!ReplyLost(l) PROVE LockInv'
  <2>1. key = NoToken /\ key' = l /\ late' = late /\ handle' = handle
    BY <1>3 DEF L!ReplyLost, L!SetNX
  <2> QED
    BY <2>1 DEF Holding
<1>4. ASSUME NEW l \in Lockers, L!Release(l) \/ L!ReleaseFails(l) PROVE LockInv'
  <2>1. /\ late' = late \ {l} /\ handle' = [handle EXCEPT ![l] = "idle"]
        /\ key' = key \/ (key = l /\ key' = NoToken)
    BY <1>4 DEF L!Release, L!ReleaseFails
  <2>2. Holding'
    BY <2>1 DEF Holding
  <2> QED
    BY <2>1, <2>2
<1>5. ASSUME L!Expire PROVE LockInv'
  <2>1. /\ key' = NoToken /\ handle' = handle
        /\ late' = IF handle[key] = "holding" THEN late \cup {key} ELSE late
        /\ key \in Lockers
    BY <1>5 DEF L!Expire
  <2>2. \A m \in Lockers : handle[m] = "holding" => m \in late'
    BY <2>1 DEF Holding
  <2> QED
    BY <2>1, <2>2 DEF Holding
<1>6. CASE UNCHANGED L!vars
  BY <1>6 DEF L!vars, Holding
<1> QED
  BY <1>1, <1>2, <1>3, <1>4, <1>5, <1>6 DEF L!Next

LEMMA LockInvariant == AllSpec => []LockInv
<1>1. AllInit => LockInv
  BY DEF AllInit, L!Init, LockInv, L!TypeOK, Holding
<1>2. [AllNext]_allVars => [L!Next]_L!vars
  BY DEF AllNext, allVars, lockVars, L!vars
<1>3. LockInv /\ [AllNext]_allVars => LockInv'
  BY <1>2, NextLockInv
<1> QED
  BY <1>1, <1>3, PTL DEF AllSpec

\* However keys expire and late handles release, at most one handle is at work
\* within its time to live (redis_lock.go).
THEOREM LockExclusive == AllSpec => []ExclusiveInTime
<1>1. LockInv => ExclusiveInTime
  BY DEF LockInv, Holding, ExclusiveInTime, L!ExclusiveInTime
<1> QED
  BY <1>1, LockInvariant, PTL

-----------------------------------------------------------------------------
(* The summaries *)

\* While calls come one at a time, a call that has a summary to store has the
\* newest one, or the one MongoDB holds; Redis and the readers are never ahead
\* of MongoDB.
OneAtATime == \A c, d \in Calls : ~S!At(c, "idle") /\ ~S!At(d, "idle") => c = d
Newest == \A c \in Calls : S!At(c, "save") => summaryCall[c].summary = made
Stored == \A c \in Calls : S!At(c, "fill") => stored # NoSummary /\ summaryCall[c].summary = stored
Behind ==
  /\ given <= made
  /\ stored # NoSummary => stored <= made /\ given <= stored
  /\ stored = NoSummary => given = 0 /\ cache = NoSummary
  /\ cache # NoSummary => given <= cache

SummariesInv == S!TypeOK /\ (~mixed => OneAtATime /\ Newest /\ Stored /\ Behind)

LEMMA NextSummariesInv ==
  ASSUME SummariesInv, [S!Next]_S!vars
  PROVE  SummariesInv'
<1> USE DEF SummariesInv
<1>0. /\ cache \in S!Summary \cup {NoSummary} /\ stored \in S!Summary \cup {NoSummary}
      /\ made \in Nat /\ given \in Nat /\ mixed \in BOOLEAN
      /\ summaryCall \in [Calls -> S!CallStates]
      /\ \A s \in S!Summary : s \in Nat /\ s >= 1
  BY ServiceConstants DEF S!TypeOK, S!Summary
\* A call that only moves on, without a summary, or with the one it had.
<1>1. ASSUME NEW c \in Calls, NEW stage \in {"lookup", "generate"}, S!Begin(c, stage)
      PROVE  SummariesInv'
  <2>1. /\ summaryCall' = [summaryCall EXCEPT ![c] = [at |-> stage]] /\ summaryCall[c].at = "idle"
        /\ cache' = cache /\ stored' = stored /\ made' = made /\ given' = given
        /\ mixed' = (mixed \/ \E d \in Calls : ~S!At(d, "idle"))
    BY <1>1 DEF S!Begin, S!GoOn, S!At
  <2>2. [at |-> stage] \in S!CallStates
    BY DEF S!CallStates
  <2>3. S!TypeOK'
    BY <1>0, <2>1, <2>2 DEF S!TypeOK
  <2>4. ASSUME ~mixed' PROVE (OneAtATime /\ Newest /\ Stored /\ Behind)'
    <3>1. ~mixed /\ \A d \in Calls : summaryCall[d].at = "idle"
      BY <2>1, <2>4, <1>0 DEF S!At
    <3>2. \A d \in Calls \ {c} : summaryCall'[d].at = "idle"
      BY <2>1, <3>1
    <3>3. summaryCall'[c].at = stage
      BY <2>1, <1>0
    <3>4. (OneAtATime /\ Newest /\ Stored)'
      BY <3>2, <3>3 DEF OneAtATime, Newest, Stored, S!At
    <3> QED
      BY <2>1, <3>1, <3>4 DEF Behind
  <2> QED
    BY <2>3, <2>4
\* A call that goes on with k while the stores stay.
<1>2. ASSUME NEW c \in Calls, NEW k \in S!CallStates, S!GoOn(c, k),
             cache' = cache, stored' = stored, given' = given, mixed' = mixed,
             made' \in made .. MaxSummaries, summaryCall[c].at # "idle",
             k.at = "save" => k.summary = made',
             k.at = "fill" => stored # NoSummary /\ k.summary = stored
      PROVE  SummariesInv'
  <2>1. summaryCall' = [summaryCall EXCEPT ![c] = k]
    BY <1>2 DEF S!GoOn
  <2>2. S!TypeOK'
    BY <1>0, <1>2, <2>1 DEF S!TypeOK
  <2>3. ASSUME ~mixed' PROVE (OneAtATime /\ Newest /\ Stored /\ Behind)'
    <3>1. \A d \in Calls \ {c} : summaryCall[d].at = "idle" /\ summaryCall'[d].at = "idle"
      BY <1>2, <2>1, <2>3 DEF OneAtATime, S!At
    <3>2. summaryCall'[c] = k
      BY <1>0, <2>1
    <3>3. (OneAtATime /\ Newest /\ Stored)'
      BY <1>2, <3>1, <3>2 DEF OneAtATime, Newest, Stored, S!At
    <3>4. Behind'
      BY <1>0, <1>2, <2>3 DEF Behind
    <3> QED
      BY <3>3, <3>4
  <2> QED
    BY <2>2, <2>3
<1>3. ASSUME NEW c \in Calls, S!GetBookSummary(c) PROVE SummariesInv'
  <2>1. /\ summaryCall[c].at = "lookup" /\ cache' = cache /\ stored' = stored /\ made' = made
        /\ given' = given /\ mixed' = mixed
    BY <1>3 DEF S!GetBookSummary, S!At
  <2>2. made' \in made .. MaxSummaries
    BY <1>0, <2>1 DEF SummariesInv, S!TypeOK
  <2>3. CASE stored = NoSummary
    <3> DEFINE k == [at |-> "generate"]
    <3>1. k \in S!CallStates /\ k.at = "generate" /\ S!GoOn(c, k)
      BY <1>3, <2>3 DEF S!GetBookSummary, S!CallStates
    <3> HIDE DEF k
    <3> QED
      BY <1>2, <2>1, <2>2, <3>1
  <2>4. CASE stored # NoSummary
    <3> DEFINE k == [at |-> "fill", summary |-> stored]
    <3>1. stored \in S!Summary
      BY <1>0, <2>4
    <3>2. k \in S!CallStates /\ k.at = "fill" /\ k.summary = stored
      BY <3>1 DEF S!CallStates
    <3>3. S!GoOn(c, k)
      BY <1>3, <2>4 DEF S!GetBookSummary
    <3> HIDE DEF k
    <3> QED
      BY <1>2, <2>1, <2>2, <2>4, <3>2, <3>3
  <2> QED
    BY <2>3, <2>4
<1>4. ASSUME NEW c \in Calls, S!LookupFails(c) PROVE SummariesInv'
  <2> DEFINE k == [at |-> "generate"]
  <2>1. /\ summaryCall[c].at = "lookup" /\ cache' = cache /\ stored' = stored /\ made' = made
        /\ given' = given /\ mixed' = mixed /\ S!GoOn(c, k)
    BY <1>4 DEF S!LookupFails, S!At
  <2>2. made' \in made .. MaxSummaries
    BY <1>0, <2>1 DEF S!TypeOK
  <2>3. k \in S!CallStates /\ k.at = "generate"
    BY DEF S!CallStates
  <2> HIDE DEF k
  <2> QED
    BY <1>2, <2>1, <2>2, <2>3
<1>5. ASSUME NEW c \in Calls, S!RunAgent(c) PROVE SummariesInv'
  <2> DEFINE k == [at |-> "save", summary |-> made + 1]
  <2>1. /\ summaryCall[c].at = "generate" /\ cache' = cache /\ stored' = stored /\ made' = made + 1
        /\ given' = given /\ mixed' = mixed /\ S!GoOn(c, k) /\ made < MaxSummaries
    BY <1>5 DEF S!RunAgent, S!At
  <2>2. made' \in made .. MaxSummaries
    BY <1>0, <2>1, ServiceConstants
  <2>3. made + 1 \in S!Summary
    BY <1>0, <2>1, ServiceConstants DEF S!Summary
  <2>4. k \in S!CallStates /\ k.at = "save" /\ k.summary = made'
    BY <2>1, <2>3 DEF S!CallStates
  <2> HIDE DEF k
  <2> QED
    BY <1>2, <2>1, <2>2, <2>4
<1>6. ASSUME NEW c \in Calls, S!AgentFails(c) PROVE SummariesInv'
  <2>1. /\ summaryCall[c].at = "generate" /\ cache' = cache /\ stored' = stored /\ made' = made
        /\ given' = given /\ mixed' = mixed /\ S!GoOn(c, S!Idle)
    BY <1>6 DEF S!AgentFails, S!At
  <2>2. made' \in made .. MaxSummaries
    BY <1>0, <2>1 DEF S!TypeOK
  <2>3. S!Idle \in S!CallStates /\ S!Idle.at = "idle"
    BY DEF S!CallStates, S!Idle
  <2> QED
    BY <1>2, <2>1, <2>2, <2>3
<1>7. ASSUME NEW c \in Calls, S!SaveBookSummary(c) PROVE SummariesInv'
  <2> DEFINE k == [at |-> "fill", summary |-> summaryCall[c].summary]
  <2>1. /\ summaryCall[c].at = "save" /\ cache' = cache /\ stored' = summaryCall[c].summary /\ made' = made
        /\ given' = given /\ mixed' = mixed /\ summaryCall' = [summaryCall EXCEPT ![c] = k]
    BY <1>7 DEF S!SaveBookSummary, S!At, S!GoOn
  <2>2. summaryCall[c].summary \in S!Summary
    BY <1>0, <2>1 DEF S!CallStates
  <2>3. k \in S!CallStates /\ k.at = "fill" /\ k.summary = summaryCall[c].summary
    BY <2>2 DEF S!CallStates
  <2>4. S!TypeOK'
    BY <1>0, <2>1, <2>2, <2>3 DEF S!TypeOK
  <2> HIDE DEF k
  <2>5. ASSUME ~mixed' PROVE (OneAtATime /\ Newest /\ Stored /\ Behind)'
    <3>1. \A d \in Calls \ {c} : summaryCall[d].at = "idle" /\ summaryCall'[d].at = "idle"
      BY <2>1, <2>5 DEF OneAtATime, S!At
    <3>2. summaryCall'[c] = k
      BY <1>0, <2>1
    <3>3. stored' = made /\ stored' # NoSummary
      BY <1>0, ServiceConstants, <2>1, <2>2, <2>5 DEF Newest, S!At
    <3>4. (OneAtATime /\ Newest /\ Stored)'
      BY <2>1, <2>3, <3>1, <3>2, <3>3 DEF OneAtATime, Newest, Stored, S!At
    <3>5. Behind'
      BY <1>0, <2>1, <2>5, <3>3 DEF Behind
    <3> QED
      BY <3>4, <3>5
  <2> QED
    BY <2>4, <2>5
\* A store failed: only the types are at stake.
<1>8. ASSUME NEW c \in Calls, S!SaveFails(c) \/ S!CacheSetFails(c) PROVE SummariesInv'
  <2>1. /\ cache' = cache /\ stored' = stored /\ made' = made /\ given' = given /\ mixed' = TRUE
        /\ \/ summaryCall[c].at = "save" /\ S!GoOn(c, [at |-> "fill", summary |-> summaryCall[c].summary])
           \/ S!GoOn(c, S!Idle)
    BY <1>8 DEF S!SaveFails, S!CacheSetFails, S!At
  <2>2. CASE summaryCall[c].at = "save" /\ S!GoOn(c, [at |-> "fill", summary |-> summaryCall[c].summary])
    <3>1. summaryCall[c].summary \in S!Summary
      BY <1>0, <2>2 DEF S!CallStates
    <3>2. [at |-> "fill", summary |-> summaryCall[c].summary] \in S!CallStates
      BY <3>1 DEF S!CallStates
    <3> QED
      BY <1>0, <2>1, <2>2, <3>2 DEF S!TypeOK, S!GoOn
  <2>3. CASE S!GoOn(c, S!Idle)
    <3>1. S!Idle \in S!CallStates
      BY DEF S!CallStates, S!Idle
    <3> QED
      BY <1>0, <2>1, <2>3, <3>1 DEF S!TypeOK, S!GoOn
  <2> QED
    BY <2>1, <2>2, <2>3
<1>9. ASSUME NEW c \in Calls, S!CacheSet(c) PROVE SummariesInv'
  <2>1. /\ summaryCall[c].at = "fill" /\ cache' = summaryCall[c].summary /\ stored' = stored /\ made' = made
        /\ given' = S!Later(summaryCall[c].summary) /\ mixed' = mixed
        /\ summaryCall' = [summaryCall EXCEPT ![c] = S!Idle]
    BY <1>9 DEF S!CacheSet, S!At, S!GoOn
  <2>2. summaryCall[c].summary \in S!Summary
    BY <1>0, <2>1 DEF S!CallStates
  <2>3. S!Idle \in S!CallStates /\ S!Idle.at = "idle"
    BY DEF S!CallStates, S!Idle
  <2>4. given' \in 0 .. MaxSummaries
    BY <1>0, <2>1, <2>2 DEF S!Later, S!TypeOK, S!Summary
  <2>5. S!TypeOK'
    BY <1>0, <2>1, <2>2, <2>3, <2>4 DEF S!TypeOK
  <2>6. ASSUME ~mixed' PROVE (OneAtATime /\ Newest /\ Stored /\ Behind)'
    <3>1. \A d \in Calls : summaryCall'[d].at = "idle"
      BY <1>0, <2>1, <2>3, <2>6 DEF OneAtATime, S!At
    <3>2. stored # NoSummary /\ summaryCall[c].summary = stored /\ given <= stored /\ stored <= made
      BY <2>1, <2>6 DEF Stored, Behind, S!At
    <3>3. given' = stored
      BY <1>0, <2>1, <2>2, <3>2 DEF S!Later
    <3>4. (OneAtATime /\ Newest /\ Stored)'
      BY <3>1 DEF OneAtATime, Newest, Stored, S!At
    <3>5. Behind'
      BY <1>0, <2>1, <2>2, <3>2, <3>3 DEF Behind
    <3> QED
      BY <3>4, <3>5
  <2> QED
    BY <2>5, <2>6
<1>10. ASSUME S!CacheExpires PROVE SummariesInv'
  <2>1. /\ cache' = NoSummary /\ stored' = stored /\ made' = made /\ summaryCall' = summaryCall
        /\ given' = given /\ mixed' = mixed
    BY <1>10 DEF S!CacheExpires
  <2>2. S!TypeOK'
    BY <1>0, <2>1 DEF S!TypeOK
  <2>3. ~mixed => (OneAtATime /\ Newest /\ Stored /\ Behind)'
    BY <2>1 DEF OneAtATime, Newest, Stored, Behind, S!At
  <2> QED
    BY <2>1, <2>2, <2>3
<1>11. CASE UNCHANGED S!vars
  BY <1>11 DEF S!vars, S!TypeOK, OneAtATime, Newest, Stored, Behind, S!At
<1>12. ASSUME NEW c \in Calls, NEW force \in BOOLEAN, S!GenerateBookSummary(c, force)
       PROVE  SummariesInv'
  BY <1>1, <1>12 DEF S!GenerateBookSummary
<1> QED
  BY <1>3, <1>4, <1>5, <1>6, <1>7, <1>8, <1>9, <1>10, <1>11, <1>12 DEF S!Next

LEMMA SummariesInvariant == AllSpec => []SummariesInv
<1>1. AllInit => SummariesInv
  <2> SUFFICES ASSUME S!Init
               PROVE  SummariesInv
    BY DEF AllInit
  <2>1. S!Idle \in S!CallStates /\ S!Idle.at = "idle"
    BY DEF S!CallStates, S!Idle
  <2>2. \A c \in Calls : summaryCall[c] = S!Idle
    BY DEF S!Init
  <2>3. 0 \in 0 .. MaxSummaries
    BY ServiceConstants
  <2>4. summaryCall \in [Calls -> S!CallStates]
    BY <2>1 DEF S!Init
  <2>5. S!TypeOK
    BY <2>3, <2>4 DEF S!Init, S!TypeOK
  <2> QED
    BY <2>1, <2>2, <2>5 DEF S!Init, SummariesInv, OneAtATime, Newest, Stored, Behind, S!At
<1>2. [AllNext]_allVars => [S!Next]_S!vars
  BY DEF AllNext, allVars, summaryVars, S!vars
<1>3. SummariesInv /\ [AllNext]_allVars => SummariesInv'
  BY <1>2, NextSummariesInv
<1> QED
  BY <1>1, <1>3, PTL DEF AllSpec

\* As long as calls of GenerateBookSummary come one at a time and no store
\* fails, no reader is given an older summary than one before.
THEOREM SummariesNeverOlder == AllSpec => []NeverOlder
<1>1. SummariesInv => S!NeverOlder
  <2> SUFFICES ASSUME SummariesInv, ~mixed
               PROVE  /\ cache # NoSummary => cache >= given
                      /\ given > 0 => stored # NoSummary /\ stored >= given
    BY DEF S!NeverOlder
  <2>1. /\ cache \in S!Summary \cup {NoSummary} /\ stored \in S!Summary \cup {NoSummary}
        /\ given \in Nat /\ \A s \in S!Summary : s \in Nat
    BY ServiceConstants DEF SummariesInv, S!TypeOK, S!Summary
  <2> QED
    BY <2>1 DEF SummariesInv, Behind
<1>2. SummariesInv => NeverOlder
  BY <1>1 DEF NeverOlder
<1> QED
  BY <1>2, SummariesInvariant, PTL

-----------------------------------------------------------------------------
(* Remainders *)

\* A product with a positive number.
LEMMA TimesAtLeast ==
  ASSUME NEW m \in Nat, NEW n \in Nat, n >= 1
  PROVE  m * n \in Nat /\ m * n >= m
  BY Z3

\* Division with a remainder.
LEMMA Quotient ==
  ASSUME NEW a \in Nat, NEW m \in Nat, m >= 1
  PROVE  \E n \in Nat : a = (m * n) + (a % m) /\ a % m \in 0 .. m - 1
<1>1. a \div m \in Nat /\ a % m \in 0 .. m - 1
  BY Z3
<1>2. a = (m * (a \div m)) + (a % m)
  BY Z3
<1> QED
  BY <1>1, <1>2

\* The remainder is the only one there is.
LEMMA Remainder ==
  ASSUME NEW m \in Nat, m >= 1, NEW n \in Nat, NEW r \in 0 .. m - 1
  PROVE  (m * n + r) % m = r
<1> PICK k \in Nat : k = m * n
  BY Z3
<1>1. PICK q \in Nat : k + r = (m * q) + ((k + r) % m) /\ (k + r) % m \in 0 .. m - 1
  <2>1. k + r \in Nat
    OBVIOUS
  <2> QED
    BY <2>1, Quotient, Zenon
<1> PICK s \in 0 .. m - 1 : s = (k + r) % m
  BY <1>1
<1>2. m * n + r = m * q + s
  BY <1>1
<1>3. CASE q = n
  BY <1>2, <1>3, Z3
<1>4. CASE q < n
  <2> PICK d \in Nat : n = q + d /\ d >= 1
    BY <1>4
  <2>1. m * n = m * q + m * d
    BY Z3
  <2>2. m * d >= m
    BY TimesAtLeast
  <2> PICK x \in Nat, y \in Nat : x = m * q /\ y = m * d
    BY Z3
  <2> QED
    BY <1>2, <2>1, <2>2
<1>5. CASE n < q
  <2> PICK d \in Nat : q = n + d /\ d >= 1
    BY <1>5
  <2>1. m * q = m * n + m * d
    BY Z3
  <2>2. m * d >= m
    BY TimesAtLeast
  <2> PICK x \in Nat, y \in Nat : x = m * n /\ y = m * d
    BY Z3
  <2> QED
    BY <1>2, <2>1, <2>2
<1> QED
  BY <1>3, <1>4, <1>5

\* The orders of a shard are numbered from 1, and lie where their user and their
\* number say, but for seeded ones whose user is displaced.
Numbered(i) == /\ \E n \in Nat : {o.id : o \in shards[i]} = 1 .. n
               /\ \A o, p \in shards[i] : o.id = p.id => o = p
InPlace(i, o) == O!Displaced(i, o) \/ O!GetDB(o.user) = i
Placed(i) == \A o \in shards[i] :
               InPlace(i, o) /\ o.no = O!ShardKeyInNo(o.user) /\ o.at <= second

\* What a walk lists now, and the ids of what is listed before a second.
Current == O!Listed(walk.user, walk.status)
Above(t) == {o.id : o \in {p \in Current : p.at > t}}

\* An order that was there when the walk began is still listed; it was read, or
\* the pages that were read hold only later ones.
WalkFollows ==
  walk # O!NoWalk =>
    /\ walk.status \in {"pending_payment", Anything}
    /\ ~left /\ ~O!Tied(walk.user) =>
         /\ \A d \in walk.there : \E o \in Current : o.id = d
         /\ walk.page = 0 => walk.there \subseteq walk.seen
         /\ walk.page > 0 =>
              \A o \in Current : o.id \in walk.there \ walk.seen =>
                Cardinality(Above(o.at)) >= (walk.page - 1) * walk.size

OrdersInv == O!TypeOK /\ WalkFollows /\ \A i \in O!Shards : Numbered(i) /\ Placed(i)

-----------------------------------------------------------------------------
(* Shards *)

\* The shard key of an order number leads to the shard of its user.
LEMMA RightShard ==
  ASSUME NEW u \in Nat
  PROVE  /\ O!GetDB(u) \in O!Shards
         /\ O!ShardKeyInNo(u) \in 0 .. 99
         /\ O!GetDB(O!ShardKeyInNo(u)) = O!GetDB(u)
<1>0. PICK m \in Nat : m = ShardCount /\ m >= 1
  BY OrderConstants
<1>1. PICK q \in Nat : 100 = (m * q) + (100 % m)
  BY <1>0, Quotient, ZenonT(60)
<1>2. 100 = m * q
  BY <1>0, <1>1, OrderConstants
<1>3. PICK n \in Nat, r \in 0 .. 99 : u = (100 * n) + r /\ r = u % 100
  <2>1. PICK c : c = 100
    OBVIOUS
  <2>2. c \in Nat /\ c >= 1
    BY <2>1
  <2>3. \E n \in Nat : u = (c * n) + (u % c) /\ u % c \in 0 .. c - 1
    BY <2>2, Quotient
  <2> QED
    BY <2>1, <2>3
<1>4. PICK k \in Nat, t \in 0 .. m - 1 : r = (m * k) + t /\ t = r % m
  <2>1. \E k \in Nat : r = (m * k) + (r % m) /\ r % m \in 0 .. m - 1
    <3>1. r \in Nat
      OBVIOUS
    <3> QED
      BY <1>0, <3>1, Quotient
  <2> QED
    BY <2>1
<1>5. PICK l \in Nat : l = q * n + k
  BY Z3
<1>6. u = m * l + t
  <2>1. (m * q) * n = m * (q * n) /\ q * n \in Nat
    BY Z3
  <2>2. m * l = m * (q * n) + m * k
    BY <1>5, <2>1, Z3
  <2>3. PICK x \in Int, y \in Int : x = m * (q * n) /\ y = m * k
    BY Z3
  <2>4. 100 * n = x
    BY <1>2, <2>1, <2>3
  <2>5. u = (100 * n) + r /\ r = y + t
    BY <1>3, <1>4, <2>3
  <2>6. m * l = x + y
    BY <2>2, <2>3
  <2> QED
    BY <2>4, <2>5, <2>6
<1>7. (m * l + t) % m = t
  BY <1>0, Remainder
<1> QED
  BY <1>0, <1>3, <1>4, <1>6, <1>7 DEF O!GetDB, O!Shards, O!ShardKeyInNo

\* seed-big makes up users of the shard it fills, as long as they do not wrap or
\* the shards divide the users.
LEMMA SeedUser ==
  ASSUME NEW i \in O!Shards, NEW k \in Nat
  PROVE  /\ O!userIDForShard(i, k) \in 1 .. SeedUsers
         /\ ~O!Wraps(i, k) \/ SeedUsers % ShardCount = 0 =>
              O!GetDB(O!userIDForShard(i, k)) = i
<1>0. PICK m \in Nat : m = ShardCount /\ m >= 1
  BY OrderConstants
<1>1. i \in 0 .. m - 1
  BY <1>0 DEF O!Shards
<1>2. PICK uid \in Nat, j \in Nat :
        /\ uid = O!UserOfShard(i, k)
        /\ uid = m * j + i /\ uid >= 1
  <2>1. PICK x \in Nat : x = m * k
    BY Z3
  <2>2. PICK uid : uid = x + (IF i = 0 THEN m ELSE i)
    OBVIOUS
  <2>3. uid = O!UserOfShard(i, k)
    BY <1>0, <2>1, <2>2 DEF O!UserOfShard
  <2>4. CASE i = 0
    <3>1. m * (k + 1) = x + m
      BY <2>1, Z3
    <3>2. uid = m * (k + 1) + 0 /\ uid \in Nat /\ uid >= 1
      BY <1>0, <2>2, <2>4, <3>1
    <3>3. uid = m * (k + 1) + i /\ k + 1 \in Nat
      BY <2>4, <3>2
    <3> QED
      BY <2>3, <3>2, <3>3
  <2>5. CASE i # 0
    <3>1. uid = m * k + i /\ uid \in Nat /\ uid >= 1
      BY <1>1, <2>1, <2>2, <2>5
    <3> QED
      BY <2>3, <3>1
  <2> QED
    BY <2>4, <2>5
<1>3. /\ O!userIDForShard(i, k) = IF uid > SeedUsers THEN ((uid - 1) % SeedUsers) + 1 ELSE uid
      /\ O!Wraps(i, k) <=> uid > SeedUsers
  BY <1>2 DEF O!userIDForShard, O!Wraps
<1>4. uid % m = i
  <2>1. (m * j + i) % m = i
    BY <1>0, <1>1, Remainder
  <2> QED
    BY <1>2, <2>1
<1>5. CASE ~(uid > SeedUsers)
  <2>1. O!userIDForShard(i, k) = uid
    BY <1>3, <1>5
  <2>2. uid \in 1 .. SeedUsers
    <3>1. uid >= 1 /\ SeedUsers \in Nat
      BY <1>2, OrderConstants
    <3> QED
      BY <1>5, <3>1
  <2> QED
    BY <1>0, <1>4, <2>1, <2>2 DEF O!GetDB
<1>6. CASE uid > SeedUsers
  <2>1. PICK w \in Nat : w = SeedUsers /\ w >= 1
    BY OrderConstants
  <2>2. PICK z \in Nat : z = uid - 1
    BY <1>2
  <2>3. PICK n \in Nat, r \in 0 .. w - 1 : z = (w * n) + r /\ r = z % w
    <3>1. \E n \in Nat : z = (w * n) + (z % w) /\ z % w \in 0 .. w - 1
      BY <2>1, Quotient
    <3> QED
      BY <3>1
  <2>4. O!userIDForShard(i, k) = r + 1
    BY <1>3, <1>6, <2>1, <2>2, <2>3
  <2>5. ASSUME SeedUsers % ShardCount = 0
         PROVE  (r + 1) % m = i
    <3>1. PICK p \in Nat : w = m * p
      <4>1. \E p \in Nat : w = (m * p) + (w % m) /\ w % m \in 0 .. m - 1
        BY <1>0, Quotient
      <4>2. w % m = 0
        BY <1>0, <2>1, <2>5
      <4> QED
        BY <4>1, <4>2
    <3>2. PICK h \in Nat, t \in 0 .. m - 1 : r + 1 = (m * h) + t /\ t = (r + 1) % m
      <4>1. PICK y \in Nat : y = r + 1
        OBVIOUS
      <4>2. \E h \in Nat : y = (m * h) + (y % m) /\ y % m \in 0 .. m - 1
        BY <1>0, Quotient
      <4> QED
        BY <4>1, <4>2
    <3>3. PICK l \in Nat : l = p * n + h
      BY Z3
    <3>4. uid = m * l + t
      <4>1. (m * p) * n = m * (p * n) /\ p * n \in Nat
        BY Z3
      <4>2. m * l = m * (p * n) + m * h
        BY <3>3, <4>1, Z3
      <4>3. PICK x \in Int, y \in Int : x = m * (p * n) /\ y = m * h
        BY Z3
      <4>4. w * n = x
        BY <3>1, <4>1, <4>3
      <4>5. z = x + r
        BY <2>3, <4>4
      <4>6. uid = x + r + 1 /\ r + 1 = y + t
        BY <1>2, <2>2, <3>2, <4>3, <4>5
      <4>7. m * l = x + y
        BY <4>2, <4>3
      <4> QED
        BY <4>6, <4>7
    <3>5. (m * l + t) % m = t
      BY <1>0, Remainder
    <3>6. (r + 1) % m = i
      BY <1>4, <3>2, <3>4, <3>5
    <3> QED
      BY <3>6
  <2>6. r + 1 \in 1 .. SeedUsers
    BY <2>1
  <2> QED
    BY <1>0, <1>3, <1>6, <2>4, <2>5, <2>6 DEF O!GetDB
<1> QED
  BY <1>5, <1>6

-----------------------------------------------------------------------------
(* Counting *)

\* OrderIndex counts as the theorems do.
LEMMA CountsAlike == \A T : O!Cardinality(T) = Cardinality(T)
  BY DEF O!Cardinality, Cardinality, O!IsFiniteSet, IsFiniteSet

\* Two sets with a one-to-one correspondence.
LEMMA SameCount ==
  ASSUME NEW T, NEW V, NEW f \in [T -> V],
         \A x, y \in T : f[x] = f[y] => x = y, \A v \in V : \E x \in T : f[x] = v,
         IsFiniteSet(T) \/ IsFiniteSet(V)
  PROVE  IsFiniteSet(T) /\ IsFiniteSet(V) /\ Cardinality(T) = Cardinality(V)
<1>1. ExistsBijection(T, V)
  BY Fun_IsBij, Fun_ExistsBij
<1>2. ExistsBijection(V, T)
  BY <1>1, Fun_ExistsBijSymmetric
<1> QED
  BY <1>1, <1>2, FS_Bijection

\* A shard has as many orders as its highest id.
LEMMA HighestId ==
  ASSUME NEW i \in O!Shards, Numbered(i)
  PROVE  /\ IsFiniteSet(shards[i]) /\ Cardinality(shards[i]) \in Nat
         /\ {o.id : o \in shards[i]} = 1 .. Cardinality(shards[i])
<1> PICK n \in Nat : {o.id : o \in shards[i]} = 1 .. n
  BY DEF Numbered
<1> PICK rows : rows = shards[i]
  OBVIOUS
<1> DEFINE f == [o \in rows |-> o.id]
<1>1. f \in [rows -> 1 .. n] /\ \A v \in 1 .. n : \E o \in rows : f[o] = v
  OBVIOUS
<1>2. \A o, p \in rows : f[o] = f[p] => o = p
  BY DEF Numbered
<1>3. IsFiniteSet(1 .. n) /\ Cardinality(1 .. n) = n
  BY FS_Interval
<1> HIDE DEF f
<1>4. IsFiniteSet(rows) /\ Cardinality(rows) = n
  BY <1>1, <1>2, <1>3, SameCount
<1> QED
  BY <1>4

\* A shard has no more orders than there are.
LEMMA ShardCounts ==
  ASSUME OrdersInv, NEW i \in O!Shards
  PROVE  Cardinality(shards[i]) <= Cardinality(O!Orders) /\ Cardinality(O!Orders) \in Nat
<1>1. \A j \in O!Shards : IsFiniteSet(shards[j])
  BY HighestId DEF OrdersInv
<1> DEFINE f == [j \in O!Shards |-> shards[j]]
           T == {shards[j] : j \in O!Shards}
<1>2. f \in Surjection(O!Shards, T)
  <2>1. f \in [O!Shards -> T] /\ \A t \in T : \E j \in O!Shards : f[j] = t
    OBVIOUS
  <2> QED
    BY <2>1 DEF Surjection
<1>3. IsFiniteSet(O!Shards)
  BY FS_Interval, OrderConstants DEF O!Shards
<1> HIDE DEF f
<1>4. IsFiniteSet(T)
  BY <1>2, <1>3, FS_Surjection
<1>5. O!Orders = UNION T
  BY DEF O!Orders
<1>6. \A t \in T : IsFiniteSet(t)
  BY <1>1
<1>7. IsFiniteSet(O!Orders)
  BY <1>4, <1>5, <1>6, FS_UNION
<1>8. shards[i] \subseteq O!Orders
  BY DEF O!Orders
<1> QED
  BY <1>7, <1>8, FS_Subset, FS_CardinalityType

LEMMA OrderFields ==
  /\ \A o \in O!Order :
       /\ o.id \in 1 .. MaxOrders /\ o.user \in Nat /\ o.at \in Nat
       /\ o.at \in 0 .. MaxSecond /\ o.status \in O!Statuses
       /\ LET paid == [o EXCEPT !.status = "paid"] IN
          /\ paid \in O!Order /\ paid.id = o.id /\ paid.user = o.user
          /\ paid.no = o.no /\ paid.at = o.at /\ paid.status = "paid"
  /\ \A id \in 1 .. MaxOrders, at \in 0 .. MaxSecond, status \in O!Statuses :
       \A u \in Users \cup 1 .. SeedUsers :
         LET o == O!NewOrder(id, u, at, status) IN
         /\ o \in O!Order /\ o.id = id /\ o.user = u /\ o.at = at /\ o.status = status
         /\ o.no = O!ShardKeyInNo(u)
<1>0. \A u \in Users \cup 1 .. SeedUsers : u \in Nat
  BY OrderConstants
<1>1. ASSUME NEW o \in O!Order
      PROVE  /\ o.id \in 1 .. MaxOrders /\ o.user \in Nat /\ o.at \in Nat
             /\ o.at \in 0 .. MaxSecond /\ o.status \in O!Statuses
             /\ LET paid == [o EXCEPT !.status = "paid"] IN
                /\ paid \in O!Order /\ paid.id = o.id /\ paid.user = o.user
                /\ paid.no = o.no /\ paid.at = o.at /\ paid.status = "paid"
  BY <1>0 DEF O!Order, O!Statuses
<1>2. ASSUME NEW id \in 1 .. MaxOrders, NEW at \in 0 .. MaxSecond, NEW status \in O!Statuses,
             NEW u \in Users \cup 1 .. SeedUsers
      PROVE  LET o == O!NewOrder(id, u, at, status) IN
             /\ o \in O!Order /\ o.id = id /\ o.user = u /\ o.at = at /\ o.status = status
             /\ o.no = O!ShardKeyInNo(u)
  <2>1. O!ShardKeyInNo(u) \in 0 .. 99
    BY <1>0, RightShard
  <2> QED
    BY <2>1 DEF O!NewOrder, O!Order
<1> QED
  BY <1>1, <1>2

-----------------------------------------------------------------------------
(* The rows *)

RowsInv == O!TypeOK /\ \A i \in O!Shards : Numbered(i) /\ Placed(i)

LEMMA RowFacts ==
  ASSUME RowsInv, NEW i \in O!Shards, NEW o \in shards[i]
  PROVE  /\ o \in O!Order /\ o.at <= second
         /\ o.id \in 1 .. Cardinality(shards[i])
<1>1. o \in O!Order
  BY DEF RowsInv, O!TypeOK
<1>2. o.id \in 1 .. Cardinality(shards[i])
  BY HighestId DEF RowsInv
<1> QED
  BY <1>1, <1>2 DEF RowsInv, Placed

LEMMA TypeOfOrders ==
  ASSUME O!TypeOK
  PROVE  shards \in [O!Shards -> SUBSET O!Order] /\ second \in 1 .. MaxSecond
  BY DEF O!TypeOK

LEMMA InitRows == AllInit => RowsInv
<1> SUFFICES ASSUME O!Init
             PROVE  RowsInv
  BY DEF AllInit
<1>1. second = 1 /\ 1 \in 1 .. MaxSecond /\ 0 \in 0 .. MaxSecond /\ walk = O!NoWalk /\ left = FALSE
  BY OrderConstants DEF O!Init
<1>2. CASE shards = [i \in O!Shards |-> {}]
  <2>1. 0 \in Nat /\ 1 .. 0 = {}
    OBVIOUS
  <2>2. \A i \in O!Shards : Numbered(i) /\ Placed(i)
    BY <1>2, <2>1 DEF Numbered, Placed
  <2> QED
    BY <1>1, <1>2, <2>2 DEF RowsInv, O!TypeOK
<1>3. ASSUME NEW status \in [O!Shards \X (0 .. O!Target(0) - 1) -> O!Statuses],
             shards = O!seedOrders(status)
      PROVE  RowsInv
  <2>1. \A i \in O!Shards : /\ O!Target(i) \in Nat /\ O!Target(i) <= MaxOrders
                            /\ O!Target(i) <= O!Target(0)
    <3>1. PICK m \in Nat : m = ShardCount /\ m >= 1
      BY OrderConstants
    <3>2. PICK a \in Nat : a = SeedOrders /\ a <= MaxOrders
      BY OrderConstants
    <3>3. PICK d \in Nat, r \in 0 .. m - 1 : a = (m * d) + r /\ r = a % m /\ d = a \div m
      <4>1. a \div m \in Nat /\ a % m \in 0 .. m - 1
        BY <3>1, Z3
      <4>2. a = (m * (a \div m)) + (a % m)
        BY <3>1, Z3
      <4> QED
        BY <4>1, <4>2
    <3>4. m * d \in Nat /\ m * d >= d
      BY <3>1, Z3
    <3>5. PICK x \in Nat : x = m * d
      BY <3>4
    <3>6. \A i \in O!Shards : O!Target(i) = d + (IF i < r THEN 1 ELSE 0) /\ i \in 0 .. m - 1
      BY <3>1, <3>2, <3>3 DEF O!Target, O!Shards
    <3>7. a = x + r /\ x >= d
      BY <3>3, <3>4, <3>5
    <3>8. 0 \in O!Shards
      BY <3>1 DEF O!Shards
    <3>9. MaxOrders \in Nat
      BY OrderConstants
    <3> QED
      BY <3>2, <3>6, <3>7, <3>8, <3>9
  <2>2. ASSUME NEW i \in O!Shards
        PROVE  shards[i] \subseteq O!Order /\ Numbered(i) /\ Placed(i)
    <3>1. PICK n \in Nat : n = O!Target(i) /\ n <= MaxOrders /\ n <= O!Target(0)
      BY <2>1
    <3>2. PICK uid : uid = [k \in 0 .. n - 1 |-> O!userIDForShard(i, k)]
      OBVIOUS
    <3>3. PICK row : row = [k \in 0 .. n - 1 |-> O!NewOrder(k + 1, uid[k], 0, status[<<i, k>>])]
      OBVIOUS
    <3>4. ASSUME NEW k \in 0 .. n - 1
          PROVE  /\ row[k] \in O!Order /\ row[k].id = k + 1 /\ row[k].at = 0
                 /\ InPlace(i, row[k]) /\ row[k].no = O!ShardKeyInNo(row[k].user)
      <4>1. /\ uid[k] \in 1 .. SeedUsers
            /\ ~O!Wraps(i, k) \/ SeedUsers % ShardCount = 0 => O!GetDB(uid[k]) = i
        BY <3>2, SeedUser
      <4>2. status[<<i, k>>] \in O!Statuses
        <5>1. O!Target(0) \in Nat /\ k \in 0 .. O!Target(0) - 1
          <6>1. 0 \in O!Shards
            BY OrderConstants DEF O!Shards
          <6>2. O!Target(0) \in Nat
            BY <2>1, <6>1
          <6> QED
            BY <3>1, <6>2
        <5> QED
          BY <5>1
      <4>3. k + 1 \in 1 .. MaxOrders
        BY <3>1, OrderConstants
      <4>4. PICK st \in O!Statuses : st = status[<<i, k>>]
        BY <4>2
      <4>5. row[k] = O!NewOrder(k + 1, uid[k], 0, st)
        BY <3>3, <4>4
      <4>6. /\ row[k] \in O!Order /\ row[k].id = k + 1 /\ row[k].at = 0
            /\ row[k].user = uid[k] /\ row[k].no = O!ShardKeyInNo(row[k].user)
        BY <1>1, <4>1, <4>3, <4>5, OrderFields
      <4>7. row[k].id - 1 = k
        BY <4>6
      <4> QED
        BY <4>1, <4>6, <4>7 DEF InPlace, O!Displaced
    <3>5. shards[i] = {row[k] : k \in 0 .. n - 1}
      BY <1>3, <3>1, <3>2, <3>3 DEF O!seedOrders
    <3>6. {o.id : o \in shards[i]} = 1 .. n
      <4>1. \A o \in shards[i] : o.id \in 1 .. n
        BY <3>4, <3>5
      <4>2. ASSUME NEW id \in 1 .. n
            PROVE  \E o \in shards[i] : o.id = id
        <5>1. id - 1 \in 0 .. n - 1 /\ (id - 1) + 1 = id
          OBVIOUS
        <5> QED
          BY <3>4, <3>5, <5>1
      <4> QED
        BY <4>1, <4>2
    <3>7. \A o, p \in shards[i] : o.id = p.id => o = p
      <4> SUFFICES ASSUME NEW k \in 0 .. n - 1, NEW l \in 0 .. n - 1, row[k].id = row[l].id
                   PROVE  row[k] = row[l]
        BY <3>5
      <4>1. k = l
        BY <3>4
      <4> QED
        BY <4>1
    <3> QED
      BY <1>1, <3>4, <3>5, <3>6, <3>7 DEF Numbered, Placed
  <2>3. shards = [i \in O!Shards |-> shards[i]]
    BY <1>3 DEF O!seedOrders
  <2>4. shards \in [O!Shards -> SUBSET O!Order]
    BY <2>2, <2>3
  <2> QED
    BY <1>1, <2>2, <2>4 DEF RowsInv, O!TypeOK
<1> QED
  BY <1>2, <1>3 DEF O!Init

\* A new row takes the next id.
LEMMA CreatesRow ==
  ASSUME OrdersInv, NEW u \in Users, O!CreateOrder(u)
  PROVE  LET i == O!GetDB(u)
             row == O!NewOrder(Cardinality(shards[i]) + 1, u, second, "pending_payment")
         IN /\ RowsInv' /\ i \in O!Shards /\ row \in O!Order /\ row.user = u /\ row.at = second
            /\ row.id = Cardinality(shards[i]) + 1
            /\ shards' = [shards EXCEPT ![i] = shards[i] \cup {row}]
<1>1. PICK i \in O!Shards : i = O!GetDB(u)
  BY RightShard, OrderConstants
<1>2. PICK n \in Nat : n = Cardinality(shards[i]) /\ {o.id : o \in shards[i]} = 1 .. n
  BY HighestId DEF OrdersInv
<1>3. n + 1 \in 1 .. MaxOrders
  <2>1. Cardinality(O!Orders) < MaxOrders /\ n <= Cardinality(O!Orders)
        /\ Cardinality(O!Orders) \in Nat
    BY <1>2, ShardCounts, CountsAlike DEF O!CreateOrder
  <2> QED
    BY <2>1, OrderConstants
<1>4. PICK row : row = O!NewOrder(n + 1, u, second, "pending_payment")
  OBVIOUS
<1>5. /\ row \in O!Order /\ row.id = n + 1 /\ row.user = u /\ row.at = second
      /\ row.no = O!ShardKeyInNo(u)
  BY <1>3, <1>4, OrderFields, TypeOfOrders DEF OrdersInv, O!Statuses
<1>6. shards' = [shards EXCEPT ![i] = shards[i] \cup {row}]
  BY <1>1, <1>2, <1>4, CountsAlike DEF O!CreateOrder
<1>7. second' = second /\ walk' = walk /\ left' = left /\ second \in Nat
      /\ shards \in [O!Shards -> SUBSET O!Order]
  BY OrderConstants DEF O!CreateOrder, OrdersInv, O!TypeOK
<1>8. O!TypeOK'
  BY <1>5, <1>6, <1>7 DEF OrdersInv, O!TypeOK
<1>9. ASSUME NEW j \in O!Shards
      PROVE  (Numbered(j) /\ Placed(j))'
  <2>1. CASE j # i
    <3>1. shards'[j] = shards[j]
      BY <1>6, <1>7, <2>1
    <3> QED
      BY <1>7, <3>1 DEF OrdersInv, Numbered, Placed
  <2>2. CASE j = i
    <3>1. PICK rows : rows = shards[i]
      OBVIOUS
    <3>2. shards'[j] = rows \cup {row}
      BY <1>6, <1>7, <2>2, <3>1
    <3>3. /\ \A o, p \in rows : o.id = p.id => o = p
          /\ \A o \in rows : InPlace(i, o) /\ o.no = O!ShardKeyInNo(o.user) /\ o.at <= second
      BY <3>1 DEF OrdersInv, Numbered, Placed
    <3>4. {o.id : o \in rows \cup {row}} = 1 .. n + 1
      <4>1. {o.id : o \in rows \cup {row}} = {o.id : o \in rows} \cup {n + 1}
        BY <1>5
      <4> QED
        BY <1>2, <3>1, <4>1
    <3>5. \A o, p \in rows \cup {row} : o.id = p.id => o = p
      <4>1. \A o \in rows : o.id \in 1 .. n
        BY <1>2, <3>1
      <4> QED
        BY <1>5, <3>3, <4>1
    <3>6. Numbered(j)'
      BY <3>2, <3>4, <3>5 DEF Numbered
    <3>7. Placed(j)'
      BY <1>1, <1>5, <1>7, <2>2, <3>2, <3>3 DEF Placed, InPlace
    <3> QED
      BY <3>6, <3>7
  <2> QED
    BY <2>1, <2>2
<1> QED
  BY <1>1, <1>2, <1>4, <1>5, <1>6, <1>8, <1>9 DEF RowsInv

\* A row that is paid stays where it was.
LEMMA PaysRow ==
  ASSUME OrdersInv, NEW i \in O!Shards, NEW o \in shards[i], O!UpdateStatus(i, o)
  PROVE  LET paid == [o EXCEPT !.status = "paid"]
         IN /\ RowsInv' /\ o \in O!Order
            /\ shards' = [shards EXCEPT ![i] = (shards[i] \ {o}) \cup {paid}]
<1>1. o \in O!Order
  BY RowFacts DEF OrdersInv, RowsInv
<1>2. PICK paid : paid = [o EXCEPT !.status = "paid"]
  OBVIOUS
<1>3. paid \in O!Order /\ paid.id = o.id /\ paid.user = o.user /\ paid.no = o.no /\ paid.at = o.at
  BY <1>1, <1>2, OrderFields
<1>4. shards' = [shards EXCEPT ![i] = (shards[i] \ {o}) \cup {paid}]
  BY <1>1, <1>2 DEF O!UpdateStatus
<1>5. second' = second /\ walk' = walk /\ shards \in [O!Shards -> SUBSET O!Order]
      /\ left' \in BOOLEAN
  BY DEF O!UpdateStatus, OrdersInv, O!TypeOK
<1>6. O!TypeOK'
  BY <1>3, <1>4, <1>5 DEF OrdersInv, O!TypeOK
<1>7. ASSUME NEW j \in O!Shards
      PROVE  (Numbered(j) /\ Placed(j))'
  <2>1. CASE j # i
    <3>1. shards'[j] = shards[j]
      BY <1>4, <1>5, <2>1
    <3> QED
      BY <1>5, <3>1 DEF OrdersInv, Numbered, Placed
  <2>2. CASE j = i
    <3>1. PICK rows : rows = shards[i]
      OBVIOUS
    <3>2. shards'[j] = (rows \ {o}) \cup {paid}
      BY <1>4, <1>5, <2>2, <3>1
    <3>3. /\ \A p, q \in rows : p.id = q.id => p = q
          /\ \A p \in rows : InPlace(i, p) /\ p.no = O!ShardKeyInNo(p.user) /\ p.at <= second
          /\ \E n \in Nat : {p.id : p \in rows} = 1 .. n
      BY <3>1 DEF OrdersInv, Numbered, Placed
    <3>4. {p.id : p \in (rows \ {o}) \cup {paid}} = {p.id : p \in rows}
      BY <1>3, <3>1
    <3>5. \A p, q \in (rows \ {o}) \cup {paid} : p.id = q.id => p = q
      BY <1>3, <3>1, <3>3
    <3>6. Numbered(j)'
      BY <3>2, <3>3, <3>4, <3>5 DEF Numbered
    <3>7. Placed(j)'
      BY <1>3, <1>5, <2>2, <3>1, <3>2, <3>3 DEF Placed, InPlace, O!Displaced
    <3> QED
      BY <3>6, <3>7
  <2> QED
    BY <2>1, <2>2
<1> QED
  BY <1>1, <1>2, <1>4, <1>6, <1>7 DEF RowsInv

-----------------------------------------------------------------------------
(* The walk through a list *)

\* What is listed of a user lies on one shard, and has its own ids.
LEMMA ListedFacts ==
  ASSUME RowsInv, NEW u \in Nat, NEW status
  PROVE  /\ O!Listed(u, status) \subseteq shards[O!GetDB(u)] /\ O!GetDB(u) \in O!Shards
         /\ O!Listed(u, status) \subseteq O!Order
         /\ IsFiniteSet(O!Listed(u, status)) /\ Cardinality(O!Listed(u, status)) <= MaxOrders
         /\ Cardinality(O!Listed(u, status)) \in Nat
         /\ \A o, p \in O!Listed(u, status) : o.id = p.id => o = p
<1>1. PICK i \in O!Shards : i = O!GetDB(u)
  BY RightShard
<1>2. PICK n \in Nat : /\ IsFiniteSet(shards[i]) /\ Cardinality(shards[i]) = n
                      /\ {o.id : o \in shards[i]} = 1 .. n
  BY HighestId DEF RowsInv
<1>3. shards[i] \subseteq O!Order
  BY DEF RowsInv, O!TypeOK
<1>4. n <= MaxOrders
  <2>1. CASE n = 0
    BY <2>1, OrderConstants
  <2>2. CASE n # 0
    <3>1. n \in 1 .. n
      BY <2>2
    <3>2. PICK o \in shards[i] : o.id = n
      BY <1>2, <3>1
    <3>3. o.id \in 1 .. MaxOrders
      BY <1>3, <3>2, OrderFields
    <3> QED
      BY <3>2, <3>3
  <2> QED
    BY <2>1, <2>2
<1>5. PICK l : l = O!Listed(u, status)
  OBVIOUS
<1>6. l \subseteq shards[i]
  BY <1>1, <1>5 DEF O!Listed
<1>7. IsFiniteSet(l) /\ Cardinality(l) <= n /\ Cardinality(l) \in Nat
  BY <1>2, <1>6, FS_Subset, FS_CardinalityType
<1>8. Cardinality(l) <= MaxOrders
  BY <1>2, <1>4, <1>7, OrderConstants
<1>9. \A o, p \in shards[i] : o.id = p.id => o = p
  BY DEF RowsInv, Numbered
<1> QED
  BY <1>1, <1>3, <1>5, <1>6, <1>7, <1>8, <1>9

LEMMA WalkFields ==
  ASSUME O!TypeOK, walk # O!NoWalk
  PROVE  /\ walk \in O!Walks /\ walk.user \in Users /\ walk.user \in Nat
         /\ walk.page \in 0 .. MaxOrders + 1 /\ walk.page \in Nat
         /\ walk.size \in Nat /\ walk.size >= 1 /\ walk.size <= MaxPageSize
         /\ walk.there \in SUBSET (1 .. MaxOrders) /\ walk.seen \in SUBSET (1 .. MaxOrders)
<1>1. walk \in O!Walks
  BY DEF O!TypeOK
<1>2. /\ walk.user \in Users /\ walk.page \in 0 .. MaxOrders + 1 /\ walk.size \in 1 .. MaxPageSize
      /\ walk.there \in SUBSET (1 .. MaxOrders) /\ walk.seen \in SUBSET (1 .. MaxOrders)
  BY <1>1 DEF O!Walks
<1>3. MaxOrders \in Nat /\ MaxPageSize \in Nat /\ Users \subseteq Nat
  BY OrderConstants
<1>4. walk.user \in Nat
  BY <1>2, <1>3
<1>5. \A p \in 0 .. MaxOrders + 1 : p \in Nat
  BY <1>3
<1>6. \A s \in 1 .. MaxPageSize : s \in Nat /\ s >= 1 /\ s <= MaxPageSize
  BY <1>3
<1> QED
  BY <1>1, <1>2, <1>4, <1>5, <1>6, Zenon

\* The set of ids above a second is finite.
LEMMA AboveFinite ==
  ASSUME RowsInv, walk # O!NoWalk, NEW t
  PROVE  IsFiniteSet(Above(t)) /\ Cardinality(Above(t)) \in Nat
<1>1. Current \subseteq O!Order
  BY ListedFacts, WalkFields DEF RowsInv, Current
<1>2. Above(t) \subseteq 1 .. MaxOrders
  BY <1>1, OrderFields DEF Above
<1>3. IsFiniteSet(1 .. MaxOrders)
  BY FS_Interval, OrderConstants
<1> QED
  BY <1>2, <1>3, FS_Subset, FS_CardinalityType

\* An order created meanwhile comes before all that are listed.
LEMMA CreateKeepsWalk ==
  ASSUME OrdersInv, NEW u \in Users, O!CreateOrder(u)
  PROVE  WalkFollows'
<1>1. walk' = walk /\ left' = left
  BY DEF O!CreateOrder
<1> SUFFICES ASSUME walk # O!NoWalk
             PROVE  WalkFollows'
  BY <1>1 DEF WalkFollows
<1>2. PICK i \in O!Shards, n \in Nat, row \in O!Order :
        /\ i = O!GetDB(u) /\ n = Cardinality(shards[i])
        /\ row.user = u /\ row.id = n + 1 /\ row.at = second
        /\ shards' = [shards EXCEPT ![i] = shards[i] \cup {row}]
  BY CreatesRow, HighestId DEF OrdersInv
<1>3. RowsInv /\ RowsInv'
  BY CreatesRow DEF OrdersInv, RowsInv
<1> PICK status : status = walk.status
  OBVIOUS
<1>4. PICK v \in Nat : v = walk.user /\ status = walk.status
  BY WalkFields DEF OrdersInv
<1>5. ASSUME NEW st
      PROVE  /\ O!Listed(v, st) \subseteq O!Listed(v, st)'
             /\ O!Listed(v, st)' \subseteq O!Listed(v, st) \cup {row}
             /\ row \in O!Listed(v, st)' => u = v
  <2>1. shards \in [O!Shards -> SUBSET O!Order]
    BY TypeOfOrders DEF OrdersInv
  <2>2. O!GetDB(v) \in O!Shards
    BY RightShard
  <2>3. \/ shards'[O!GetDB(v)] = shards[O!GetDB(v)]
        \/ shards'[O!GetDB(v)] = shards[O!GetDB(v)] \cup {row}
    BY <1>2, <2>1, <2>2
  <2> QED
    BY <1>2, <2>3 DEF O!Listed, O!Matches
<1>6. SUFFICES ASSUME ~left, ~O!Tied(v)'
      PROVE  /\ \A d \in walk.there : \E o \in Current' : o.id = d
             /\ walk.page = 0 => walk.there \subseteq walk.seen
             /\ walk.page > 0 =>
                  \A o \in Current' : o.id \in walk.there \ walk.seen =>
                    Cardinality(Above(o.at)') >= (walk.page - 1) * walk.size
  BY <1>1, <1>4 DEF OrdersInv, WalkFollows
<1>7. ~O!Tied(v)
  BY <1>5, <1>6 DEF O!Tied
<1>8. /\ \A d \in walk.there : \E o \in Current : o.id = d
      /\ walk.page = 0 => walk.there \subseteq walk.seen
      /\ walk.page > 0 =>
           \A o \in Current : o.id \in walk.there \ walk.seen =>
             Cardinality(Above(o.at)) >= (walk.page - 1) * walk.size
  BY <1>4, <1>6, <1>7 DEF OrdersInv, WalkFollows
<1>9. /\ Current \subseteq Current' /\ Current' \subseteq Current \cup {row}
      /\ row \in Current' => u = v
  BY <1>1, <1>4, <1>5 DEF Current
<1>10. ASSUME NEW o \in Current', o.id \in walk.there
       PROVE  o \in Current
  <2>1. SUFFICES ASSUME o = row
                 PROVE  FALSE
    BY <1>9
  <2>2. PICK p \in Current : p.id = n + 1
    BY <1>2, <1>8, <1>10, <2>1
  <2>3. u = v
    BY <1>9, <2>1
  <2>4. p \in shards[i]
    BY <1>2, <1>3, <1>4, <2>2, <2>3, ListedFacts DEF Current
  <2>5. p.id \in 1 .. n
    BY <1>2, <1>3, <2>4, RowFacts
  <2> QED
    BY <2>2, <2>5
<1>11. ASSUME NEW o \in Current', walk.page > 0, o.id \in walk.there \ walk.seen
       PROVE  Cardinality(Above(o.at)') >= (walk.page - 1) * walk.size
  <2>1. o \in Current
    BY <1>10, <1>11
  <2>2. Cardinality(Above(o.at)) >= (walk.page - 1) * walk.size
    BY <1>8, <1>11, <2>1
  <2>3. Above(o.at) \subseteq Above(o.at)'
    BY <1>9 DEF Above
  <2>4. IsFiniteSet(Above(o.at)')
    <3>1. Current' \subseteq O!Order
      <4>1. O!Listed(v, status) \subseteq O!Order
        BY <1>3, ListedFacts
      <4> QED
        BY <1>4, <1>9, <4>1 DEF Current
    <3>2. Above(o.at)' \subseteq 1 .. MaxOrders
      BY <3>1, OrderFields DEF Above
    <3>3. IsFiniteSet(1 .. MaxOrders)
      BY FS_Interval, OrderConstants
    <3> QED
      BY <3>2, <3>3, FS_Subset
  <2>5. /\ Cardinality(Above(o.at)) <= Cardinality(Above(o.at)')
        /\ Cardinality(Above(o.at)) \in Nat /\ Cardinality(Above(o.at)') \in Nat
    BY <2>3, <2>4, FS_Subset, FS_CardinalityType
  <2>6. (walk.page - 1) * walk.size \in Int
    BY WalkFields, Z3 DEF OrdersInv
  <2> QED
    BY <2>2, <2>5, <2>6
<1> QED
  BY <1>8, <1>9, <1>11

\* What a payment changes of a user's list: not its ids, nor when each was created.
LEMMA PayKeepsList ==
  ASSUME OrdersInv, NEW i \in O!Shards, NEW o \in shards[i], O!UpdateStatus(i, o),
         NEW v \in Nat, NEW st, i = O!GetDB(v) /\ o.user = v => st = Anything
  PROVE  /\ \A p \in O!Listed(v, st) : \E q \in O!Listed(v, st)' : q.id = p.id /\ q.at = p.at
         /\ \A q \in O!Listed(v, st)' : \E p \in O!Listed(v, st) : q.id = p.id /\ q.at = p.at
<1> PICK paid : paid = [o EXCEPT !.status = "paid"]
  OBVIOUS
<1>1. /\ o \in O!Order /\ paid = [o EXCEPT !.status = "paid"]
      /\ shards' = [shards EXCEPT ![i] = (shards[i] \ {o}) \cup {paid}]
  BY PaysRow
<1>2. shards \in [O!Shards -> SUBSET O!Order]
  BY TypeOfOrders DEF OrdersInv
<1>3. paid.id = o.id /\ paid.user = o.user /\ paid.at = o.at
  BY <1>1, <1>2, OrderFields
<1>4. PICK j \in O!Shards : j = O!GetDB(v)
  BY RightShard
<1>5. /\ O!Listed(v, st) = {p \in shards[j] : O!Matches(p, v, st)}
      /\ O!Listed(v, st)' = {p \in shards'[j] : O!Matches(p, v, st)}
  BY <1>4 DEF O!Listed
<1>6. CASE ~(i = j /\ o.user = v)
  <2>1. \/ shards'[j] = shards[j]
        \/ o.user # v /\ shards'[j] = (shards[j] \ {o}) \cup {paid}
    BY <1>1, <1>2, <1>6
  <2>2. o.user # v => ~O!Matches(o, v, st) /\ ~O!Matches(paid, v, st)
    BY <1>3 DEF O!Matches
  <2>3. O!Listed(v, st)' = O!Listed(v, st)
    BY <1>5, <2>1, <2>2
  <2> QED
    BY <2>3
<1>7. CASE i = j /\ o.user = v
  <2>1. shards'[j] = (shards[j] \ {o}) \cup {paid} /\ o \in shards[j]
    BY <1>1, <1>2, <1>7
  <2>2. O!Matches(o, v, st) /\ O!Matches(paid, v, st)
    BY <1>3, <1>4, <1>7 DEF O!Matches
  <2>3. O!Listed(v, st)' = (O!Listed(v, st) \ {o}) \cup {paid} /\ o \in O!Listed(v, st)
    BY <1>5, <2>1, <2>2
  <2> QED
    BY <1>3, <2>3
<1> QED
  BY <1>6, <1>7

\* A payment moves no order of a list, or the walk knows that one has left.
LEMMA PayKeepsWalk ==
  ASSUME OrdersInv, NEW i \in O!Shards, NEW o \in shards[i], O!UpdateStatus(i, o)
  PROVE  WalkFollows'
<1>1. /\ walk' = walk /\ o.status = "pending_payment"
      /\ left' = (left \/ (walk # O!NoWalk /\ i = O!GetDB(walk.user) /\ walk.status = o.status
                           /\ O!Matches(o, walk.user, walk.status)))
  BY DEF O!UpdateStatus
<1> SUFFICES ASSUME walk # O!NoWalk
             PROVE  WalkFollows'
  BY <1>1 DEF WalkFollows
<1> PICK status : status = walk.status
  OBVIOUS
<1>2. PICK v \in Nat : v = walk.user /\ status = walk.status
  BY WalkFields DEF OrdersInv
<1>3. status \in {"pending_payment", Anything}
  BY <1>2 DEF OrdersInv, WalkFollows
<1>4. SUFFICES ASSUME ~left', ~O!Tied(v)'
      PROVE  /\ \A d \in walk.there : \E p \in Current' : p.id = d
             /\ walk.page = 0 => walk.there \subseteq walk.seen
             /\ walk.page > 0 =>
                  \A p \in Current' : p.id \in walk.there \ walk.seen =>
                    Cardinality(Above(p.at)') >= (walk.page - 1) * walk.size
  BY <1>1, <1>2, <1>3 DEF WalkFollows
<1>5. i = O!GetDB(v) /\ o.user = v => status = Anything
  BY <1>1, <1>2, <1>3, <1>4 DEF O!Matches
<1>6. RowsInv
  BY DEF OrdersInv, RowsInv
<1>7. ~O!Tied(v)
  <2> SUFFICES ASSUME NEW p \in O!Listed(v, Anything), NEW q \in O!Listed(v, Anything),
                      p # q, p.at = q.at
               PROVE  FALSE
    BY DEF O!Tied
  <2>1. p.id # q.id
    BY <1>6, ListedFacts
  <2>2. /\ \E r \in O!Listed(v, Anything)' : r.id = p.id /\ r.at = p.at
        /\ \E r \in O!Listed(v, Anything)' : r.id = q.id /\ r.at = q.at
    BY PayKeepsList
  <2> QED
    BY <1>4, <2>1, <2>2 DEF O!Tied
<1>8. /\ \A d \in walk.there : \E p \in Current : p.id = d
      /\ walk.page = 0 => walk.there \subseteq walk.seen
      /\ walk.page > 0 =>
           \A p \in Current : p.id \in walk.there \ walk.seen =>
             Cardinality(Above(p.at)) >= (walk.page - 1) * walk.size
  BY <1>1, <1>2, <1>4, <1>7 DEF OrdersInv, WalkFollows
<1>9. /\ Current = O!Listed(v, status) /\ Current' = O!Listed(v, status)'
  BY <1>1, <1>2 DEF Current
<1>10. /\ \A p \in Current : \E q \in Current' : q.id = p.id /\ q.at = p.at
       /\ \A q \in Current' : \E p \in Current : q.id = p.id /\ q.at = p.at
  BY <1>5, <1>9, PayKeepsList
<1>11. \A t : Above(t)' = Above(t)
  BY <1>10 DEF Above
<1>12. ASSUME NEW q \in Current', walk.page > 0, q.id \in walk.there \ walk.seen
       PROVE  Cardinality(Above(q.at)') >= (walk.page - 1) * walk.size
  <2>1. PICK p \in Current : q.id = p.id /\ q.at = p.at
    BY <1>10
  <2>2. Cardinality(Above(p.at)) >= (walk.page - 1) * walk.size
    BY <1>8, <1>12, <2>1
  <2>3. PICK a : a = Above(p.at)
    OBVIOUS
  <2>4. Above(q.at)' = a
    BY <1>11, <2>1, <2>3
  <2> QED
    BY <2>2, <2>3, <2>4
<1> QED
  BY <1>8, <1>10, <1>12

\* A walk begins with the first page, and with what is listed then.
LEMMA StartKeeps ==
  ASSUME OrdersInv, NEW u \in Users, NEW status \in {"pending_payment", Anything}, NEW n \in Nat,
         O!StartWalk(u, status, n)
  PROVE  OrdersInv'
<1>1. PICK listed : listed = O!Listed(u, status) /\ listed \subseteq O!Order
  <2>1. RowsInv /\ u \in Nat
    BY OrderConstants DEF OrdersInv, RowsInv
  <2> QED
    BY <2>1, ListedFacts
<1>2. PICK size \in 1 .. MaxPageSize : size = O!PageSize(n)
  BY OrderConstants DEF O!PageSize
<1>3. walk' = [user |-> u, status |-> status, size |-> size, page |-> 1,
               there |-> {o.id : o \in listed}, seen |-> {}]
  BY <1>1, <1>2 DEF O!StartWalk
<1>4. left' = FALSE /\ shards' = shards /\ second' = second
  BY DEF O!StartWalk
<1>5. /\ walk'.user = u /\ walk'.status = status /\ walk'.page = 1 /\ walk'.size = size
      /\ walk'.there = {o.id : o \in listed} /\ walk'.seen = {}
  BY <1>3
<1>6. walk' \in O!Walks
  <2>1. {o.id : o \in listed} \subseteq 1 .. MaxOrders
    BY <1>1, OrderFields
  <2>2. 1 \in 0 .. MaxOrders + 1
    BY OrderConstants
  <2>3. status \in O!Statuses \cup {Anything}
    BY DEF O!Statuses
  <2> QED
    BY <1>3, <2>1, <2>2, <2>3 DEF O!Walks
<1>7. O!TypeOK'
  BY <1>4, <1>6 DEF OrdersInv, O!TypeOK
<1>8. \A i \in O!Shards : (Numbered(i) /\ Placed(i))'
  BY <1>4 DEF OrdersInv, Numbered, Placed
<1>9. Current' = listed
  BY <1>1, <1>4, <1>5 DEF Current, O!Listed
<1>10. ASSUME NEW o \in Current'
       PROVE  Cardinality(Above(o.at)') >= (1 - 1) * size
  <2>1. Above(o.at)' \subseteq 1 .. MaxOrders
    BY <1>1, <1>9, OrderFields, ZenonT(60) DEF Above
  <2>2. IsFiniteSet(1 .. MaxOrders)
    BY FS_Interval, OrderConstants
  <2>3. Cardinality(Above(o.at)') \in Nat
    BY <2>1, <2>2, FS_Subset, FS_CardinalityType
  <2>4. (1 - 1) * size = 0
    OBVIOUS
  <2> QED
    BY <2>3, <2>4
<1>11. WalkFollows'
  <2>1. \A d \in walk'.there : \E o \in Current' : o.id = d
    BY <1>5, <1>9
  <2>2. ~(walk'.page = 0)
    BY <1>5
  <2>3. \A o \in Current' : Cardinality(Above(o.at)') >= (walk'.page - 1) * walk'.size
    BY <1>5, <1>10
  <2>4. walk'.status \in {"pending_payment", Anything}
    BY <1>5
  <2> QED
    BY <2>1, <2>2, <2>3, <2>4 DEF WalkFollows
<1> QED
  BY <1>7, <1>8, <1>11 DEF OrdersInv

\* The orders of a page, and a list in which every order stands once.
IsPage(page, f, N, off, size) ==
  \A r : r \in page <=> \E a \in 1 .. N : off < a /\ a <= off + size /\ r = f[a]
IsListing(f, N, rows) == /\ f \in [1 .. N -> rows]
                         /\ \A a, b \in 1 .. N : f[a] = f[b] => a = b
                         /\ \A r \in rows : \E a \in 1 .. N : f[a] = r
                         /\ \A a, b \in 1 .. N : a < b => f[a].at >= f[b].at
Untied(rows) == \A o, p \in rows : /\ o.at \in Nat
                                   /\ o.id = p.id => o = p
                                   /\ o # p => o.at # p.at
IsAbove(before, rows, t) == \A d : d \in before <=> \E o \in rows : o.at > t /\ d = o.id

\* A page that lies in the list is full.
LEMMA FullPage ==
  ASSUME NEW Rows, NEW N \in Nat, NEW f, NEW off \in Nat, NEW size \in Nat, NEW page,
         IsListing(f, N, Rows), IsPage(page, f, N, off, size), off + size <= N
  PROVE  Cardinality(page) = size
<1> DEFINE g == [b \in 1 .. size |-> f[off + b]]
<1>1. \A b \in 1 .. size : off + b \in 1 .. N /\ off < off + b /\ off + b <= off + size
  OBVIOUS
<1>2. g \in [1 .. size -> page]
  BY <1>1 DEF IsPage
<1>3. \A b, c \in 1 .. size : g[b] = g[c] => b = c
  BY <1>1 DEF IsListing
<1>4. \A r \in page : \E b \in 1 .. size : g[b] = r
  <2> SUFFICES ASSUME NEW r \in page
               PROVE  \E b \in 1 .. size : g[b] = r
    OBVIOUS
  <2> PICK a \in 1 .. N : off < a /\ a <= off + size /\ r = f[a]
    BY DEF IsPage
  <2>1. a - off \in 1 .. size /\ off + (a - off) = a
    OBVIOUS
  <2> QED
    BY <2>1
<1>5. IsFiniteSet(1 .. size) /\ Cardinality(1 .. size) = size
  BY FS_Interval
<1> HIDE DEF g
<1> QED
  BY <1>2, <1>3, <1>4, <1>5, SameCount

\* A query for the list returns every order of it, at its place.
LEMMA Listing ==
  ASSUME RowsInv, NEW u \in Nat, NEW st, NEW s \in O!Listings(O!Listed(u, st))
  PROVE  \E N \in Nat :
           /\ N <= MaxOrders /\ DOMAIN s = 1 .. N
           /\ IsListing(s, N, O!Listed(u, st))
<1>1. PICK listed : listed = O!Listed(u, st)
  OBVIOUS
<1>2. PICK N \in Nat : N = Cardinality(listed) /\ N <= MaxOrders /\ IsFiniteSet(listed)
  BY <1>1, ListedFacts
<1>3. /\ s \in [1 .. N -> listed]
      /\ \A a, b \in 1 .. N : a # b => s[a] # s[b]
      /\ \A a, b \in DOMAIN s : a < b => s[a].at >= s[b].at
  BY <1>1, <1>2, CountsAlike DEF O!Listings, O!SetToSeqs
<1>4. s \in Injection(1 .. N, listed)
  BY <1>3, Zenon DEF Injection, IsInjective
<1>5. Cardinality(1 .. N) = N
  BY FS_Interval
<1>6. s \in Surjection(1 .. N, listed)
  BY <1>2, <1>4, <1>5, FS_Injection
<1>7. \A o \in listed : \E a \in 1 .. N : s[a] = o
  BY <1>6 DEF Surjection
<1>8. DOMAIN s = 1 .. N
  BY <1>3
<1> QED
  BY <1>1, <1>2, <1>3, <1>7, <1>8 DEF IsListing

\* What stands before an order that shares its second with none.
LEMMA PlaceInList ==
  ASSUME NEW listed, NEW N \in Nat, NEW s, IsListing(s, N, listed), Untied(listed),
         NEW j \in 1 .. N, NEW before, IsAbove(before, listed, s[j].at)
  PROVE  Cardinality(before) = j - 1
<1> DEFINE g == [a \in 1 .. j - 1 |-> s[a].id]
<1>0. \A a \in 1 .. j - 1 : a \in 1 .. N /\ a < j
  OBVIOUS
<1>1. \A a \in 1 .. N : s[a] \in listed /\ s[a].at \in Nat
  BY DEF IsListing, Untied
<1>2. ASSUME NEW a \in 1 .. N, NEW b \in 1 .. N, a < b
      PROVE  s[a].at > s[b].at
  <2>1. s[a] # s[b]
    BY <1>2 DEF IsListing
  <2>2. s[a].at # s[b].at
    BY <1>1, <2>1 DEF Untied
  <2>3. s[a].at >= s[b].at
    BY <1>2 DEF IsListing
  <2> QED
    BY <1>1, <2>2, <2>3
<1>3. g \in [1 .. j - 1 -> before]
  BY <1>0, <1>1, <1>2 DEF IsAbove
<1>4. \A a, b \in 1 .. j - 1 : g[a] = g[b] => a = b
  <2> SUFFICES ASSUME NEW a \in 1 .. j - 1, NEW b \in 1 .. j - 1, s[a].id = s[b].id
               PROVE  a = b
    OBVIOUS
  <2>1. s[a] = s[b]
    BY <1>0, <1>1 DEF Untied
  <2> QED
    BY <1>0, <2>1 DEF IsListing
<1>5. \A d \in before : \E a \in 1 .. j - 1 : g[a] = d
  <2> SUFFICES ASSUME NEW o \in listed, o.at > s[j].at
               PROVE  \E a \in 1 .. j - 1 : g[a] = o.id
    BY DEF IsAbove
  <2>1. PICK a \in 1 .. N : s[a] = o
    BY DEF IsListing
  <2>2. a # j
    BY <1>1, <2>1
  <2>3. ~(j < a)
    BY <1>1, <1>2, <2>1
  <2>4. a \in 1 .. j - 1
    BY <2>2, <2>3
  <2> QED
    BY <2>1, <2>4
<1>6. IsFiniteSet(1 .. j - 1) /\ Cardinality(1 .. j - 1) = j - 1
  BY FS_Interval
<1> HIDE DEF g
<1> QED
  BY <1>3, <1>4, <1>5, <1>6, SameCount, ZenonT(60)

\* A page takes the orders of its places; what lies behind them stays behind.
LEMMA ReadKeeps ==
  ASSUME OrdersInv, O!ReadPage
  PROVE  OrdersInv'
<1>1. walk.page > 0 /\ shards' = shards /\ second' = second /\ left' = left
  BY DEF O!ReadPage
<1>2. walk # O!NoWalk
  BY <1>1 DEF O!NoWalk
<1> PICK status : status = walk.status
  OBVIOUS
<1>3. PICK v \in Nat, size \in Nat, page \in Nat :
        /\ v = walk.user /\ status = walk.status /\ size = walk.size /\ page = walk.page
        /\ size >= 1 /\ page >= 1
  <2>1. walk.user \in Nat /\ walk.page \in Nat /\ walk.size \in Nat /\ walk.size >= 1
    BY <1>2, WalkFields DEF OrdersInv
  <2>2. walk.page >= 1
    BY <1>1, <2>1
  <2> QED
    BY <2>1, <2>2
<1>4. PICK off \in Nat : off = (page - 1) * size /\ off >= page - 1 /\ page * size = off + size
  <2>1. PICK d \in Nat : d = page - 1
    BY <1>3
  <2>2. d * size \in Nat /\ d * size >= d
    BY <1>3, TimesAtLeast
  <2>3. (d + 1) * size = d * size + size
    BY Z3
  <2>4. PICK x \in Nat : x = d * size
    BY <2>2
  <2>5. page = d + 1
    BY <1>3, <2>1
  <2> QED
    BY <2>1, <2>2, <2>3, <2>4, <2>5
<1>5. RowsInv
  BY DEF OrdersInv, RowsInv
<1>6. PICK listed :
        /\ listed = O!Listed(v, status) /\ listed \subseteq O!Order
        /\ \A o, p \in listed : o.id = p.id => o = p
  BY <1>5, ListedFacts
<1>7. PICK s \in O!Listings(listed) :
        LET rows == {s[a] : a \in {a \in DOMAIN s : off < a /\ a <= off + size}}
        IN walk' = [walk EXCEPT !.seen = walk.seen \cup {o.id : o \in rows},
                                !.page = IF Cardinality(rows) < size THEN 0 ELSE page + 1]
  <2>3. listed = O!Listed(walk.user, walk.status)
    BY <1>3, <1>6
  <2>1. PICK s \in O!Listings(listed) :
          LET rows == {s[a] : a \in {a \in DOMAIN s : O!Offset < a /\ a <= O!Offset + walk.size}}
          IN walk' = [walk EXCEPT
               !.seen = walk.seen \cup {o.id : o \in rows},
               !.page = IF O!Cardinality(rows) < walk.size THEN 0 ELSE walk.page + 1]
    BY <2>3 DEF O!ReadPage
  <2>2. O!Offset = off /\ walk.size = size /\ walk.page = page
    BY <1>3, <1>4 DEF O!Offset
  <2> QED
    BY <2>1, <2>2, CountsAlike
<1>8. PICK N \in Nat : N <= MaxOrders /\ DOMAIN s = 1 .. N /\ IsListing(s, N, listed)
  BY <1>5, <1>6, <1>7, Listing
<1>9. PICK rows : rows = {s[a] : a \in {a \in 1 .. N : off < a /\ a <= off + size}}
  OBVIOUS
<1>10. walk' = [walk EXCEPT !.seen = walk.seen \cup {o.id : o \in rows},
                            !.page = IF Cardinality(rows) < size THEN 0 ELSE page + 1]
  BY <1>7, <1>8, <1>9
<1>11. walk \in O!Walks
  BY <1>2, WalkFields DEF OrdersInv
<1>12. /\ walk'.user = v /\ walk'.status = status /\ walk'.size = size
       /\ walk'.there = walk.there /\ walk'.seen = walk.seen \cup {o.id : o \in rows}
       /\ walk'.page = IF Cardinality(rows) < size THEN 0 ELSE page + 1
  BY <1>3, <1>10, <1>11 DEF O!Walks
<1>13. rows \subseteq listed
  BY <1>8, <1>9 DEF IsListing
<1>14. off + size <= N => Cardinality(rows) = size
  <2>1. IsPage(rows, s, N, off, size)
    BY <1>9 DEF IsPage
  <2> QED
    BY <1>8, <2>1, FullPage
<1>15. page <= MaxOrders \/ Cardinality(rows) < size
  <2>1. CASE rows = {}
    BY <1>3, <2>1, FS_EmptySet
  <2>2. CASE rows # {}
    <3>1. PICK a \in 1 .. N : off < a
      BY <1>9, <2>2
    <3>2. MaxOrders \in Nat
      BY OrderConstants
    <3> QED
      BY <1>3, <1>4, <1>8, <3>1, <3>2
  <2> QED
    BY <2>1, <2>2
<1>16. walk' \in O!Walks
  <2>1. walk'.page \in 0 .. MaxOrders + 1
    <3>1. MaxOrders \in Nat
      BY OrderConstants
    <3> QED
      BY <1>3, <1>12, <1>15, <3>1
  <2>2. walk'.seen \in SUBSET (1 .. MaxOrders)
    <3>1. {o.id : o \in rows} \subseteq 1 .. MaxOrders
      <4>1. \A o \in listed : o.id \in 1 .. MaxOrders
        BY <1>6, OrderFields
      <4> QED
        BY <1>13, <4>1
    <3>2. walk.seen \in SUBSET (1 .. MaxOrders)
      BY <1>2, WalkFields DEF OrdersInv
    <3> QED
      BY <1>12, <3>1, <3>2
  <2>3. PICK pg \in 0 .. MaxOrders + 1, sn \in SUBSET (1 .. MaxOrders) :
          walk' = [walk EXCEPT !.seen = sn, !.page = pg]
    BY <1>10, <1>12, <2>1, <2>2
  <2> QED
    BY <1>11, <2>3 DEF O!Walks
<1>17. O!TypeOK'
  BY <1>1, <1>16 DEF OrdersInv, O!TypeOK
<1>18. \A i \in O!Shards : (Numbered(i) /\ Placed(i))'
  BY <1>1 DEF OrdersInv, Numbered, Placed
<1>19. Current = listed /\ Current' = listed
  BY <1>1, <1>3, <1>6, <1>12 DEF Current, O!Listed
<1>20. \A t : Above(t)' = {o.id : o \in {p \in listed : p.at > t}}
              /\ Above(t) = {o.id : o \in {p \in listed : p.at > t}}
  BY <1>19 DEF Above
<1>21. status \in {"pending_payment", Anything}
  BY <1>2, <1>3 DEF OrdersInv, WalkFollows
<1>22. ASSUME ~left, ~O!Tied(v)
       PROVE  /\ \A d \in walk.there : \E o \in listed : o.id = d
              /\ walk'.page = 0 => walk.there \subseteq walk'.seen
              /\ walk'.page > 0 =>
                   \A o \in listed : o.id \in walk.there \ walk'.seen =>
                     Cardinality(Above(o.at)') >= (walk'.page - 1) * size
  <2>1. /\ \A d \in walk.there : \E o \in listed : o.id = d
        /\ \A o \in listed : o.id \in walk.there \ walk.seen => Cardinality(Above(o.at)) >= off
    BY <1>1, <1>2, <1>3, <1>4, <1>19, <1>22 DEF OrdersInv, WalkFollows
  <2>2. Untied(listed)
    <3>1. listed \subseteq O!Listed(v, Anything)
      BY <1>6 DEF O!Listed, O!Matches
    <3>2. \A o, p \in listed : o # p => o.at # p.at
      BY <1>22, <3>1 DEF O!Tied
    <3>3. \A o \in listed : o.at \in Nat
      BY <1>6, OrderFields
    <3> QED
      BY <1>6, <3>2, <3>3 DEF Untied
  <2>4. ASSUME NEW o \in listed, o.id \in walk.there \ walk'.seen
        PROVE  N > off + size /\ Cardinality(Above(o.at)') >= off + size
    <3>1. PICK j \in 1 .. N : s[j] = o
      BY <1>8 DEF IsListing
    <3>2. Cardinality(Above(o.at)) = j - 1 /\ Above(o.at)' = Above(o.at)
      <4>4. PICK above : above = Above(o.at) /\ Above(o.at)' = above
        BY <1>20
      <4>5. IsAbove(above, listed, s[j].at)
        BY <1>20, <3>1, <4>4 DEF IsAbove
      <4>6. Cardinality(above) = j - 1
        BY <1>8, <2>2, <4>5, PlaceInList
      <4> QED
        BY <4>4, <4>6
    <3>3. Cardinality(Above(o.at)) = j - 1 /\ Cardinality(Above(o.at)') = j - 1
      BY <3>2
    <3>4. o.id \notin walk.seen /\ o \notin rows
      BY <1>12, <2>4
    <3>5. j - 1 >= off
      BY <2>1, <2>4, <3>3, <3>4
    <3>6. ~(off < j /\ j <= off + size)
      BY <1>9, <3>1, <3>4
    <3> QED
      BY <3>3, <3>5, <3>6
  <2>5. CASE Cardinality(rows) < size
    <3>1. ~(off + size <= N)
      BY <1>3, <1>14, <2>5
    <3>2. \A o \in listed : o.id \notin walk.there \ walk'.seen
      BY <2>4, <3>1
    <3>3. walk.there \subseteq walk'.seen
      BY <2>1, <3>2
    <3> QED
      BY <1>12, <2>1, <2>5, <3>3
  <2>6. CASE ~(Cardinality(rows) < size)
    <3>1. walk'.page = page + 1 /\ (walk'.page - 1) * size = off + size
      <4>1. walk'.page = page + 1
        BY <1>12, <2>6
      <4>2. walk'.page - 1 = page
        BY <1>3, <4>1
      <4> QED
        BY <1>4, <4>1, <4>2
    <3>2. ~(walk'.page = 0)
      BY <1>3, <3>1
    <3> QED
      BY <2>1, <2>4, <3>1, <3>2
  <2> QED
    BY <2>5, <2>6
<1>23. WalkFollows'
  <2>1. O!Tied(v)' <=> O!Tied(v)
    BY <1>1 DEF O!Tied, O!Listed
  <2> QED
    BY <1>1, <1>12, <1>19, <1>21, <1>22, <2>1 DEF WalkFollows
<1> QED
  BY <1>17, <1>18, <1>23 DEF OrdersInv

\* The clock of the databases runs on.
LEMMA TickKeeps ==
  ASSUME OrdersInv, O!Tick
  PROVE  OrdersInv'
<1>1. second' = second + 1 /\ second < MaxSecond /\ second \in 1 .. MaxSecond /\ MaxSecond \in Nat
      /\ shards' = shards /\ walk' = walk /\ left' = left
  BY OrderConstants DEF O!Tick, OrdersInv, O!TypeOK
<1>2. O!TypeOK'
  BY <1>1 DEF OrdersInv, O!TypeOK
<1>3. ASSUME NEW i \in O!Shards
      PROVE  (Numbered(i) /\ Placed(i))'
  <2>1. Numbered(i)'
    BY <1>1 DEF OrdersInv, Numbered
  <2>2. \A o \in shards[i] : o.at \in Nat /\ o.at <= second + 1
    <3>1. \A o \in shards[i] : o \in O!Order /\ o.at <= second
      BY DEF OrdersInv, O!TypeOK, Placed
    <3>2. \A o \in shards[i] : o.at \in Nat
      BY <3>1, OrderFields
    <3>3. second \in Nat
      BY <1>1
    <3> QED
      BY <3>1, <3>2, <3>3
  <2> QED
    BY <1>1, <2>1, <2>2 DEF OrdersInv, Placed
<1>4. WalkFollows'
  BY <1>1 DEF OrdersInv, WalkFollows, Current, Above, O!Tied, O!Listed
<1> QED
  BY <1>2, <1>3, <1>4 DEF OrdersInv

LEMMA OrdersStep ==
  ASSUME OrdersInv, O!Next
  PROVE  OrdersInv'
<1>1. ASSUME NEW u \in Users, O!CreateOrder(u)
      PROVE  OrdersInv'
  BY <1>1, CreatesRow, CreateKeepsWalk DEF OrdersInv, RowsInv
<1>2. ASSUME NEW u \in Users, NEW status \in {"pending_payment", Anything},
             NEW n \in 0 .. MaxPageSize + 1,
             O!StartWalk(u, status, n) \/ O!StartWalk(u, status, O!GatewayPageSize(n))
      PROVE  OrdersInv'
  <2>1. n \in Nat /\ O!GatewayPageSize(n) \in Nat
    BY OrderConstants DEF O!GatewayPageSize
  <2> QED
    BY <1>2, <2>1, StartKeeps
<1>3. ASSUME NEW i \in O!Shards, NEW o \in shards[i], O!UpdateStatus(i, o)
      PROVE  OrdersInv'
  BY <1>3, PaysRow, PayKeepsWalk DEF OrdersInv, RowsInv
<1> QED
  BY <1>1, <1>2, <1>3, ReadKeeps, TickKeeps DEF O!Next

LEMMA OrdersInvariant == AllSpec => []OrdersInv
<1>1. AllInit => OrdersInv
  <2> SUFFICES ASSUME AllInit
               PROVE  OrdersInv
    OBVIOUS
  <2>1. walk = O!NoWalk
    BY DEF AllInit, O!Init
  <2> QED
    BY <2>1, InitRows DEF OrdersInv, RowsInv, WalkFollows
<1>2. OrdersInv /\ [AllNext]_allVars => OrdersInv'
  <2> SUFFICES ASSUME OrdersInv, [AllNext]_allVars
               PROVE  OrdersInv'
    OBVIOUS
  <2>1. O!Next \/ UNCHANGED orderVars
    BY DEF AllNext, allVars
  <2>2. CASE UNCHANGED orderVars
    BY <2>2 DEF orderVars, OrdersInv, O!TypeOK, WalkFollows, Numbered, Placed, Current, Above,
                O!Tied, O!Listed
  <2> QED
    BY <2>1, <2>2, OrdersStep
<1> QED
  BY <1>1, <1>2, PTL DEF AllSpec

\* An order is found on the shard that its number names and on that of its user,
\* unless seed-big made it for a user of another shard, and a client that reads
\* a list to its end has seen every order that was in it when it began, unless
\* two of the user's share a second or one has left the filter: for every number
\* of shards that divides a hundred, every number of seeded users, every page
\* size, and orders created and paid between the pages.
THEOREM OrdersFoundAgain == AllSpec => []FoundAgain
<1>1. ASSUME OrdersInv
      PROVE  O!FoundAgain
  <2>1. ASSUME NEW i \in O!Shards, NEW o \in shards[i], ~O!Displaced(i, o)
        PROVE  o \in O!GetOrderByNo(o.no) \cap O!Listed(o.user, Anything)
    <3>1. /\ o \in O!Order /\ O!GetDB(o.user) = i
          /\ o.no = O!ShardKeyInNo(o.user)
      BY <1>1, <2>1 DEF OrdersInv, Placed, InPlace, O!TypeOK
    <3>2. O!GetDB(o.no) = i
      BY <3>1, OrderFields, RightShard
    <3> QED
      BY <3>1, <3>2 DEF O!GetOrderByNo, O!Listed, O!Matches
  <2>2. walk # O!NoWalk /\ walk.page = 0 /\ ~left /\ ~O!Tied(walk.user)
          => walk.there \subseteq walk.seen
    BY <1>1 DEF OrdersInv, WalkFollows
  <2> QED
    BY <2>1, <2>2 DEF O!FoundAgain
<1> QED
  BY <1>1, OrdersInvariant, PTL DEF FoundAgain

-----------------------------------------------------------------------------
(* Every part *)

\* The part that runs keeps its type, whichever it is: what a handler stores or
\* holds between two of its steps is always one of the things the model knows.
THEOREM ServicesKeepTheirTypes == AllSpec => []AllTypeOK
<1> DEFINE Part == part \in {"accounts", "carts", "orders", "summaries", "limiter", "lock"}
<1>1. AllSpec => []Part
  <2>1. AllInit => Part
    BY DEF AllInit
  <2>2. Part /\ [AllNext]_allVars => Part'
    BY DEF AllNext, allVars
  <2> QED
    BY <2>1, <2>2, PTL DEF AllSpec
<1>2. /\ AccountInv => A!TypeOK
      /\ CartInv => K!TypeOK
      /\ OrdersInv => O!TypeOK
      /\ SummariesInv => S!TypeOK
      /\ LimiterInv => TypeOK
      /\ LockInv => L!TypeOK
  BY DEF AccountInv, CartInv, OrdersInv, SummariesInv, LimiterInv, LockInv
<1>3. Part /\ A!TypeOK /\ K!TypeOK /\ O!TypeOK /\ S!TypeOK /\ TypeOK /\ L!TypeOK => AllTypeOK
  BY DEF AllTypeOK
<1> QED
  BY <1>1, <1>2, <1>3, AccountsInvariant, CartsInvariant, OrdersInvariant, SummariesInvariant,
     LimiterInvariant, LockInvariant, PTL
=============================================================================
