------------------------------ MODULE RedisLock ------------------------------
(***************************************************************************)
(* The distributed lock of common/lock: SET NX with a token and a time to  *)
(* live, and a script that deletes the key only if it still has the token. *)
(* No service uses it yet; the callers here follow its comments.           *)
(***************************************************************************)
EXTENDS FiniteSets

CONSTANTS Lockers,  \* lock handles, each with its own token
          NoToken

VARIABLES key,      \* dlock:<key>: the token of a handle, or NoToken
          handle,   \* handle -> what its user is doing
          late      \* handles whose key ran out while they were using the lock
vars == <<key, handle, late>>

TypeOK ==
  /\ key \in Lockers \cup {NoToken}
  /\ handle \in [Lockers -> {"idle", "retrying", "holding"}]
  /\ late \subseteq Lockers

Init ==
  /\ key = NoToken
  /\ handle = [l \in Lockers |-> "idle"]
  /\ late = {}

SetNX(l) == key = NoToken /\ key' = l
Become(l, state) == handle' = [handle EXCEPT ![l] = state]

\* Acquire of a free key.
Acquire(l) ==
  /\ handle[l] \in {"idle", "retrying"}
  /\ SetNX(l)
  /\ Become(l, "holding")
  /\ UNCHANGED late

\* Acquire of a key that is taken: AcquireWithRetry sleeps and tries again.
AcquireWithRetry(l) ==
  /\ handle[l] = "idle" /\ key # NoToken
  /\ Become(l, "retrying")
  /\ UNCHANGED <<key, late>>

\* The deadline or the caller's context ends the attempts.
GiveUp(l) ==
  /\ handle[l] = "retrying"
  /\ Become(l, "idle")
  /\ UNCHANGED <<key, late>>

\* Redis sets the key and its reply is lost: the handle reports an error, and
\* no retry of it succeeds before its own key runs out.
ReplyLost(l) ==
  /\ handle[l] \in {"idle", "retrying"}
  /\ SetNX(l)
  /\ UNCHANGED <<handle, late>>

\* Mutant: the key is deleted whatever token it holds.
ReleaseAnyToken(l) ==
  /\ handle[l] = "holding"
  /\ key' = NoToken
  /\ Become(l, "idle")
  /\ late' = late \ {l}

Release(l) ==
  /\ handle[l] = "holding"
  /\ key' = IF key = l THEN NoToken ELSE key
  /\ Become(l, "idle")
  /\ late' = late \ {l}

\* A release that does not reach Redis leaves the key to its time to live.
ReleaseFails(l) ==
  /\ handle[l] = "holding"
  /\ Become(l, "idle")
  /\ late' = late \ {l}
  /\ UNCHANGED key

\* Nothing renews the key of a handle that is still at work.
Expire ==
  /\ key # NoToken
  /\ late' = IF handle[key] = "holding" THEN late \cup {key} ELSE late
  /\ key' = NoToken
  /\ UNCHANGED handle

Next ==
  \/ \E l \in Lockers :
       \/ Acquire(l) \/ AcquireWithRetry(l) \/ GiveUp(l) \/ ReplyLost(l)
       \/ Release(l) \/ ReleaseFails(l)
  \/ Expire

Spec == Init /\ [][Next]_vars

-----------------------------------------------------------------------------
\* Of the handles that are still within their time to live, at most one is
\* between its Acquire and its Release, whatever the late ones release: "only
\* the holder can release" the lock.
ExclusiveInTime ==
  \A l, m \in Lockers :
    handle[l] = "holding" /\ handle[m] = "holding" /\ l # m => l \in late \/ m \in late
=============================================================================
