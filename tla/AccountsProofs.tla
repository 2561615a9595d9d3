---------------------------- MODULE AccountsProofs ----------------------------
(***************************************************************************)
(* Theorems about the accounts of the user service, for every number of    *)
(* users, codes, values and calls.  They are stated of the composition the *)
(* run checks; A is the module Accounts in it.                             *)
(***************************************************************************)
EXTENDS MCServices, TLAPS

\* An update of an address had the row before it when it began.
SavesKnown == \A c \in Calls : A!At(c, "saveAddress") => call[c].id \notin call[c].gone

\* As long as no two calls used a user's profile row at the same time, at most
\* one call is at it.
Uses(c, e) == A!UsesRow(call[c]) /\ call[c].email = e
Alone ==
  \A e \in Emails : e \notin crossed =>
    \A c, d \in Calls : Uses(c, e) /\ Uses(d, e) => c = d

\* Nothing was saved in a row that is not there.
RowsBlank == \A e \in Emails : profiles[e] = NoProfile => saved[e] = A!Blank

\* A call that will write a row back has read it as it still is.
RowsFresh ==
  \A c \in Calls : A!At(c, "saveProfile") =>
    LET e == call[c].email IN
    e \notin crossed => call[c].row = profiles[e]

AccountInv ==
  /\ A!TypeOK /\ A!OneDefault /\ SavesKnown
  /\ Alone /\ A!CodeStands /\ RowsBlank /\ RowsFresh /\ A!ProfileKept

-----------------------------------------------------------------------------
(* The calls in flight *)

\* What a call has with it, by the place it is at.
LEMMA CallFacts ==
  ASSUME NEW k \in A!CallStates
  PROVE  /\ k.at = "idle" <=> k = A!Idle
         /\ k.at # "idle" => k.email \in Emails
         /\ k.at \in {"mail", "consume"} => k.code \in Codes
         /\ k.at \in {"setName", "readProfile"} => k.value \in Values
         /\ k.at = "saveProfile" =>
              /\ k.field \in {"phone", "prefs"} /\ k.value \in Values
              /\ k.row \in A!Row \cup {NoProfile}
         /\ k.at = "saveAddress" =>
              /\ k.id \in A!AddressIds /\ k.dflt \in BOOLEAN
              /\ k.gone \in SUBSET A!AddressIds
<1>1. CASE k = A!Idle
  BY <1>1 DEF A!Idle
<1>2. CASE k \in [at : {"cooldown", "store", "lookup", "create", "open"}, email : Emails]
  BY <1>2 DEF A!Idle
<1>3. CASE k \in [at : {"mail", "consume"}, email : Emails, code : Codes]
  BY <1>3 DEF A!Idle
<1>4. CASE k \in [at : {"setName", "readProfile"}, email : Emails, value : Values]
  BY <1>4 DEF A!Idle
<1>5. CASE k \in [at : {"saveProfile"}, email : Emails, field : {"phone", "prefs"},
                  value : Values, row : A!Row \cup {NoProfile}]
  BY <1>5 DEF A!Idle
<1>6. CASE k \in [at : {"saveAddress"}, email : Emails, id : A!AddressIds, dflt : BOOLEAN,
                  gone : SUBSET A!AddressIds]
  BY <1>6 DEF A!Idle
<1> QED
  BY <1>1, <1>2, <1>3, <1>4, <1>5, <1>6 DEF A!CallStates

\* Where a call goes when it only moves on.
LEMMA CallMoves ==
  ASSUME NEW k \in A!CallStates
  PROVE  /\ k.at = "cooldown" => [k EXCEPT !.at = "store"] = [at |-> "store", email |-> k.email]
         /\ k.at = "lookup" => [k EXCEPT !.at = "create"] = [at |-> "create", email |-> k.email]
         /\ k.at = "create" => [k EXCEPT !.at = "open"] = [at |-> "open", email |-> k.email]
         /\ k.at = "setName" => [k EXCEPT !.at = "readProfile"]
                                  = [at |-> "readProfile", email |-> k.email, value |-> k.value]
<1>1. k.at \in {"cooldown", "lookup", "create"} =>
        k \in [at : {"cooldown", "store", "lookup", "create", "open"}, email : Emails]
  BY DEF A!CallStates, A!Idle
<1>2. k.at = "setName" => k \in [at : {"setName", "readProfile"}, email : Emails, value : Values]
  BY DEF A!CallStates, A!Idle
<1> QED
  BY <1>1, <1>2

\* A call that begins is alone, or its user is marked.
LEMMA AloneBegins ==
  ASSUME A!TypeOK, Alone, NEW c \in Calls, NEW k \in A!CallStates, A!Begin(c, k)
  PROVE  Alone' /\ crossed \subseteq crossed' /\ crossed' \subseteq Emails
<1>1. /\ call \in [Calls -> A!CallStates]
      /\ call' = [call EXCEPT ![c] = k]
      /\ call[c] = A!Idle
      /\ crossed' = IF A!UsesRow(k) /\ \E d \in Calls : A!UsesRow(call[d]) /\ call[d].email = k.email
                    THEN crossed \cup {k.email} ELSE crossed
  BY DEF A!TypeOK, A!Begin
<1>2. call'[c] = k /\ \A d \in Calls \ {c} : call'[d] = call[d]
  BY <1>1
<1>3. ASSUME NEW d \in Calls \ {c}, A!UsesRow(call[d]), A!UsesRow(k), call[d].email = k.email
      PROVE  k.email \in crossed'
  BY <1>1, <1>3
<1>4. crossed \subseteq crossed'
  BY <1>1
<1>5. Alone'
  <2> SUFFICES ASSUME NEW e \in Emails, e \notin crossed',
                      NEW a \in Calls, NEW b \in Calls, Uses(a, e)', Uses(b, e)', a # b
               PROVE  FALSE
    BY DEF Alone
  <2>0. \A d \in Calls : Uses(d, e)' <=> A!UsesRow(call'[d]) /\ call'[d].email = e
    BY DEF Uses, A!UsesRow
  <2>1. CASE a # c /\ b # c
    <3>1. e \notin crossed
      BY <1>4
    <3>2. Uses(a, e) /\ Uses(b, e)
      BY <1>2, <2>0, <2>1 DEF Uses
    <3> QED
      BY <3>1, <3>2 DEF Alone
  <2>2. CASE a = c
    BY <1>2, <1>3, <2>0, <2>2
  <2>3. CASE b = c
    BY <1>2, <1>3, <2>0, <2>3
  <2> QED
    BY <2>1, <2>2, <2>3
<1>6. crossed' \subseteq Emails
  <2>1. crossed \subseteq Emails
    BY DEF A!TypeOK
  <2>2. A!UsesRow(k) => k.email \in Emails
    BY CallFacts DEF A!UsesRow
  <2> QED
    BY <1>1, <2>1, <2>2
<1> QED
  BY <1>4, <1>5, <1>6

\* A call that goes on uses no row it did not use.
LEMMA AloneGoesOn ==
  ASSUME A!TypeOK, Alone, NEW c \in Calls, NEW k \in A!CallStates,
         A!UsesRow(k) => A!UsesRow(call[c]) /\ k.email = call[c].email,
         A!GoOn(c, k)
  PROVE  Alone'
<1>1. call' = [call EXCEPT ![c] = k] /\ crossed' = crossed /\ call \in [Calls -> A!CallStates]
  BY DEF A!GoOn, A!TypeOK
<1>2. call'[c] = k /\ \A d \in Calls \ {c} : call'[d] = call[d]
  BY <1>1
<1>3. ASSUME NEW e, NEW d \in Calls, Uses(d, e)' PROVE Uses(d, e)
  <2>1. A!UsesRow(call'[d]) /\ call'[d].email = e
    BY <1>3 DEF Uses, A!UsesRow
  <2> QED
    BY <1>2, <2>1 DEF Uses
<1> SUFFICES ASSUME NEW e \in Emails, e \notin crossed',
                    NEW a \in Calls, NEW b \in Calls, Uses(a, e)', Uses(b, e)'
             PROVE  a = b
  BY DEF Alone
<1>4. Uses(a, e) /\ Uses(b, e) /\ e \notin crossed
  BY <1>1, <1>3
<1> QED
  BY <1>4 DEF Alone

-----------------------------------------------------------------------------
(* Steps that only begin or move a call *)

StoresOfAccounts == <<codes, users, profiles, addresses, nextAddr, inbox, unmailed, saved>>

\* The codes are as they should be whatever a call does that is not to mail one.
LEMMA CodesUntouched ==
  ASSUME A!CodeStands, NEW c \in Calls, ~A!At(c, "mail"),
         \A d \in Calls \ {c} : call'[d] = call[d],
         UNCHANGED <<codes, inbox, unmailed>>
  PROVE  A!CodeStands'
<1> SUFFICES ASSUME NEW e \in Emails
             PROVE  /\ inbox[e] # {} => codes[e] # NoCode
                    /\ codes[e] # NoCode =>
                         \/ codes[e].code \in inbox[e]
                         \/ e \in unmailed
                         \/ \E d \in Calls : /\ call'[d].at = "mail" /\ call'[d].email = e
                                             /\ call'[d].code = codes[e].code
  BY DEF A!CodeStands, A!At
<1>1. \A d \in Calls : A!At(d, "mail") => d # c /\ call'[d] = call[d]
  OBVIOUS
<1> QED
  BY <1>1 DEF A!CodeStands, A!At

LEMMA BeginStep ==
  ASSUME AccountInv, NEW c \in Calls, NEW k \in A!CallStates, A!Begin(c, k), UNCHANGED StoresOfAccounts,
         k.at = "saveProfile" => k.row = profiles[k.email],
         k.at = "saveAddress" => k.id \notin k.gone
  PROVE  AccountInv'
<1> USE DEF AccountInv
<1>1. Alone' /\ crossed \subseteq crossed' /\ crossed' \subseteq Emails
  BY AloneBegins
<1>2. /\ call' = [call EXCEPT ![c] = k] /\ call \in [Calls -> A!CallStates] /\ call[c] = A!Idle
      /\ codes' = codes /\ users' = users /\ profiles' = profiles /\ addresses' = addresses
      /\ nextAddr' = nextAddr /\ inbox' = inbox /\ unmailed' = unmailed /\ saved' = saved
  BY DEF A!Begin, A!TypeOK, StoresOfAccounts
<1>3. call'[c] = k /\ \A d \in Calls \ {c} : call'[d] = call[d]
  BY <1>2
<1>4. A!TypeOK'
  <2>1. call' \in [Calls -> A!CallStates]
    BY <1>2
  <2> QED
    BY <1>1, <1>2, <2>1 DEF A!TypeOK
<1>5. A!OneDefault' /\ RowsBlank'
  BY <1>2 DEF A!OneDefault, RowsBlank
<1>6. A!ProfileKept'
  BY <1>1, <1>2 DEF A!ProfileKept
<1>7. SavesKnown'
  BY <1>3 DEF SavesKnown, A!At
<1>8. A!CodeStands'
  BY <1>2, <1>3, CodesUntouched DEF A!At, A!Idle
<1>9. RowsFresh'
  <2> SUFFICES ASSUME NEW d \in Calls, call'[d].at = "saveProfile",
                      call'[d].email \notin crossed'
               PROVE  call'[d].row = profiles'[call'[d].email]
    BY DEF RowsFresh, A!At
  <2>1. call'[d].email \notin crossed
    BY <1>1
  <2> QED
    BY <1>2, <1>3, <2>1 DEF RowsFresh, A!At
<1> QED
  BY <1>1, <1>4, <1>5, <1>6, <1>7, <1>8, <1>9

\* A call goes on; the codes and mails may change as they should.  Nothing here
\* depends on the accounts.
LEMMA CodesStep ==
  ASSUME AccountInv, NEW c \in Calls, NEW k \in A!CallStates, A!GoOn(c, k),
         UNCHANGED <<profiles, addresses, nextAddr, saved>>,
         users' \subseteq Emails,
         codes' \in [Emails -> [code : Codes, fresh : BOOLEAN] \cup {NoCode}],
         inbox' \in [Emails -> SUBSET Codes], unmailed' \subseteq Emails,
         A!CodeStands',
         A!UsesRow(k) => A!UsesRow(call[c]) /\ k.email = call[c].email,
         k.at # "saveAddress",
         k.at = "saveProfile" => k.row = profiles[k.email]
  PROVE  AccountInv'
<1> USE DEF AccountInv
<1>1. Alone'
  BY AloneGoesOn
<1>2. /\ call' = [call EXCEPT ![c] = k] /\ call \in [Calls -> A!CallStates]
      /\ profiles' = profiles /\ addresses' = addresses
      /\ nextAddr' = nextAddr /\ saved' = saved /\ crossed' = crossed
  BY DEF A!GoOn, A!TypeOK
<1>3. call'[c] = k /\ \A d \in Calls \ {c} : call'[d] = call[d]
  BY <1>2
<1>4. A!TypeOK'
  <2>1. call' \in [Calls -> A!CallStates]
    BY <1>2
  <2> QED
    BY <1>2, <2>1 DEF A!TypeOK
<1>5. A!OneDefault' /\ RowsBlank' /\ A!ProfileKept'
  BY <1>2 DEF A!OneDefault, RowsBlank, A!ProfileKept
<1>6. SavesKnown'
  BY <1>3 DEF SavesKnown, A!At
<1>7. RowsFresh'
  BY <1>2, <1>3 DEF RowsFresh, A!At
<1> QED
  BY <1>1, <1>4, <1>5, <1>6, <1>7

LEMMA GoOnStep ==
  ASSUME AccountInv, NEW c \in Calls, NEW k \in A!CallStates, A!GoOn(c, k), ~A!At(c, "mail"),
         UNCHANGED <<codes, profiles, addresses, nextAddr, inbox, unmailed, saved>>,
         users' \subseteq Emails,
         A!UsesRow(k) => A!UsesRow(call[c]) /\ k.email = call[c].email,
         k.at # "saveAddress",
         k.at = "saveProfile" => k.row = profiles[k.email]
  PROVE  AccountInv'
<1>1. A!TypeOK /\ A!CodeStands
  BY DEF AccountInv
<1>2. \A d \in Calls \ {c} : call'[d] = call[d]
  BY <1>1 DEF A!GoOn, A!TypeOK
<1>3. A!CodeStands'
  BY <1>1, <1>2, CodesUntouched
<1>4. /\ codes' \in [Emails -> [code : Codes, fresh : BOOLEAN] \cup {NoCode}]
      /\ inbox' \in [Emails -> SUBSET Codes] /\ unmailed' \subseteq Emails
  BY <1>1 DEF A!TypeOK
<1> QED
  BY <1>3, <1>4, CodesStep

LEMMA IdleUsesNothing ==
  /\ A!Idle \in A!CallStates /\ A!Idle.at = "idle"
  /\ ~A!UsesRow(A!Idle)
BY DEF A!CallStates, A!Idle, A!UsesRow

LEMMA ReturnStep ==
  ASSUME AccountInv, NEW c \in Calls, A!Return(c), ~A!At(c, "mail"),
         UNCHANGED <<codes, profiles, addresses, nextAddr, inbox, unmailed, saved>>,
         users' \subseteq Emails
  PROVE  AccountInv'
<1>1. A!GoOn(c, A!Idle)
  BY DEF A!Return
<1> QED
  BY <1>1, GoOnStep, IdleUsesNothing

LEMMA AccountsStay ==
  ASSUME AccountInv, UNCHANGED accountVars
  PROVE  AccountInv'
BY DEF accountVars, AccountInv, A!TypeOK, A!OneDefault, SavesKnown, A!At, Alone, Uses,
       A!UsesRow, A!CodeStands, RowsBlank, RowsFresh, A!ProfileKept

\* The actions that begin a call.
LEMMA BeginsInv ==
  ASSUME AccountInv, NEW c \in Calls, NEW e \in Emails,
         \/ A!SendVerificationCode(c, e)
         \/ \E k \in Codes : A!Register(c, e, k)
         \/ \E v \in Values : A!UpdateProfile(c, e, v) \/ A!UpdateUserPreferences(c, e, v)
         \/ \E a \in A!AddressIds, d \in BOOLEAN : A!UpdateAddress(c, e, a, d)
  PROVE  AccountInv'
<1>0. A!TypeOK
  BY DEF AccountInv
<1>1. ASSUME A!SendVerificationCode(c, e) PROVE AccountInv'
  <2>1. PICK k : k = [at |-> "cooldown", email |-> e]
    OBVIOUS
  <2>2. A!Begin(c, k) /\ UNCHANGED StoresOfAccounts
    BY <1>1, <2>1 DEF A!SendVerificationCode, StoresOfAccounts
  <2>3. k \in A!CallStates /\ k.at = "cooldown"
    BY <2>1 DEF A!CallStates
  <2> QED
    BY <2>2, <2>3, BeginStep
<1>2. ASSUME NEW v \in Codes, A!Register(c, e, v) PROVE AccountInv'
  <2>1. PICK k : k = [at |-> "consume", email |-> e, code |-> v]
    OBVIOUS
  <2>2. CASE A!IsStored(e, v)
    <3>1. A!Begin(c, k) /\ UNCHANGED StoresOfAccounts
      BY <1>2, <2>1, <2>2 DEF A!Register, StoresOfAccounts
    <3>2. k \in A!CallStates /\ k.at = "consume" /\ k.email = e /\ k.code = v
      BY <2>1 DEF A!CallStates
    <3> QED
      BY <2>2, <3>1, <3>2, BeginStep
  <2>3. CASE ~A!IsStored(e, v)
    <3>1. UNCHANGED accountVars
      BY <1>2, <2>3 DEF A!Register, accountVars
    <3> QED
      BY <3>1, AccountsStay
  <2> QED
    BY <2>2, <2>3
<1>3. ASSUME NEW v \in Values, A!UpdateProfile(c, e, v) PROVE AccountInv'
  <2>1. PICK k : k = [at |-> "setName", email |-> e, value |-> v]
    OBVIOUS
  <2>2. A!Begin(c, k) /\ UNCHANGED StoresOfAccounts
    BY <1>3, <2>1 DEF A!UpdateProfile, StoresOfAccounts
  <2>3. k \in A!CallStates /\ k.at = "setName"
    BY <2>1 DEF A!CallStates
  <2> QED
    BY <2>2, <2>3, BeginStep
<1>4. ASSUME NEW v \in Values, A!UpdateUserPreferences(c, e, v) PROVE AccountInv'
  <2>1. PICK k : k = [at |-> "saveProfile", email |-> e, field |-> "prefs",
                      value |-> v, row |-> profiles[e]]
    OBVIOUS
  <2>2. A!Begin(c, k) /\ UNCHANGED StoresOfAccounts
    BY <1>4, <2>1 DEF A!UpdateUserPreferences, StoresOfAccounts
  <2>3. profiles[e] \in A!Row \cup {NoProfile}
    BY <1>0 DEF A!TypeOK
  <2>4. /\ k \in A!CallStates /\ k.at = "saveProfile" /\ k.email = e
        /\ k.row = profiles[e]
    BY <2>1, <2>3 DEF A!CallStates
  <2> QED
    BY <2>2, <2>4, BeginStep
<1>5. ASSUME NEW a \in A!AddressIds, NEW d \in BOOLEAN, A!UpdateAddress(c, e, a, d)
      PROVE  AccountInv'
  <2>1. PICK k : k = [at |-> "saveAddress", email |-> e, id |-> a, dflt |-> d, gone |-> A!Gone]
    OBVIOUS
  <2>2. A!Begin(c, k) /\ UNCHANGED StoresOfAccounts /\ addresses[a] # NoAddress
    BY <1>5, <2>1 DEF A!UpdateAddress, StoresOfAccounts, A!OwnedBy
  <2>3. A!Gone \subseteq A!AddressIds /\ a \notin A!Gone
    BY <1>0, <2>2, ServiceConstants DEF A!Gone, A!TypeOK, A!AddressIds
  <2>4. k \in A!CallStates /\ k.at = "saveAddress" /\ k.id = a /\ k.gone = A!Gone
    BY <2>1, <2>3 DEF A!CallStates
  <2> QED
    BY <2>2, <2>3, <2>4, BeginStep
<1> QED
  BY <1>1, <1>2, <1>3, <1>4, <1>5

\* The actions that move a call without writing what another one may be at.
LEMMA MovesInv ==
  ASSUME AccountInv, NEW c \in Calls,
         \/ A!CheckCooldown(c) \/ A!GetUserByEmail(c) \/ A!CreateUser(c)
         \/ A!UpdateUser(c) \/ A!GetProfile(c) \/ A!Fail(c)
  PROVE  AccountInv'
<1>0. /\ A!TypeOK
      /\ call[c] \in A!CallStates /\ users \subseteq Emails
  BY DEF AccountInv, A!TypeOK
<1>1. CASE A!CheckCooldown(c)
  <2>1. PICK k : k = [at |-> "store", email |-> call[c].email]
    OBVIOUS
  <2>2. /\ call[c].at = "cooldown"
        /\ A!Return(c) \/ A!GoOn(c, k)
        /\ UNCHANGED <<codes, users, profiles, addresses, nextAddr, inbox, unmailed, saved>>
    BY <1>0, <1>1, <2>1, CallMoves DEF A!CheckCooldown, A!MoveTo, A!At
  <2>3. call[c].email \in Emails
    BY <1>0, <2>2, CallFacts
  <2>4. k \in A!CallStates /\ k.at = "store" /\ k.email = call[c].email
    BY <2>1, <2>3 DEF A!CallStates
  <2> QED
    BY <1>0, <2>2, <2>4, GoOnStep, ReturnStep DEF A!At, A!UsesRow
<1>2. CASE A!GetUserByEmail(c)
  <2>1. PICK k : k = [at |-> "create", email |-> call[c].email]
    OBVIOUS
  <2>2. /\ call[c].at = "lookup"
        /\ A!Return(c) \/ A!GoOn(c, k)
        /\ UNCHANGED <<codes, users, profiles, addresses, nextAddr, inbox, unmailed, saved>>
    BY <1>0, <1>2, <2>1, CallMoves DEF A!GetUserByEmail, A!MoveTo, A!At
  <2>3. call[c].email \in Emails
    BY <1>0, <2>2, CallFacts
  <2>4. k \in A!CallStates /\ k.at = "create" /\ k.email = call[c].email
    BY <2>1, <2>3 DEF A!CallStates
  <2> QED
    BY <1>0, <2>2, <2>4, GoOnStep, ReturnStep DEF A!At, A!UsesRow
<1>3. CASE A!CreateUser(c)
  <2>1. PICK k : k = [at |-> "open", email |-> call[c].email]
    OBVIOUS
  <2>2. /\ call[c].at = "create"
        /\ A!Return(c) \/ A!GoOn(c, k)
        /\ users' = users \cup {call[c].email}
        /\ UNCHANGED <<codes, profiles, addresses, nextAddr, inbox, unmailed, saved>>
    BY <1>0, <1>3, <2>1, CallMoves DEF A!CreateUser, A!MoveTo, A!At
  <2>3. call[c].email \in Emails /\ users' \subseteq Emails
    BY <1>0, <2>2, CallFacts
  <2>4. k \in A!CallStates /\ k.at = "open" /\ k.email = call[c].email
    BY <2>1, <2>3 DEF A!CallStates
  <2> QED
    BY <1>0, <2>2, <2>3, <2>4, GoOnStep, ReturnStep DEF A!At, A!UsesRow
<1>4. CASE A!UpdateUser(c)
  <2>1. PICK k : k = [at |-> "readProfile", email |-> call[c].email, value |-> call[c].value]
    OBVIOUS
  <2>2. /\ call[c].at = "setName" /\ A!GoOn(c, k)
        /\ UNCHANGED <<codes, users, profiles, addresses, nextAddr, inbox, unmailed, saved>>
    BY <1>0, <1>4, <2>1, CallMoves DEF A!UpdateUser, A!MoveTo, A!At
  <2>3. call[c].email \in Emails /\ call[c].value \in Values
    BY <1>0, <2>2, CallFacts
  <2>4. k \in A!CallStates /\ k.at = "readProfile" /\ k.email = call[c].email
    BY <2>1, <2>3 DEF A!CallStates
  <2> QED
    BY <1>0, <2>2, <2>4, GoOnStep DEF A!At, A!UsesRow
<1>5. CASE A!GetProfile(c)
  <2>1. PICK k : k = [at |-> "saveProfile", email |-> call[c].email, field |-> "phone",
                      value |-> call[c].value, row |-> profiles[call[c].email]]
    OBVIOUS
  <2>2. /\ call[c].at = "readProfile" /\ A!GoOn(c, k)
        /\ UNCHANGED <<codes, users, profiles, addresses, nextAddr, inbox, unmailed, saved>>
    BY <1>0, <1>5, <2>1 DEF A!GetProfile, A!At
  <2>3. /\ call[c].email \in Emails /\ call[c].value \in Values
        /\ profiles[call[c].email] \in A!Row \cup {NoProfile}
    BY <1>0, <2>2, CallFacts DEF A!TypeOK
  <2>4. /\ k \in A!CallStates /\ k.at = "saveProfile" /\ k.email = call[c].email
        /\ k.row = profiles[k.email]
    BY <2>1, <2>3 DEF A!CallStates
  <2> QED
    BY <1>0, <2>2, <2>4, GoOnStep DEF A!At, A!UsesRow
<1>6. CASE A!Fail(c)
  BY <1>0, <1>6, ReturnStep DEF A!Fail
<1> QED
  BY <1>1, <1>2, <1>3, <1>4, <1>5, <1>6

-----------------------------------------------------------------------------
(* Steps that write a store *)

\* What holds of calls and their users when c goes on, whatever it writes.
LEMMA OthersStay ==
  ASSUME A!TypeOK, NEW c \in Calls, NEW k, A!GoOn(c, k)
  PROVE  call'[c] = k /\ crossed' = crossed /\ \A d \in Calls \ {c} : call'[d] = call[d]
BY DEF A!TypeOK, A!GoOn

\* A code is stored, whatever becomes of the mail: the call goes on with the mail
\* of that code, or the code is marked as not going to be mailed.
LEMMA StoreStep ==
  ASSUME AccountInv, NEW c \in Calls, NEW v \in Codes, NEW k \in A!CallStates,
         A!At(c, "store"), A!Store(call[c].email, v), A!GoOn(c, k), inbox' = inbox,
         UNCHANGED <<users, profiles, addresses, nextAddr, saved>>,
         unmailed' \subseteq Emails, \A e \in unmailed : e # call[c].email => e \in unmailed',
         k.at \in {"idle", "mail"},
         k.at = "mail" => k.email = call[c].email /\ k.code = v,
         k.at = "idle" => call[c].email \in unmailed'
  PROVE  AccountInv'
<1>0. /\ A!TypeOK /\ A!CodeStands
      /\ codes \in [Emails -> [code : Codes, fresh : BOOLEAN] \cup {NoCode}]
      /\ call[c] \in A!CallStates /\ call[c].at = "store" /\ users \subseteq Emails
  BY DEF AccountInv, A!TypeOK, A!At
<1>1. PICK e \in Emails : e = call[c].email
  BY <1>0, CallFacts
<1>2. PICK w \in [code : Codes, fresh : BOOLEAN] : w = [code |-> v, fresh |-> TRUE]
  OBVIOUS
<1>3. w # NoCode /\ w.code = v
  BY <1>2, ServiceConstants
<1>4. codes' = [codes EXCEPT ![e] = w]
  BY <1>1, <1>2 DEF A!Store
<1>5. codes'[e] = w /\ \A f \in Emails \ {e} : codes'[f] = codes[f]
  BY <1>0, <1>4
<1>6. call'[c] = k /\ \A d \in Calls \ {c} : call'[d] = call[d]
  BY <1>0, OthersStay
<1>7. A!CodeStands'
  <2> SUFFICES ASSUME NEW f \in Emails
               PROVE  /\ inbox[f] # {} => codes'[f] # NoCode
                      /\ codes'[f] # NoCode =>
                           \/ codes'[f].code \in inbox[f]
                           \/ f \in unmailed'
                           \/ \E d \in Calls : /\ call'[d].at = "mail" /\ call'[d].email = f
                                               /\ call'[d].code = codes'[f].code
    BY DEF A!CodeStands, A!At
  <2>1. CASE f = e
    BY <1>1, <1>3, <1>5, <1>6, <2>1
  <2>2. CASE f # e
    <3>1. \A d \in Calls : A!At(d, "mail") => d # c /\ call'[d] = call[d]
      BY <1>0, <1>6 DEF A!At
    <3> QED
      BY <1>0, <1>1, <1>5, <2>2, <3>1 DEF A!CodeStands, A!At
  <2> QED
    BY <2>1, <2>2
<1>8. /\ codes' \in [Emails -> [code : Codes, fresh : BOOLEAN] \cup {NoCode}]
      /\ inbox' \in [Emails -> SUBSET Codes]
  BY <1>0, <1>4 DEF A!TypeOK
<1> QED
  BY <1>0, <1>7, <1>8, CodesStep DEF A!UsesRow

LEMMA StoreCodeInv ==
  ASSUME AccountInv, NEW c \in Calls, A!StoreCode(c) \/ A!StoreReplyLost(c)
  PROVE  AccountInv'
<1>0. /\ unmailed \subseteq Emails /\ call[c] \in A!CallStates /\ call[c].at = "store"
      /\ call[c].email \in Emails
  <2>1. unmailed \subseteq Emails /\ call[c] \in A!CallStates /\ call[c].at = "store"
    BY DEF AccountInv, A!TypeOK, A!StoreCode, A!StoreReplyLost, A!At
  <2> QED
    BY <2>1, CallFacts
<1>1. CASE A!StoreCode(c)
  <2>1. PICK v \in Codes : /\ A!Store(call[c].email, v)
                           /\ A!GoOn(c, [at |-> "mail", email |-> call[c].email, code |-> v])
    BY <1>1 DEF A!StoreCode
  <2>2. PICK k : k = [at |-> "mail", email |-> call[c].email, code |-> v]
    OBVIOUS
  <2>3. k \in A!CallStates /\ k.at = "mail" /\ k.email = call[c].email /\ k.code = v
    BY <1>0, <2>2 DEF A!CallStates
  <2>4. A!GoOn(c, k)
    BY <2>1, <2>2
  <2> QED
    BY <1>0, <1>1, <2>1, <2>3, <2>4, StoreStep DEF A!StoreCode
<1>2. CASE A!StoreReplyLost(c)
  <2>1. PICK v \in Codes : A!Store(call[c].email, v)
    BY <1>2 DEF A!StoreReplyLost
  <2>2. A!GoOn(c, A!Idle)
    BY <1>2 DEF A!StoreReplyLost, A!Return
  <2> QED
    BY <1>0, <1>2, <2>1, <2>2, StoreStep, IdleUsesNothing DEF A!StoreReplyLost
<1> QED
  BY <1>1, <1>2

\* A mail arrives or is lost; the code it holds may be the stored one or not.
LEMMA MailInv ==
  ASSUME AccountInv, NEW c \in Calls, A!MailCode(c) \/ A!MailFails(c)
  PROVE  AccountInv'
<1>0. /\ A!TypeOK /\ A!CodeStands
      /\ call[c] \in A!CallStates /\ call[c].at = "mail" /\ users' = users /\ codes' = codes
      /\ A!GoOn(c, A!Idle) /\ users \subseteq Emails
      /\ codes \in [Emails -> [code : Codes, fresh : BOOLEAN] \cup {NoCode}]
      /\ inbox \in [Emails -> SUBSET Codes] /\ unmailed \subseteq Emails
      /\ UNCHANGED <<profiles, addresses, nextAddr, saved>>
  BY DEF AccountInv, A!TypeOK, A!MailCode, A!MailFails, A!Return, A!At
<1>1. PICK e \in Emails : e = call[c].email
  BY <1>0, CallFacts
<1>2. PICK v \in Codes : v = call[c].code
  BY <1>0, CallFacts
<1>3. \/ /\ inbox' = IF codes[e] = NoCode THEN inbox ELSE [inbox EXCEPT ![e] = @ \cup {v}]
         /\ unmailed' = unmailed
      \/ /\ inbox' = inbox
         /\ unmailed' = IF A!IsStored(e, v) THEN unmailed \cup {e} ELSE unmailed
  BY <1>1, <1>2 DEF A!MailCode, A!MailFails
<1>4. /\ inbox' \in [Emails -> SUBSET Codes] /\ unmailed' \subseteq Emails /\ unmailed \subseteq unmailed'
      /\ \A f \in Emails : inbox[f] \subseteq inbox'[f] /\ (codes[f] = NoCode => inbox'[f] = inbox[f])
      /\ codes[e] # NoCode /\ codes[e].code = v => v \in inbox'[e] \/ e \in unmailed'
  BY <1>0, <1>3 DEF A!IsStored
<1>5. \A d \in Calls \ {c} : call'[d] = call[d]
  BY <1>0, OthersStay
<1>6. A!CodeStands'
  <2> SUFFICES ASSUME NEW f \in Emails
               PROVE  /\ inbox'[f] # {} => codes[f] # NoCode
                      /\ codes[f] # NoCode =>
                           \/ codes[f].code \in inbox'[f]
                           \/ f \in unmailed'
                           \/ \E d \in Calls : /\ call'[d].at = "mail" /\ call'[d].email = f
                                               /\ call'[d].code = codes[f].code
    BY <1>0 DEF A!CodeStands, A!At
  <2>1. inbox'[f] # {} => codes[f] # NoCode
    BY <1>0, <1>4 DEF A!CodeStands
  <2>2. ASSUME codes[f] # NoCode, codes[f].code \notin inbox'[f], f \notin unmailed'
        PROVE  \E d \in Calls : /\ call'[d].at = "mail" /\ call'[d].email = f
                                /\ call'[d].code = codes[f].code
    <3>1. PICK d \in Calls : call[d].at = "mail" /\ call[d].email = f /\ call[d].code = codes[f].code
      BY <1>0, <1>4, <2>2 DEF A!CodeStands, A!At
    <3>2. d # c
      BY <1>1, <1>2, <1>4, <2>2, <3>1
    <3> QED
      BY <1>5, <3>1, <3>2
  <2> QED
    BY <2>1, <2>2
<1> QED
  BY <1>0, <1>4, <1>6, CodesStep, IdleUsesNothing

\* The codes and mails as they should be when a code is gone with its mails.
LEMMA CodeGone ==
  ASSUME A!TypeOK, A!CodeStands, NEW e \in Emails,
         codes' = [codes EXCEPT ![e] = NoCode], inbox' = [inbox EXCEPT ![e] = {}],
         unmailed' = unmailed,
         \A d \in Calls : A!At(d, "mail") => call'[d] = call[d]
  PROVE  /\ codes' \in [Emails -> [code : Codes, fresh : BOOLEAN] \cup {NoCode}]
         /\ inbox' \in [Emails -> SUBSET Codes]
         /\ A!CodeStands'
<1>1. /\ codes \in [Emails -> [code : Codes, fresh : BOOLEAN] \cup {NoCode}]
      /\ inbox \in [Emails -> SUBSET Codes]
  BY DEF A!TypeOK
<1>2. /\ codes'[e] = NoCode /\ inbox'[e] = {}
      /\ \A f \in Emails \ {e} : codes'[f] = codes[f] /\ inbox'[f] = inbox[f]
  BY <1>1
<1>3. A!CodeStands'
  <2> SUFFICES ASSUME NEW f \in Emails
               PROVE  /\ inbox'[f] # {} => codes'[f] # NoCode
                      /\ codes'[f] # NoCode =>
                           \/ codes'[f].code \in inbox'[f]
                           \/ f \in unmailed
                           \/ \E d \in Calls : /\ call'[d].at = "mail" /\ call'[d].email = f
                                               /\ call'[d].code = codes'[f].code
    BY DEF A!CodeStands, A!At
  <2>1. CASE f = e
    BY <1>2, <2>1
  <2>2. CASE f # e
    BY <1>2, <2>2 DEF A!CodeStands, A!At
  <2> QED
    BY <2>1, <2>2
<1> QED
  BY <1>1, <1>3

LEMMA ConsumeCodeInv ==
  ASSUME AccountInv, NEW c \in Calls, A!ConsumeCode(c)
  PROVE  AccountInv'
<1>1. PICK k : k = [at |-> "lookup", email |-> call[c].email]
  OBVIOUS
<1>2. /\ A!TypeOK /\ A!CodeStands /\ users \subseteq Emails
      /\ call[c] \in A!CallStates /\ call[c].at = "consume" /\ A!GoOn(c, k)
      /\ users' = users /\ profiles' = profiles /\ addresses' = addresses
      /\ nextAddr' = nextAddr /\ saved' = saved /\ unmailed' = unmailed
      /\ \/ /\ codes' = [codes EXCEPT ![call[c].email] = NoCode]
            /\ inbox' = [inbox EXCEPT ![call[c].email] = {}]
         \/ codes' = codes /\ inbox' = inbox
  BY <1>1 DEF A!ConsumeCode, A!At, A!TypeOK, AccountInv
<1>3. call[c].email \in Emails
  BY <1>2, CallFacts
<1>4. k \in A!CallStates /\ k.at = "lookup" /\ k.email = call[c].email
  BY <1>1, <1>3 DEF A!CallStates
<1>5. A!UsesRow(call[c]) /\ ~A!At(c, "mail")
  BY <1>2 DEF A!UsesRow, A!At
<1>6. CASE codes' = codes /\ inbox' = inbox
  BY <1>2, <1>4, <1>5, <1>6, GoOnStep
<1>7. CASE /\ codes' = [codes EXCEPT ![call[c].email] = NoCode]
           /\ inbox' = [inbox EXCEPT ![call[c].email] = {}]
  <2>1. \A d \in Calls : A!At(d, "mail") => call'[d] = call[d]
    BY <1>2, <1>5, OthersStay
  <2>2. /\ codes' \in [Emails -> [code : Codes, fresh : BOOLEAN] \cup {NoCode}]
        /\ inbox' \in [Emails -> SUBSET Codes]
        /\ A!CodeStands' /\ unmailed' \subseteq Emails
    BY <1>2, <1>3, <1>7, <2>1, CodeGone DEF A!TypeOK
  <2> QED
    BY <1>2, <1>4, <1>5, <2>2, CodesStep
<1> QED
  BY <1>2, <1>6, <1>7

LEMMA CodeTimesInv ==
  ASSUME AccountInv, NEW e \in Emails, A!CooldownPasses(e) \/ A!CodeExpires(e)
  PROVE  AccountInv'
<1> USE DEF AccountInv
<1>1. /\ codes \in [Emails -> [code : Codes, fresh : BOOLEAN] \cup {NoCode}]
      /\ inbox \in [Emails -> SUBSET Codes] /\ unmailed' = unmailed
      /\ users' = users /\ profiles' = profiles /\ addresses' = addresses
      /\ nextAddr' = nextAddr /\ saved' = saved /\ call' = call /\ crossed' = crossed
      /\ codes[e] # NoCode
  BY DEF A!TypeOK, A!CooldownPasses, A!CodeExpires
<1>2. /\ codes' \in [Emails -> [code : Codes, fresh : BOOLEAN] \cup {NoCode}]
      /\ inbox' \in [Emails -> SUBSET Codes]
      /\ A!CodeStands'
  <2>1. CASE A!CooldownPasses(e)
    <3>1. codes[e] \in [code : Codes, fresh : BOOLEAN]
      BY <1>1
    <3>2. PICK v : v = [codes[e] EXCEPT !.fresh = FALSE]
      OBVIOUS
    <3>3. v \in [code : Codes, fresh : BOOLEAN] /\ v.code = codes[e].code
      BY <3>1, <3>2
    <3>4. codes' = [codes EXCEPT ![e] = v] /\ inbox' = inbox
      BY <2>1, <3>2 DEF A!CooldownPasses
    <3>5. v # NoCode
      BY <3>3, ServiceConstants
    <3>6. \A f \in Emails : /\ codes'[f] = NoCode <=> codes[f] = NoCode
                            /\ codes'[f].code = codes[f].code
      BY <1>1, <3>3, <3>4, <3>5
    <3> QED
      BY <1>1, <3>3, <3>4, <3>6 DEF A!CodeStands, A!At
  <2>2. CASE A!CodeExpires(e)
    BY <1>1, <2>2, CodeGone DEF A!CodeExpires
  <2> QED
    BY <2>1, <2>2
<1>3. A!TypeOK'
  BY <1>1, <1>2 DEF A!TypeOK
<1>4. A!OneDefault' /\ RowsBlank' /\ A!ProfileKept' /\ SavesKnown' /\ RowsFresh'
  BY <1>1 DEF A!OneDefault, RowsBlank, A!ProfileKept, SavesKnown, RowsFresh, A!At
<1>5. Alone'
  BY <1>1 DEF Alone, Uses, A!UsesRow
<1> QED
  BY <1>2, <1>3, <1>4, <1>5

LEMMA BlankIsRow == A!Blank \in A!Row /\ NoProfile \notin A!Row
BY ServiceConstants DEF A!Blank, A!Row

\* What is written back is a row, and the last saved values with one more.
LEMMA RowWritten ==
  ASSUME NEW k, k.row \in A!Row \cup {NoProfile}, k.field \in {"phone", "prefs"},
         k.value \in Values,
         NEW s \in A!Row, k.row = NoProfile => s = A!Blank, k.row # NoProfile => k.row = s
  PROVE  /\ A!NewRow(k) \in A!Row
         /\ A!NewRow(k) = [s EXCEPT ![k.field] = k.value]
<1>1. (IF k.row = NoProfile THEN A!Blank ELSE k.row) = s
  BY BlankIsRow
<1>2. A!NewRow(k) = [s EXCEPT ![k.field] = k.value]
  BY <1>1 DEF A!NewRow
<1>3. [s EXCEPT ![k.field] = k.value] \in A!Row
  BY DEF A!Row
<1> QED
  BY <1>2, <1>3

LEMMA CreateProfileInv ==
  ASSUME AccountInv, NEW c \in Calls, A!CreateProfile(c)
  PROVE  AccountInv'
<1> USE DEF AccountInv
<1>1. /\ call[c] \in A!CallStates /\ call[c].at = "open" /\ A!GoOn(c, A!Idle)
      /\ profiles \in [Emails -> A!Row \cup {NoProfile}]
      /\ codes' = codes /\ users' = users /\ addresses' = addresses
      /\ nextAddr' = nextAddr /\ saved' = saved /\ inbox' = inbox /\ unmailed' = unmailed
      /\ profiles' = IF profiles[call[c].email] = NoProfile
                     THEN [profiles EXCEPT ![call[c].email] = A!Blank] ELSE profiles
  BY DEF A!CreateProfile, A!At, A!Return, A!TypeOK
<1>2. call[c].email \in Emails
  BY <1>1, CallFacts
<1>3. CASE profiles[call[c].email] # NoProfile
  BY <1>1, <1>3, ReturnStep DEF A!Return, A!TypeOK, A!At
<1>4. CASE profiles[call[c].email] = NoProfile
  <2>1. /\ call'[c] = A!Idle /\ crossed' = crossed /\ A!Idle.at = "idle"
        /\ \A d \in Calls \ {c} : call'[d] = call[d]
    BY <1>1, OthersStay, IdleUsesNothing
  <2>2. /\ profiles'[call[c].email] = A!Blank /\ saved[call[c].email] = A!Blank
        /\ \A e \in Emails \ {call[c].email} : profiles'[e] = profiles[e]
    BY <1>1, <1>2, <1>4 DEF RowsBlank
  <2>3. A!TypeOK'
    <3>1. profiles' \in [Emails -> A!Row \cup {NoProfile}]
      BY <1>1, <1>4, BlankIsRow
    <3>2. call' \in [Calls -> A!CallStates]
      BY <1>1, IdleUsesNothing DEF A!GoOn, A!TypeOK
    <3> QED
      BY <1>1, <2>1, <3>1, <3>2 DEF A!TypeOK
  <2>4. A!OneDefault' /\ SavesKnown' /\ A!CodeStands'
    BY <1>1, <2>1, CodesUntouched DEF A!OneDefault, SavesKnown, A!At
  <2>5. Alone'
    BY <1>1, AloneGoesOn, IdleUsesNothing
  <2>6. RowsBlank' /\ A!ProfileKept'
    BY <1>1, <2>1, <2>2, BlankIsRow DEF RowsBlank, A!ProfileKept
  <2>7. RowsFresh'
    <3> SUFFICES ASSUME NEW d \in Calls \ {c}, call[d].at = "saveProfile",
                        call[d].email \notin crossed
                 PROVE  call[d].row = profiles'[call[d].email]
      BY <2>1 DEF RowsFresh, A!At
    <3>1. /\ call[d].email \in Emails /\ A!UsesRow(call[d])
          /\ A!UsesRow(call[c])
      BY <1>1, CallFacts DEF A!TypeOK, A!UsesRow
    <3>2. call[d].email # call[c].email
      BY <3>1 DEF Alone, Uses
    <3> QED
      BY <2>2, <3>1, <3>2 DEF RowsFresh, A!At
  <2> QED
    BY <2>3, <2>4, <2>5, <2>6, <2>7
<1> QED
  BY <1>3, <1>4

LEMMA SaveProfileInv ==
  ASSUME AccountInv, NEW c \in Calls, A!SaveProfile(c)
  PROVE  AccountInv'
<1> USE DEF AccountInv
<1>1. /\ call[c] \in A!CallStates /\ call[c].at = "saveProfile" /\ A!GoOn(c, A!Idle)
      /\ profiles \in [Emails -> A!Row \cup {NoProfile}] /\ saved \in [Emails -> A!Row]
      /\ codes' = codes /\ users' = users /\ addresses' = addresses
      /\ nextAddr' = nextAddr /\ inbox' = inbox /\ unmailed' = unmailed
  BY DEF A!SaveProfile, A!At, A!Return, A!TypeOK
<1>2. /\ call[c].email \in Emails /\ call[c].field \in {"phone", "prefs"}
      /\ call[c].value \in Values /\ call[c].row \in A!Row \cup {NoProfile}
  BY <1>1, CallFacts
<1>3. CASE call[c].row = NoProfile /\ profiles[call[c].email] # NoProfile
  BY <1>1, <1>3, ReturnStep DEF A!SaveProfile, A!Return, A!TypeOK, A!At
<1>4. CASE ~(call[c].row = NoProfile /\ profiles[call[c].email] # NoProfile)
  <2>1. PICK e : e = call[c].email
    OBVIOUS
  <2>2. PICK row : row = A!NewRow(call[c])
    OBVIOUS
  <2>3. PICK s : s = [saved[e] EXCEPT ![call[c].field] = call[c].value]
    OBVIOUS
  <2>4. profiles' = [profiles EXCEPT ![e] = row] /\ saved' = [saved EXCEPT ![e] = s]
    BY <1>1, <1>4, <2>1, <2>2, <2>3 DEF A!SaveProfile
  <2>5. row \in A!Row /\ s \in A!Row /\ row # NoProfile
    <3>1. saved[e] \in A!Row
      BY <1>1, <1>2, <2>1
    <3>2. s \in A!Row
      BY <1>2, <2>3, <3>1 DEF A!Row
    <3>3. PICK t \in A!Row : t = IF call[c].row = NoProfile THEN A!Blank ELSE call[c].row
      BY <1>2, BlankIsRow
    <3>4. row \in A!Row
      BY <1>2, <2>2, <3>3, BlankIsRow, RowWritten
    <3> QED
      BY <3>2, <3>4, BlankIsRow
  <2>6. ASSUME e \notin crossed PROVE row = s
    <3>1. call[c].row = profiles[e]
      BY <1>1, <2>1, <2>6 DEF RowsFresh, A!At
    <3>2. /\ call[c].row = NoProfile => saved[e] = A!Blank
          /\ call[c].row # NoProfile => call[c].row = saved[e]
      BY <1>2, <2>1, <2>6, <3>1 DEF RowsBlank, A!ProfileKept
    <3>3. saved[e] \in A!Row
      BY <1>1, <1>2, <2>1
    <3> QED
      BY <1>2, <2>2, <2>3, <3>2, <3>3, RowWritten
  <2>7. /\ profiles'[e] = row /\ saved'[e] = s
        /\ \A f \in Emails \ {e} : profiles'[f] = profiles[f] /\ saved'[f] = saved[f]
    BY <1>1, <1>2, <2>1, <2>4
  <2>8. /\ call'[c] = A!Idle /\ crossed' = crossed /\ A!Idle.at = "idle"
        /\ \A d \in Calls \ {c} : call'[d] = call[d]
    BY <1>1, OthersStay, IdleUsesNothing
  <2>9. A!TypeOK'
    <3>1. profiles' \in [Emails -> A!Row \cup {NoProfile}] /\ saved' \in [Emails -> A!Row]
      BY <1>1, <2>4, <2>5
    <3>2. call' \in [Calls -> A!CallStates]
      BY <1>1, IdleUsesNothing DEF A!GoOn, A!TypeOK
    <3> QED
      BY <1>1, <2>8, <3>1, <3>2 DEF A!TypeOK
  <2>10. A!OneDefault' /\ SavesKnown' /\ A!CodeStands'
    BY <1>1, <2>8, CodesUntouched DEF A!OneDefault, SavesKnown, A!At
  <2>11. Alone'
    BY <1>1, AloneGoesOn, IdleUsesNothing
  <2>12. RowsBlank' /\ A!ProfileKept'
    BY <2>5, <2>6, <2>7, <2>8 DEF RowsBlank, A!ProfileKept
  <2>13. RowsFresh'
    <3> SUFFICES ASSUME NEW d \in Calls \ {c}, call[d].at = "saveProfile",
                        call[d].email \notin crossed
                 PROVE  call[d].row = profiles'[call[d].email]
      BY <2>8 DEF RowsFresh, A!At
    <3>1. /\ call[d].email \in Emails /\ A!UsesRow(call[d])
          /\ A!UsesRow(call[c])
      BY <1>1, CallFacts DEF A!TypeOK, A!UsesRow
    <3>2. call[d].email # e
      BY <2>1, <3>1 DEF Alone, Uses
    <3> QED
      BY <2>7, <3>1, <3>2 DEF RowsFresh, A!At
  <2> QED
    BY <2>9, <2>10, <2>11, <2>12, <2>13
<1> QED
  BY <1>3, <1>4

\* A written address is the only default one of its user, if it is one.
LEMMA WrittenFacts ==
  ASSUME addresses \in [A!AddressIds -> [user : Emails, dflt : BOOLEAN] \cup {NoAddress}],
         A!OneDefault, NEW e \in Emails, NEW a \in A!AddressIds, NEW d \in BOOLEAN,
         addresses' = A!Written(e, a, d)
  PROVE  /\ addresses' \in [A!AddressIds -> [user : Emails, dflt : BOOLEAN] \cup {NoAddress}]
         /\ \A b \in A!AddressIds \ {a} : addresses[b] = NoAddress => addresses'[b] = NoAddress
         /\ A!OneDefault'
<1>1. PICK v \in [user : Emails, dflt : BOOLEAN] : v = [user |-> e, dflt |-> d]
  OBVIOUS
<1>2. PICK base : base = IF d THEN A!ClearDefaults(e) ELSE addresses
  OBVIOUS
<1>3. \A b \in A!AddressIds : A!OwnedBy(b, e) =>
        /\ [addresses[b] EXCEPT !.dflt = FALSE] \in [user : Emails, dflt : BOOLEAN]
        /\ [addresses[b] EXCEPT !.dflt = FALSE].dflt = FALSE
  BY DEF A!OwnedBy
<1>4. /\ base \in [A!AddressIds -> [user : Emails, dflt : BOOLEAN] \cup {NoAddress}]
      /\ \A b \in A!AddressIds : ~A!OwnedBy(b, e) => base[b] = addresses[b]
      /\ d => \A b \in A!AddressIds : A!OwnedBy(b, e) => base[b].dflt = FALSE
      /\ ~d => base = addresses
  BY <1>2, <1>3 DEF A!ClearDefaults
<1>5. addresses' = [base EXCEPT ![a] = v]
  BY <1>1, <1>2 DEF A!Written
<1>6. addresses'[a] = v /\ \A b \in A!AddressIds \ {a} : addresses'[b] = base[b]
  BY <1>4, <1>5
<1>7. addresses' \in [A!AddressIds -> [user : Emails, dflt : BOOLEAN] \cup {NoAddress}]
  BY <1>4, <1>5
<1>8. \A b \in A!AddressIds \ {a} : addresses[b] = NoAddress => addresses'[b] = NoAddress
  BY <1>4, <1>6 DEF A!OwnedBy
<1>9. ASSUME NEW b \in A!AddressIds \ {a}, addresses'[b] # NoAddress, addresses'[b].dflt
      PROVE  addresses'[b] = addresses[b] /\ (d => addresses[b].user # e)
  <2>1. CASE d
    <3>1. ~A!OwnedBy(b, e)
      BY <1>4, <1>6, <1>9, <2>1
    <3> QED
      BY <1>4, <1>6, <1>9, <3>1 DEF A!OwnedBy
  <2>2. CASE ~d
    BY <1>4, <1>6, <2>2
  <2> QED
    BY <2>1, <2>2
<1>10. v.user = e /\ v.dflt = d
  BY <1>1
<1>11. A!OneDefault'
  <2> SUFFICES ASSUME NEW x \in A!AddressIds, NEW y \in A!AddressIds,
                      addresses'[x] # NoAddress, addresses'[y] # NoAddress,
                      addresses'[x].user = addresses'[y].user,
                      addresses'[x].dflt, addresses'[y].dflt
               PROVE  x = y
    BY DEF A!OneDefault
  <2>1. CASE x # a /\ y # a
    BY <1>9, <2>1 DEF A!OneDefault
  <2>2. CASE x = a /\ y # a
    BY <1>6, <1>9, <1>10, <2>2
  <2>3. CASE y = a /\ x # a
    BY <1>6, <1>9, <1>10, <2>3
  <2> QED
    BY <2>1, <2>2, <2>3
<1> QED
  BY <1>7, <1>8, <1>11

LEMMA AddressesInv ==
  ASSUME AccountInv,
         \/ \E e \in Emails, d \in BOOLEAN : A!CreateAddress(e, d)
         \/ \E e \in Emails, a \in A!AddressIds : A!DeleteAddress(e, a)
         \/ \E c \in Calls : A!SaveAddress(c)
  PROVE  /\ AccountInv'
         /\ \A a \in A!Gone : addresses'[a] # NoAddress
               => \E c \in Calls : /\ call[c] # call'[c]
                                   /\ A!At(c, "saveAddress")
                                   /\ call[c].id = a /\ a \notin call[c].gone
<1> USE DEF AccountInv
<1>0. /\ addresses \in [A!AddressIds -> [user : Emails, dflt : BOOLEAN] \cup {NoAddress}]
      /\ call \in [Calls -> A!CallStates] /\ nextAddr \in 1 .. MaxAddresses + 1
      /\ codes' = codes /\ users' = users /\ profiles' = profiles /\ inbox' = inbox
      /\ unmailed' = unmailed /\ saved' = saved /\ crossed' = crossed
      /\ MaxAddresses \in Nat
  BY ServiceConstants
     DEF A!TypeOK, A!CreateAddress, A!DeleteAddress, A!SaveAddress, A!Return, A!GoOn
<1>1. A!Gone \subseteq A!AddressIds /\ \A a \in A!Gone : addresses[a] = NoAddress /\ a < nextAddr
  BY <1>0 DEF A!Gone, A!AddressIds
<1>2. ASSUME call' = call, nextAddr' \in 1 .. MaxAddresses + 1, A!OneDefault',
             addresses' \in [A!AddressIds -> [user : Emails, dflt : BOOLEAN] \cup {NoAddress}]
      PROVE  AccountInv'
  <2>1. A!TypeOK'
    BY <1>0, <1>2 DEF A!TypeOK
  <2> QED
    BY <1>0, <1>2, <2>1 DEF SavesKnown, Alone, Uses, A!UsesRow, A!CodeStands, RowsBlank,
                            RowsFresh, A!ProfileKept, A!At
<1>3. ASSUME NEW e \in Emails, NEW d \in BOOLEAN, A!CreateAddress(e, d)
      PROVE  AccountInv' /\ \A a \in A!Gone : addresses'[a] = NoAddress
  <2>1. /\ addresses' = A!Written(e, nextAddr, d) /\ nextAddr' = nextAddr + 1 /\ call' = call
        /\ nextAddr \in A!AddressIds /\ nextAddr' \in 1 .. MaxAddresses + 1
    BY <1>0, <1>3 DEF A!CreateAddress, A!AddressIds
  <2>2. /\ addresses' \in [A!AddressIds -> [user : Emails, dflt : BOOLEAN] \cup {NoAddress}]
        /\ \A b \in A!AddressIds \ {nextAddr} : addresses[b] = NoAddress => addresses'[b] = NoAddress
        /\ A!OneDefault'
    BY <1>0, <2>1, WrittenFacts
  <2>3. \A a \in A!Gone : a \in A!AddressIds \ {nextAddr}
    BY <1>0, <1>1
  <2> QED
    BY <1>1, <1>2, <2>1, <2>2, <2>3
<1>4. ASSUME NEW e \in Emails, NEW b \in A!AddressIds, A!DeleteAddress(e, b)
      PROVE  AccountInv' /\ \A a \in A!Gone : addresses'[a] = NoAddress
  <2>1. addresses' = [addresses EXCEPT ![b] = NoAddress] /\ nextAddr' = nextAddr /\ call' = call
    BY <1>4 DEF A!DeleteAddress
  <2>2. \A a \in A!AddressIds : addresses'[a] = addresses[a] \/ addresses'[a] = NoAddress
    BY <1>0, <2>1
  <2>3. A!OneDefault'
    <3> SUFFICES ASSUME NEW x \in A!AddressIds, NEW y \in A!AddressIds,
                        addresses'[x] # NoAddress, addresses'[y] # NoAddress,
                        addresses'[x].user = addresses'[y].user,
                        addresses'[x].dflt, addresses'[y].dflt
                 PROVE  x = y
      BY DEF A!OneDefault
    <3>1. addresses'[x] = addresses[x] /\ addresses'[y] = addresses[y]
      BY <2>2
    <3> QED
      BY <3>1 DEF A!OneDefault
  <2> QED
    BY <1>0, <1>1, <1>2, <2>1, <2>2, <2>3
<1>5. ASSUME NEW c \in Calls, A!SaveAddress(c)
      PROVE  /\ AccountInv'
             /\ A!At(c, "saveAddress") /\ call[c] # call'[c] /\ call[c].id \notin call[c].gone
             /\ \A a \in A!Gone : a # call[c].id => addresses'[a] = NoAddress
  <2>1. /\ call[c].at = "saveAddress" /\ A!GoOn(c, A!Idle) /\ nextAddr' = nextAddr
        /\ addresses' = A!Written(call[c].email, call[c].id, call[c].dflt)
    BY <1>5 DEF A!SaveAddress, A!At, A!Return
  <2>2. call[c].email \in Emails /\ call[c].id \in A!AddressIds /\ call[c].dflt \in BOOLEAN
    BY <1>0, <2>1, CallFacts
  <2>3. /\ addresses' \in [A!AddressIds -> [user : Emails, dflt : BOOLEAN] \cup {NoAddress}]
        /\ \A b \in A!AddressIds \ {call[c].id} : addresses[b] = NoAddress => addresses'[b] = NoAddress
        /\ A!OneDefault'
    BY <1>0, <2>1, <2>2, WrittenFacts
  <2>4. /\ call'[c] = A!Idle /\ A!Idle.at = "idle"
        /\ \A d \in Calls \ {c} : call'[d] = call[d]
    BY <2>1, OthersStay, IdleUsesNothing
  <2>5. A!TypeOK'
    <3>1. call' \in [Calls -> A!CallStates]
      BY <1>0, <2>1, IdleUsesNothing DEF A!GoOn
    <3> QED
      BY <1>0, <2>1, <2>3, <3>1 DEF A!TypeOK
  <2>6. Alone'
    BY <2>1, AloneGoesOn, IdleUsesNothing
  <2>7. SavesKnown' /\ RowsFresh'
    BY <1>0, <2>4 DEF SavesKnown, RowsFresh, A!At
  <2>8. A!CodeStands' /\ RowsBlank' /\ A!ProfileKept'
    BY <1>0, <2>1, <2>4, CodesUntouched DEF RowsBlank, A!ProfileKept, A!At
  <2>9. AccountInv'
    BY <2>3, <2>5, <2>6, <2>7, <2>8
  <2>10. A!At(c, "saveAddress") /\ call[c] # call'[c] /\ call[c].id \notin call[c].gone
    BY <2>1, <2>4 DEF SavesKnown, A!At
  <2> QED
    BY <1>1, <2>3, <2>9, <2>10
<1> QED
  BY <1>3, <1>4, <1>5

-----------------------------------------------------------------------------
LEMMA InitAccounts == A!Init => AccountInv
<1> SUFFICES ASSUME A!Init PROVE AccountInv
  OBVIOUS
<1>1. A!TypeOK
  <2>1. A!Blank \in A!Row /\ A!Idle \in A!CallStates
    BY BlankIsRow, IdleUsesNothing
  <2>2. nextAddr \in 1 .. MaxAddresses + 1
    BY ServiceConstants DEF A!Init
  <2> QED
    BY <2>1, <2>2 DEF A!Init, A!TypeOK
<1>2. \A c \in Calls : call[c] = A!Idle /\ call[c].at = "idle" /\ ~A!UsesRow(call[c])
  BY IdleUsesNothing DEF A!Init
<1>3. SavesKnown /\ Alone /\ RowsFresh
  BY <1>2 DEF SavesKnown, Alone, Uses, RowsFresh, A!At
<1>4. A!OneDefault /\ A!CodeStands /\ RowsBlank /\ A!ProfileKept
  BY DEF A!Init, A!OneDefault, A!CodeStands, RowsBlank, A!ProfileKept
<1> QED
  BY <1>1, <1>3, <1>4 DEF AccountInv

\* What DeletedStaysDeleted says of a step.
NoneBroughtBack ==
  \A a \in A!Gone : addresses'[a] # NoAddress
    => \E c \in Calls : /\ call[c] # call'[c]
                        /\ A!At(c, "saveAddress")
                        /\ call[c].id = a /\ a \notin call[c].gone

LEMMA AddressesAlone ==
  ASSUME A!TypeOK, addresses' = addresses
  PROVE  NoneBroughtBack
BY DEF NoneBroughtBack, A!Gone

LEMMA NextAccounts ==
  ASSUME AccountInv, [A!Next]_A!vars
  PROVE  AccountInv' /\ [NoneBroughtBack]_A!vars
<1>0. A!TypeOK
  BY DEF AccountInv
<1>1. ASSUME NEW c \in Calls, NEW e \in Emails,
             \/ A!SendVerificationCode(c, e)
             \/ \E k \in Codes : A!Register(c, e, k)
             \/ \E v \in Values : A!UpdateProfile(c, e, v) \/ A!UpdateUserPreferences(c, e, v)
             \/ \E a \in A!AddressIds, d \in BOOLEAN : A!UpdateAddress(c, e, a, d)
      PROVE  AccountInv' /\ NoneBroughtBack
  <2>1. addresses' = addresses
    BY <1>1 DEF A!SendVerificationCode, A!Register, A!UpdateProfile, A!UpdateUserPreferences,
                A!UpdateAddress
  <2> QED
    BY <1>0, <1>1, <2>1, BeginsInv, AddressesAlone
<1>2. ASSUME NEW c \in Calls,
             \/ A!CheckCooldown(c) \/ A!GetUserByEmail(c) \/ A!CreateUser(c)
             \/ A!UpdateUser(c) \/ A!GetProfile(c) \/ A!Fail(c)
      PROVE  AccountInv' /\ NoneBroughtBack
  <2>1. addresses' = addresses
    BY <1>2 DEF A!CheckCooldown, A!GetUserByEmail, A!CreateUser, A!UpdateUser, A!GetProfile, A!Fail
  <2> QED
    BY <1>0, <1>2, <2>1, MovesInv, AddressesAlone
<1>3. ASSUME NEW c \in Calls,
             \/ A!StoreCode(c) \/ A!StoreReplyLost(c) \/ A!MailCode(c) \/ A!MailFails(c)
             \/ A!ConsumeCode(c) \/ A!CreateProfile(c) \/ A!SaveProfile(c)
      PROVE  AccountInv' /\ NoneBroughtBack
  <2>1. addresses' = addresses
    BY <1>3 DEF A!StoreCode, A!StoreReplyLost, A!MailCode, A!MailFails, A!ConsumeCode,
                A!CreateProfile, A!SaveProfile
  <2> QED
    BY <1>0, <1>3, <2>1, StoreCodeInv, MailInv, ConsumeCodeInv, CreateProfileInv, SaveProfileInv, AddressesAlone
<1>4. ASSUME NEW e \in Emails, A!CooldownPasses(e) \/ A!CodeExpires(e)
      PROVE  AccountInv' /\ NoneBroughtBack
  <2>1. addresses' = addresses
    BY <1>4 DEF A!CooldownPasses, A!CodeExpires
  <2> QED
    BY <1>0, <1>4, <2>1, CodeTimesInv, AddressesAlone
<1>5. ASSUME \/ \E e \in Emails, d \in BOOLEAN : A!CreateAddress(e, d)
             \/ \E e \in Emails, a \in A!AddressIds : A!DeleteAddress(e, a)
             \/ \E c \in Calls : A!SaveAddress(c)
      PROVE  AccountInv' /\ NoneBroughtBack
  BY <1>5, AddressesInv DEF NoneBroughtBack
<1>6. CASE UNCHANGED A!vars
  BY <1>6, AccountsStay DEF A!vars, accountVars
<1>7. CASE A!Next
  BY <1>1, <1>2, <1>3, <1>4, <1>5, <1>7 DEF A!Next
<1> QED
  BY <1>6, <1>7

\* In the composition the accounts do what Accounts says, or nothing.
LEMMA RunsAccounts == AllSpec => A!Spec
<1>1. AllInit => A!Init
  BY DEF AllInit
<1>2. [AllNext]_allVars => [A!Next]_A!vars
  BY DEF AllNext, allVars, accountVars, A!vars
<1> QED
  BY <1>1, <1>2, PTL DEF AllSpec, A!Spec

LEMMA AccountsInvariant == AllSpec => []AccountInv
<1>1. AccountInv /\ [A!Next]_A!vars => AccountInv'
  BY NextAccounts
<1> QED
  BY <1>1, InitAccounts, RunsAccounts, PTL DEF A!Spec

\* CreateAddress and UpdateAddress of the user repository: the transaction that
\* sets a default address clears the others', so that no interleaving with an
\* update from a row read earlier leaves two of them.
THEOREM OneDefaultAddress == AllSpec => []OneDefault
<1>1. AccountInv => OneDefault
  BY DEF AccountInv, OneDefault
<1> QED
  BY <1>1, AccountsInvariant, PTL

\* UpdateAddress reads the row before it writes it: only an update that had read
\* the row before its deletion inserts it again.
THEOREM DeletedAddressesStay == AllSpec => DeletedStaysDeleted
<1>1. AccountInv /\ [A!Next]_A!vars => [NoneBroughtBack]_A!vars
  BY NextAccounts
<1>2. AllSpec => [][NoneBroughtBack]_A!vars
  BY <1>1, AccountsInvariant, RunsAccounts, PTL DEF A!Spec
<1> QED
  BY <1>2 DEF DeletedStaysDeleted, A!DeletedStaysDeleted, NoneBroughtBack

\* UpdateProfile and UpdateUserPreferences write the whole row they have read: as
\* long as no two calls used it at once, it holds what was saved last.
THEOREM ProfilesHoldWhatWasSaved == AllSpec => []ProfileKept
<1>1. AccountInv => ProfileKept
  BY DEF AccountInv, ProfileKept
<1> QED
  BY <1>1, AccountsInvariant, PTL

\* SendVerificationCode, its goroutine that mails, and Register: no overlap of
\* them, no failing mail and no wrong code leaves somebody who was mailed a code
\* without a stored one before a code was used or ran out.
THEOREM MailedCodeStands == AllSpec => []CodeStands
<1>1. AccountInv => CodeStands
  BY DEF AccountInv, CodeStands
<1> QED
  BY <1>1, AccountsInvariant, PTL
=============================================================================
