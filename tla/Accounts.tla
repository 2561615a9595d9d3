------------------------------ MODULE Accounts ------------------------------
(***************************************************************************)
(* The user service: verification codes in Redis, accounts, profiles and   *)
(* delivery addresses in MySQL.  Calls run at the same time; every read or *)
(* write of a store is a step of its own, a transaction on the addresses   *)
(* of a user is one step (its UPDATE locks them through the user_id index).*)
(***************************************************************************)
EXTENDS Naturals, FiniteSets

CONSTANTS Emails, Codes, Values, Calls,
          MaxAddresses,   \* bound: addresses ever created
          NoCode, NoProfile, NoAddress

VARIABLES codes,      \* verify:register:<email> -> code, and whether its cooldown runs
          users,      \* emails with an account; the index on email is unique
          profiles,   \* user -> the profile row
          addresses,  \* address id -> owner and default flag
          nextAddr,   \* the auto-increment of user_addresses
          call,       \* the handler invocations in flight
          (* what the callers were told, for the properties *)
          inbox,      \* email -> the codes mailed since a code was used or ran out
          unmailed,   \* emails whose stored code is not going to be mailed
          saved,      \* user -> what the last updates that took effect wrote
          crossed     \* users whose profile row two calls used at once

vars == <<codes, users, profiles, addresses, nextAddr, call, inbox, unmailed, saved, crossed>>

AddressIds == 1 .. MaxAddresses
Blank == [phone |-> NoProfile, prefs |-> NoProfile]
Row == [phone : Values \cup {NoProfile}, prefs : Values \cup {NoProfile}]
Idle == [at |-> "idle"]

CallStates ==
  {Idle}
    \cup [at : {"cooldown", "store", "lookup", "create", "open"}, email : Emails]
    \cup [at : {"mail", "consume"}, email : Emails, code : Codes]
    \cup [at : {"setName", "readProfile"}, email : Emails, value : Values]
    \cup [at : {"saveProfile"}, email : Emails, field : {"phone", "prefs"},
          value : Values, row : Row \cup {NoProfile}]
    \cup [at : {"saveAddress"}, email : Emails, id : AddressIds, dflt : BOOLEAN,
          gone : SUBSET AddressIds]

TypeOK ==
  /\ codes \in [Emails -> [code : Codes, fresh : BOOLEAN] \cup {NoCode}]
  /\ users \subseteq Emails
  /\ profiles \in [Emails -> Row \cup {NoProfile}]
  /\ addresses \in [AddressIds -> [user : Emails, dflt : BOOLEAN] \cup {NoAddress}]
  /\ nextAddr \in 1 .. MaxAddresses + 1
  /\ call \in [Calls -> CallStates]
  /\ inbox \in [Emails -> SUBSET Codes]
  /\ unmailed \subseteq Emails
  /\ saved \in [Emails -> Row]
  /\ crossed \subseteq Emails

Init ==
  /\ codes = [e \in Emails |-> NoCode]
  /\ users = {}
  /\ profiles = [e \in Emails |-> NoProfile]
  /\ addresses = [a \in AddressIds |-> NoAddress]
  /\ nextAddr = 1
  /\ call = [c \in Calls |-> Idle]
  /\ inbox = [e \in Emails |-> {}]
  /\ unmailed = {}
  /\ saved = [e \in Emails |-> Blank]
  /\ crossed = {}

-----------------------------------------------------------------------------
(* Calls *)

\* A call that may still read or write the profile row of its user.
UsesRow(k) ==
  k.at \in {"consume", "lookup", "create", "open", "setName", "readProfile", "saveProfile"}

Begin(c, k) ==
  /\ call[c] = Idle
  /\ call' = [call EXCEPT ![c] = k]
  /\ crossed' = IF UsesRow(k) /\ \E d \in Calls : UsesRow(call[d]) /\ call[d].email = k.email
                THEN crossed \cup {k.email} ELSE crossed

At(c, stage) == call[c].at = stage
GoOn(c, k) == call' = [call EXCEPT ![c] = k] /\ UNCHANGED crossed
MoveTo(c, stage) == GoOn(c, [call[c] EXCEPT !.at = stage])
Return(c) == GoOn(c, Idle)

\* A store that cannot be reached: the handler answers 500, what it has
\* already written stays.  UpdateProfile ends the same way on a bad birthday.
\* Where the handler ends with a write, one that is applied and reported as
\* failed is the action of that write: answers are not part of the state.
Fail(c) ==
  /\ call[c] # Idle /\ ~At(c, "mail")
  /\ Return(c)
  /\ UNCHANGED <<codes, users, profiles, addresses, nextAddr, inbox, unmailed, saved>>

-----------------------------------------------------------------------------
(* Verification codes and registration *)

SendVerificationCode(c, e) ==
  /\ e \notin users
  /\ Begin(c, [at |-> "cooldown", email |-> e])
  /\ UNCHANGED <<codes, users, profiles, addresses, nextAddr, inbox, unmailed, saved>>

\* The error of TTL is ignored and its zero taken for a cooldown that is over.
CheckCooldown(c) ==
  /\ At(c, "cooldown")
  /\ LET e == call[c].email
     IN \/ codes[e] # NoCode /\ codes[e].fresh /\ Return(c)
        \/ MoveTo(c, "store")
  /\ UNCHANGED <<codes, users, profiles, addresses, nextAddr, inbox, unmailed, saved>>

Store(e, k) == codes' = [codes EXCEPT ![e] = [code |-> k, fresh |-> TRUE]]

\* SET replaces whatever code is there; a goroutine is to mail the new one.
StoreCode(c) ==
  /\ At(c, "store")
  /\ LET e == call[c].email IN
     /\ \E k \in Codes : Store(e, k) /\ GoOn(c, [at |-> "mail", email |-> e, code |-> k])
     /\ unmailed' = unmailed \ {e}
  /\ UNCHANGED <<users, profiles, addresses, nextAddr, inbox, saved>>

\* SET is applied and its reply lost: the handler gives up, nothing is mailed.
StoreReplyLost(c) ==
  /\ At(c, "store")
  /\ \E k \in Codes : Store(call[c].email, k)
  /\ unmailed' = unmailed \cup {call[c].email}
  /\ Return(c)
  /\ UNCHANGED <<users, profiles, addresses, nextAddr, inbox, saved>>

IsStored(e, k) == codes[e] # NoCode /\ codes[e].code = k

\* The goroutine, however late.  A mail that comes when no code is stored any
\* more counts for nothing.
MailCode(c) ==
  /\ At(c, "mail")
  /\ LET k == call[c] IN
       inbox' = IF codes[k.email] = NoCode THEN inbox
                ELSE [inbox EXCEPT ![k.email] = @ \cup {k.code}]
  /\ Return(c)
  /\ UNCHANGED <<codes, users, profiles, addresses, nextAddr, unmailed, saved>>

\* The error is only logged; or the service stops.
MailFails(c) ==
  /\ At(c, "mail")
  /\ LET k == call[c] IN
       unmailed' = IF IsStored(k.email, k.code) THEN unmailed \cup {k.email} ELSE unmailed
  /\ Return(c)
  /\ UNCHANGED <<codes, users, profiles, addresses, nextAddr, inbox, saved>>

\* The TTL of a code falls below four minutes; then it runs out.
CooldownPasses(e) ==
  /\ codes[e] # NoCode /\ codes[e].fresh
  /\ codes' = [codes EXCEPT ![e].fresh = FALSE]
  /\ UNCHANGED <<users, profiles, addresses, nextAddr, call, inbox, unmailed, saved, crossed>>

CodeExpires(e) ==
  /\ codes[e] # NoCode /\ ~codes[e].fresh
  /\ codes' = [codes EXCEPT ![e] = NoCode]
  /\ inbox' = [inbox EXCEPT ![e] = {}]
  /\ UNCHANGED <<users, profiles, addresses, nextAddr, call, unmailed, saved, crossed>>

\* Mutant: the code is deleted before it is compared.
RegisterOneTry(c, e, k) ==
  /\ call[c] = Idle
  /\ IF IsStored(e, k)
     THEN Begin(c, [at |-> "consume", email |-> e, code |-> k]) /\ UNCHANGED codes
     ELSE codes' = [codes EXCEPT ![e] = NoCode] /\ UNCHANGED <<call, crossed>>
  /\ UNCHANGED <<users, profiles, addresses, nextAddr, inbox, unmailed, saved>>

\* A wrong code is refused and changes nothing.
Register(c, e, k) ==
  /\ call[c] = Idle
  /\ IF IsStored(e, k)
     THEN Begin(c, [at |-> "consume", email |-> e, code |-> k])
     ELSE UNCHANGED <<call, crossed>>
  /\ UNCHANGED <<codes, users, profiles, addresses, nextAddr, inbox, unmailed, saved>>

\* Whatever code is there by now is deleted; the error of the DEL is ignored.
ConsumeCode(c) ==
  /\ At(c, "consume")
  /\ \/ /\ codes' = [codes EXCEPT ![call[c].email] = NoCode]
        /\ inbox' = [inbox EXCEPT ![call[c].email] = {}]
     \/ UNCHANGED <<codes, inbox>>
  /\ GoOn(c, [at |-> "lookup", email |-> call[c].email])
  /\ UNCHANGED <<users, profiles, addresses, nextAddr, unmailed, saved>>

GetUserByEmail(c) ==
  /\ At(c, "lookup")
  /\ IF call[c].email \in users THEN Return(c) ELSE MoveTo(c, "create")
  /\ UNCHANGED <<codes, users, profiles, addresses, nextAddr, inbox, unmailed, saved>>

\* The unique index refuses the second of two registrations.
CreateUser(c) ==
  /\ At(c, "create")
  /\ users' = users \cup {call[c].email}
  /\ IF call[c].email \in users THEN Return(c) ELSE MoveTo(c, "open")
  /\ UNCHANGED <<codes, profiles, addresses, nextAddr, inbox, unmailed, saved>>

CreateProfile(c) ==
  /\ At(c, "open")
  /\ profiles' = IF profiles[call[c].email] = NoProfile
                 THEN [profiles EXCEPT ![call[c].email] = Blank] ELSE profiles
  /\ Return(c)
  /\ UNCHANGED <<codes, users, addresses, nextAddr, inbox, unmailed, saved>>

-----------------------------------------------------------------------------
(* Profiles: the row is read whole, one side of it is changed, and the row *)
(* is written back whole.                                                  *)

UpdateProfile(c, e, v) ==
  /\ e \in users
  /\ Begin(c, [at |-> "setName", email |-> e, value |-> v])
  /\ UNCHANGED <<codes, users, profiles, addresses, nextAddr, inbox, unmailed, saved>>

\* The name and avatar in the user's own row, which nothing else reads.
UpdateUser(c) ==
  /\ At(c, "setName")
  /\ MoveTo(c, "readProfile")
  /\ UNCHANGED <<codes, users, profiles, addresses, nextAddr, inbox, unmailed, saved>>

GetProfile(c) ==
  /\ At(c, "readProfile")
  /\ GoOn(c, [at |-> "saveProfile", email |-> call[c].email, field |-> "phone",
              value |-> call[c].value, row |-> profiles[call[c].email]])
  /\ UNCHANGED <<codes, users, profiles, addresses, nextAddr, inbox, unmailed, saved>>

UpdateUserPreferences(c, e, v) ==
  /\ e \in users
  /\ Begin(c, [at |-> "saveProfile", email |-> e, field |-> "prefs",
               value |-> v, row |-> profiles[e]])
  /\ UNCHANGED <<codes, users, profiles, addresses, nextAddr, inbox, unmailed, saved>>

\* Mutants: the row is rebuilt from the request alone; the value takes its place.
RebuiltRow(k) == [Blank EXCEPT ![k.field] = k.value]
BareValue(k) == k.value

\* The row to write: the one that was read, or a new one, with one side changed.
NewRow(k) == [(IF k.row = NoProfile THEN Blank ELSE k.row) EXCEPT ![k.field] = k.value]

\* A row that was not there when it was read is created; the unique index on
\* user_id refuses that when another call has created it.
SaveProfile(c) ==
  /\ At(c, "saveProfile")
  /\ LET k == call[c] IN
       IF k.row = NoProfile /\ profiles[k.email] # NoProfile
       THEN UNCHANGED <<profiles, saved>>
       ELSE /\ profiles' = [profiles EXCEPT ![k.email] = NewRow(k)]
            /\ saved' = [saved EXCEPT ![k.email][k.field] = k.value]
  /\ Return(c)
  /\ UNCHANGED <<codes, users, addresses, nextAddr, inbox, unmailed>>

-----------------------------------------------------------------------------
(* Addresses *)

OwnedBy(a, e) == addresses[a] # NoAddress /\ addresses[a].user = e

\* The other default addresses of e lose their flag.
ClearDefaults(e) ==
  [a \in AddressIds |-> IF OwnedBy(a, e) THEN [addresses[a] EXCEPT !.dflt = FALSE]
                        ELSE addresses[a]]

\* Mutant: the other defaults keep their flag.
WrittenBeside(e, a, dflt) == [addresses EXCEPT ![a] = [user |-> e, dflt |-> dflt]]

\* The rows once e's address a is written with the given flag.
Written(e, a, dflt) ==
  [(IF dflt THEN ClearDefaults(e) ELSE addresses) EXCEPT ![a] = [user |-> e, dflt |-> dflt]]

CreateAddress(e, dflt) ==
  /\ e \in users
  /\ nextAddr <= MaxAddresses
  /\ addresses' = Written(e, nextAddr, dflt)
  /\ nextAddr' = nextAddr + 1
  /\ UNCHANGED <<codes, users, profiles, call, inbox, unmailed, saved, crossed>>

Gone == {a \in 1 .. nextAddr - 1 : addresses[a] = NoAddress}

\* Mutant: the address is not looked up first.
UpdateAddressBlind(c, e, a, dflt) ==
  /\ a < nextAddr
  /\ Begin(c, [at |-> "saveAddress", email |-> e, id |-> a, dflt |-> dflt, gone |-> Gone])
  /\ UNCHANGED <<codes, users, profiles, addresses, nextAddr, inbox, unmailed, saved>>

UpdateAddress(c, e, a, dflt) ==
  /\ OwnedBy(a, e)
  /\ Begin(c, [at |-> "saveAddress", email |-> e, id |-> a, dflt |-> dflt, gone |-> Gone])
  /\ UNCHANGED <<codes, users, profiles, addresses, nextAddr, inbox, unmailed, saved>>

\* Save writes the row that was read; a row deleted meanwhile is inserted again.
SaveAddress(c) ==
  /\ At(c, "saveAddress")
  /\ addresses' = Written(call[c].email, call[c].id, call[c].dflt)
  /\ Return(c)
  /\ UNCHANGED <<codes, users, profiles, nextAddr, inbox, unmailed, saved>>

DeleteAddress(e, a) ==
  /\ OwnedBy(a, e)
  /\ addresses' = [addresses EXCEPT ![a] = NoAddress]
  /\ UNCHANGED <<codes, users, profiles, nextAddr, call, inbox, unmailed, saved, crossed>>

-----------------------------------------------------------------------------
Next ==
  \/ \E c \in Calls, e \in Emails :
       \/ SendVerificationCode(c, e)
       \/ \E k \in Codes : Register(c, e, k)
       \/ \E v \in Values : UpdateProfile(c, e, v) \/ UpdateUserPreferences(c, e, v)
       \/ \E a \in AddressIds, d \in BOOLEAN : UpdateAddress(c, e, a, d)
  \/ \E c \in Calls :
       \/ CheckCooldown(c) \/ StoreCode(c) \/ StoreReplyLost(c) \/ MailCode(c) \/ MailFails(c)
       \/ ConsumeCode(c) \/ GetUserByEmail(c) \/ CreateUser(c) \/ CreateProfile(c)
       \/ UpdateUser(c) \/ GetProfile(c) \/ SaveProfile(c)
       \/ SaveAddress(c) \/ Fail(c)
  \/ \E e \in Emails :
       \/ CooldownPasses(e) \/ CodeExpires(e)
       \/ \E d \in BOOLEAN : CreateAddress(e, d)
       \/ \E a \in AddressIds : DeleteAddress(e, a)

Spec == Init /\ [][Next]_vars

-----------------------------------------------------------------------------
(* Properties *)

\* A user never has two default addresses, however creations, updates written
\* from a row read earlier, and deletions interleave.
OneDefault ==
  \A a, b \in AddressIds :
    /\ addresses[a] # NoAddress /\ addresses[b] # NoAddress
    /\ addresses[a].user = addresses[b].user
    /\ addresses[a].dflt /\ addresses[b].dflt
    => a = b

\* Profile data and preferences share a row, and each update writes the whole
\* of it.  As long as no two calls used a user's row at the same time, the row
\* holds what the last update of each side wrote that took effect.
ProfileKept ==
  \A e \in Emails :
    e \notin crossed /\ profiles[e] # NoProfile => profiles[e] = saved[e]

\* However requests for a code and registrations overlap, and whenever mails
\* arrive: for who was mailed a code one is stored until a code has been used or
\* has run out - a replacement that fails and a registration with a wrong code
\* never take it away; and what is stored is a code that he was mailed, unless
\* its mail is under way or was lost.
CodeStands ==
  \A e \in Emails :
    /\ inbox[e] # {} => codes[e] # NoCode
    /\ codes[e] # NoCode =>
         \/ codes[e].code \in inbox[e]
         \/ e \in unmailed
         \/ \E c \in Calls : At(c, "mail") /\ call[c].email = e /\ call[c].code = codes[e].code

\* An address that was deleted before an update began is not brought back by
\* it; only an update that had read the row before its deletion can do that.
DeletedStaysDeleted ==
  [][\A a \in Gone : addresses'[a] # NoAddress
       => \E c \in Calls : /\ call[c] # call'[c]
                           /\ At(c, "saveAddress")
                           /\ call[c].id = a /\ a \notin call[c].gone]_vars
=============================================================================
