--------------------------- MODULE PipelinesProofs ---------------------------
(***************************************************************************)
(* Theorems about what is handed on - payments to the broker, changes of a  *)
(* book to its index entry, an answer to its client - for every number of   *)
(* payments, books and calls, and for answers of every length.              *)
(***************************************************************************)
EXTENDS BackfillProofs, Sequences

(* The payments *)

Record == [order: Orders, status: {"pending", "success", "refunded"}]

(* An event on its way has happened, was neither sent nor lost, and one     *)
(* call has it; a lost event has happened.                                  *)
InFlightOnce ==
    /\ \A c \in Calls : publishing[c] \in Event =>
         Reached(publishing[c]) /\ sent[publishing[c]] = 0 /\ publishing[c] \notin lost
    /\ \A c, d \in Calls : publishing[c] \in Event /\ publishing[c] = publishing[d] => c = d
    /\ \A e \in lost : Reached(e)

EventInv == TypeOK /\ AnnouncedOnce /\ InFlightOnce /\ NothingUnannounced

LEMMA NoEventIsNone == NoEvent \notin Event
BY DEF NoEvent, Event, RoutingKeys

LEMMA InitEventInv == Init => EventInv
<1> SUFFICES ASSUME Init PROVE EventInv
  OBVIOUS
<1>1. payments = <<>> /\ Len(payments) = 0
  BY DEF Init
<1>2. TypeOK
  BY <1>1, PaymentConstants DEF Init, TypeOK
<1>3. AnnouncedOnce
  BY DEF Init, AnnouncedOnce
<1>4. InFlightOnce
  BY NoEventIsNone DEF Init, InFlightOnce
<1>5. NothingUnannounced
  BY <1>1 DEF NothingUnannounced, Reached
<1> QED
  BY <1>2, <1>3, <1>4, <1>5 DEF EventInv

(* Moving a payment on: no event of the new status was sent or on its way.  *)
LEMMA MoveEventInv ==
    ASSUME EventInv, NEW c \in Calls, NEW i \in DOMAIN payments, NEW from, NEW to, NEW key,
           <<from, to, key>> \in {<<"pending", "success", "payment.success">>,
                                  <<"success", "refunded", "payment.refunded">>},
           Move(c, i, from, to, key)
    PROVE  EventInv'
<1> DEFINE e == [key |-> key, payment |-> i]
<1> USE DEF EventInv, TypeOK
<1>1. i \in Ids /\ e \in Event /\ key \in RoutingKeys
  BY PaymentConstants DEF Ids, Event, RoutingKeys
<1>2. /\ payments' = [payments EXCEPT ![i].status = to]
      /\ publishing' = [publishing EXCEPT ![c] = e]
      /\ publishing[c] = NoEvent /\ payments[i].status = from
      /\ sent' = sent /\ lost' = lost /\ queues' = queues
  BY DEF Move
<1>3. /\ payments' \in Seq(Record) /\ Len(payments') = Len(payments)
      /\ DOMAIN payments' = DOMAIN payments
      /\ payments'[i].status = to
      /\ \A j \in DOMAIN payments \ {i} : payments'[j] = payments[j]
  <2>1. payments \in Seq(Record)
    BY DEF Record
  <2>6. i \in 1 .. Len(payments) /\ payments[i] \in Record
    BY <2>1
  <2>2. [payments[i] EXCEPT !.status = to] \in Record
    BY <2>6 DEF Record
  <2>3. payments' = [payments EXCEPT ![i] = [payments[i] EXCEPT !.status = to]]
    BY <1>2
  <2>4. payments' \in Seq(Record) /\ Len(payments') = Len(payments)
    BY <2>1, <2>2, <2>3
  <2>5. payments'[i].status = to
    BY <2>6, <2>3 DEF Record
  <2> QED
    BY <2>1, <2>6, <2>3, <2>4, <2>5
<1>4. ~Reached(e) /\ Reached(e)'
  BY <1>2, <1>3 DEF Reached
<1>5. \A f \in Event : Reached(f) => Reached(f)'
  BY <1>2, <1>3 DEF Reached, Event, RoutingKeys
<1>11. \A f \in Event \ {e} : Reached(f)' => Reached(f)
  BY <1>1, <1>2, <1>3 DEF Reached, Event, RoutingKeys
<1>6. sent[e] = 0 /\ e \notin lost /\ \A d \in Calls : publishing[d] # e
  BY <1>1, <1>4 DEF AnnouncedOnce, InFlightOnce
<1>7. TypeOK'
  BY <1>1, <1>2, <1>3 DEF Record
<1>8. ASSUME NEW f \in Event, sent[f] = 1 PROVE Reached(f)' /\ InFlight(f)' = {} /\ f \notin lost
  <2>1. Reached(f) /\ InFlight(f) = {} /\ f # e /\ f \notin lost
    BY <1>6, <1>8 DEF AnnouncedOnce
  <2> QED
    BY <1>2, <1>5, <2>1 DEF InFlight
<1>9. AnnouncedOnce'
  BY <1>2, <1>8 DEF AnnouncedOnce
<1>10. InFlightOnce'
  BY <1>1, <1>2, <1>4, <1>5, <1>6 DEF InFlightOnce
<1>12. c \in InFlight(e)' /\ \A f \in Event : InFlight(f) \subseteq InFlight(f)'
  BY <1>1, <1>2, NoEventIsNone DEF InFlight
<1>13. NothingUnannounced'
  BY <1>2, <1>11, <1>12 DEF NothingUnannounced
<1> QED
  BY <1>7, <1>9, <1>10, <1>13

LEMMA CountedOnce ==
    ASSUME NEW S, NEW f \in [S -> Nat], NEW x \in S, f[x] = 0,
           NEW g, g = [f EXCEPT ![x] = @ + 1]
    PROVE  g \in [S -> Nat] /\ g[x] = 1 /\ \A y \in S \ {x} : g[y] = f[y]
OBVIOUS

LEMMA NextEventInv == EventInv /\ [Next]_vars => EventInv'
<1> SUFFICES ASSUME EventInv, [Next]_vars PROVE EventInv'
  OBVIOUS
<1> USE DEF EventInv, TypeOK
<1>1. ASSUME NEW o \in Orders, CreatePayment(o) PROVE EventInv'
  <2>1. /\ payments' \in Seq(Record)
        /\ Len(payments') <= MaxPayments
        /\ \A j \in DOMAIN payments : j \in DOMAIN payments' /\ payments'[j] = payments[j]
    BY <1>1, PaymentConstants DEF CreatePayment, Record
  <2>2. publishing' = publishing /\ sent' = sent /\ lost' = lost /\ queues' = queues
    BY <1>1 DEF CreatePayment
  <2>3. \A f \in Event : Reached(f) => Reached(f)'
    BY <2>1 DEF Reached
  <2>7. \A f \in Event : Reached(f)' => Reached(f)
    BY <1>1 DEF CreatePayment, Reached
  <2>4. TypeOK'
    BY <2>1, <2>2 DEF Record
  <2>5. AnnouncedOnce'
    BY <2>2, <2>3 DEF AnnouncedOnce, InFlight
  <2>6. InFlightOnce'
    BY <2>2, <2>3 DEF InFlightOnce
  <2>8. NothingUnannounced'
    BY <2>2, <2>7 DEF NothingUnannounced, InFlight
  <2> QED
    BY <2>4, <2>5, <2>6, <2>8
<1>2. ASSUME NEW c \in Calls, NEW i \in DOMAIN payments,
             ProcessPayment(c, i) \/ RefundPayment(c, i)
      PROVE  EventInv'
  BY <1>2, MoveEventInv DEF ProcessPayment, RefundPayment
<1>3. ASSUME NEW c \in Calls, publishPaymentEvent(c) PROVE EventInv'
  <2>1. PICK e \in Event : e = publishing[c] /\ Reached(e) /\ sent[e] = 0 /\ e \notin lost
    BY <1>3 DEF publishPaymentEvent, InFlightOnce
  <2>2. /\ payments' = payments /\ lost' = lost
        /\ publishing' = [publishing EXCEPT ![c] = NoEvent]
        /\ sent' = [sent EXCEPT ![e] = @ + 1]
        /\ queues' = [q \in Queues |->
                        IF q \in Routed("", e.key) THEN Append(queues[q], e) ELSE queues[q]]
    BY <1>3, <2>1 DEF publishPaymentEvent
  <2>3. queues' \in [Queues -> Seq(Event)]
    <3> SUFFICES ASSUME NEW q \in Queues PROVE queues'[q] \in Seq(Event)
      BY <2>2
    <3>1. queues[q] \in Seq(Event) /\ Append(queues[q], e) \in Seq(Event)
      BY <2>1
    <3> QED
      BY <2>2, <3>1
  <2>4. TypeOK'
    <3>1. sent' \in [Event -> Nat]
      BY <2>1, <2>2, CountedOnce
    <3>2. publishing' \in [Calls -> Event \cup {NoEvent}]
      BY <2>2
    <3> QED
      BY <2>2, <2>3, <3>1, <3>2
  <2>5. \A f \in Event : Reached(f)' <=> Reached(f)
    BY <2>2 DEF Reached
  <2>6. \A d \in Calls \ {c} : publishing'[d] = publishing[d] /\ publishing[d] # e
    BY <2>1, <2>2 DEF InFlightOnce
  <2>7. publishing'[c] = NoEvent
    BY <2>2
  <2>8. sent'[e] = 1 /\ \A f \in Event \ {e} : sent'[f] = sent[f]
    <3>1. sent' = [sent EXCEPT ![e] = @ + 1] /\ sent \in [Event -> Nat] /\ sent[e] = 0
      BY <2>1, <2>2
    <3> QED
      BY <3>1, CountedOnce
  <2>9. ASSUME NEW f \in Event PROVE sent'[f] <= 1 /\ (sent'[f] = 1 => Reached(f)' /\ InFlight(f)' = {} /\ f \notin lost)
    <3>1. CASE f = e
      BY <2>1, <2>5, <2>6, <2>7, <2>8, <3>1, NoEventIsNone DEF InFlight
    <3>2. CASE f # e
      BY <2>5, <2>6, <2>7, <2>8, <3>2, NoEventIsNone DEF InFlight, AnnouncedOnce
    <3> QED
      BY <3>1, <3>2
  <2>10. AnnouncedOnce'
    BY <2>2, <2>9 DEF AnnouncedOnce
  <2>11. InFlightOnce'
    <3>1. ASSUME NEW d \in Calls, publishing'[d] \in Event
          PROVE  d # c /\ publishing'[d] = publishing[d] /\ publishing[d] # e
      BY <2>6, <2>7, <3>1, NoEventIsNone
    <3>2. ASSUME NEW d \in Calls, NEW f \in Event, publishing'[d] = f
          PROVE  Reached(f)' /\ sent'[f] = 0 /\ f \notin lost
      BY <2>5, <2>8, <3>1, <3>2 DEF InFlightOnce
    <3>3. \A f \in lost : Reached(f)'
      BY <2>5 DEF InFlightOnce
    <3>4. ASSUME NEW a \in Calls, NEW d \in Calls, publishing'[a] \in Event,
                 publishing'[a] = publishing'[d]
          PROVE  a = d
      BY <3>1, <3>4 DEF InFlightOnce
    <3> QED
      BY <2>2, <3>2, <3>3, <3>4 DEF InFlightOnce
  <2>12. \A f \in Event \ {e} : InFlight(f) \subseteq InFlight(f)'
    BY <2>1, <2>6 DEF InFlight
  <2>13. NothingUnannounced'
    BY <2>2, <2>5, <2>8, <2>12 DEF NothingUnannounced
  <2> QED
    BY <2>4, <2>10, <2>11, <2>13
<1>4. ASSUME NEW c \in Calls, LoseEvent(c) PROVE EventInv'
  <2>1. PICK e \in Event : e = publishing[c] /\ Reached(e) /\ sent[e] = 0
    BY <1>4 DEF LoseEvent, InFlightOnce
  <2>2. /\ payments' = payments /\ sent' = sent /\ queues' = queues
        /\ lost' = lost \cup {e}
        /\ publishing' = [publishing EXCEPT ![c] = NoEvent]
    BY <1>4, <2>1 DEF LoseEvent
  <2>3. /\ publishing' \in [Calls -> Event \cup {NoEvent}]
        /\ publishing'[c] = NoEvent
        /\ \A d \in Calls \ {c} : publishing'[d] = publishing[d] /\ publishing[d] # e
    BY <2>1, <2>2 DEF InFlightOnce
  <2>4. \A f \in Event : Reached(f)' <=> Reached(f)
    BY <2>2 DEF Reached
  <2>5. AnnouncedOnce'
    BY <2>1, <2>2, <2>3, <2>4, NoEventIsNone DEF AnnouncedOnce, InFlight
  <2>6. InFlightOnce'
    BY <2>1, <2>2, <2>3, <2>4, NoEventIsNone DEF InFlightOnce
  <2>7. \A f \in Event \ {e} : InFlight(f) \subseteq InFlight(f)'
    BY <2>1, <2>3 DEF InFlight
  <2>8. NothingUnannounced'
    BY <2>2, <2>4, <2>7 DEF NothingUnannounced
  <2> QED
    BY <2>2, <2>3, <2>5, <2>6, <2>8
<1>5. CASE UNCHANGED vars
  BY <1>5 DEF vars, AnnouncedOnce, InFlightOnce, NothingUnannounced, InFlight, Reached
<1> QED
  BY <1>1, <1>2, <1>3, <1>4, <1>5 DEF Next

\* A run of the payment service is what a run of the model does to its variables.
LEMMA PaymentsRun == AllSpec => Spec
<1>1. AllInit => Init
  BY DEF AllInit
<1>2. [AllNext]_allVars => [Next]_vars
  BY DEF AllNext, allVars, paymentVars, vars
<1> QED
  BY <1>1, <1>2, PTL DEF AllSpec, Spec

LEMMA PaymentsInvariant == AllSpec => []EventInv
BY InitEventInv, NextEventInv, PaymentsRun, PTL DEF Spec

(* However callers of ProcessPayment and RefundPayment race, fail or retry, *)
(* the success and the refund of a payment are each announced at most once, *)
(* and not before the row says so.                                          *)
THEOREM EventsAnnouncedOnce == AllSpec => []AnnouncedOnce
<1>1. EventInv => AnnouncedOnce
  BY DEF EventInv
<1> QED
  BY PaymentsInvariant, <1>1, PTL

(* Only a crash or the broker, after the commit, keeps an event back.       *)
THEOREM ChangesAnnounced == AllSpec => []NothingUnannounced
<1>1. EventInv => NothingUnannounced
  BY DEF EventInv
<1> QED
  BY PaymentsInvariant, <1>1, PTL

-----------------------------------------------------------------------------
(* The catalogue *)

\* A book that was never created has no copy; of a book whose changes neither
\* overlapped nor lost a write, one call at most is under way: what it will
\* index is what MongoDB has, and with none the index has it already.
Untouched == \A b \in Books \ created :
               Cat!Writing(b) = {} /\ books[b] = Absent /\ index[b] = Absent
OneWriter(b) ==
  /\ \A c, d \in Cat!Writing(b) : c = d
  /\ \A c \in Cat!Writing(b) :
       /\ Cat!At(c, "read") => books[b] # Absent
       /\ Cat!At(c, "index") => call[c].doc = books[b]
       /\ Cat!At(c, "unindex") => books[b] = Absent
  /\ Cat!Writing(b) = {} => index[b] = books[b]
Delivered == consumer # Cat!Idle => queue # <<>>

CatInv == /\ Cat!TypeOK /\ Delivered /\ Untouched /\ IsFiniteSet(created)
          /\ \A b \in Books \ astray : OneWriter(b)

Quiet == {"idle", "publish", "fetch", "answer", "upsert"}

LEMMA CallFields ==
  ASSUME Cat!TypeOK, NEW c \in Calls
  PROVE  /\ call[c] \in Cat!CallStates
         /\ call[c].at \in {"read", "unindex", "publish", "index"} => call[c].book \in Books
         /\ call[c].at = "index" => call[c].doc \in Cat!Change
         /\ call[c].at = "upsert" => call[c].docs \in Cat!Copies
         /\ call[c].at \in {"fetch", "answer"} => call[c].hits \in Seq(Books)
<1>1. call[c] \in Cat!CallStates
  BY DEF Cat!TypeOK
<1> QED
  BY <1>1 DEF Cat!CallStates

\* What a call becomes changes who is writing a book only by that call.
LEMMA WritersMove ==
  ASSUME Cat!TypeOK, NEW c \in Calls, NEW k \in Cat!CallStates, Cat!GoOn(c, k)
  PROVE  /\ call' \in [Calls -> Cat!CallStates]
         /\ call'[c] = k /\ \A d \in Calls \ {c} : call'[d] = call[d]
         /\ \A b : Cat!Writing(b)' =
              (Cat!Writing(b) \ {c}) \cup
              (IF k.at \in {"read", "index", "unindex"} /\ k.book = b THEN {c} ELSE {})
<1>1. call \in [Calls -> Cat!CallStates] /\ call' = [call EXCEPT ![c] = k]
  BY DEF Cat!TypeOK, Cat!GoOn
<1>2. call' \in [Calls -> Cat!CallStates] /\ call'[c] = k
      /\ \A d \in Calls \ {c} : call'[d] = call[d]
  BY <1>1
<1> QED
  BY <1>2 DEF Cat!Writing

\* A step that leaves the books alone and begins or ends no write of one.
LEMMA QuietStep ==
  ASSUME CatInv, NEW c \in Calls, NEW k \in Cat!CallStates, Cat!GoOn(c, k),
         call[c].at \in Quiet, k.at \in Quiet,
         UNCHANGED <<books, created, index, astray>>
  PROVE  /\ Untouched' /\ IsFiniteSet(created)' /\ \A b \in Books \ astray' : OneWriter(b)'
         /\ call' \in [Calls -> Cat!CallStates]
<1>1. /\ call' \in [Calls -> Cat!CallStates]
      /\ call'[c] = k /\ \A d \in Calls \ {c} : call'[d] = call[d]
      /\ \A b : Cat!Writing(b)' =
           (Cat!Writing(b) \ {c}) \cup
           (IF k.at \in {"read", "index", "unindex"} /\ k.book = b THEN {c} ELSE {})
  BY WritersMove DEF CatInv
<1>2. \A b : c \notin Cat!Writing(b) /\ Cat!Writing(b)' = Cat!Writing(b)
  BY <1>1 DEF Cat!Writing, Quiet
<1>3. Untouched' /\ IsFiniteSet(created)'
  BY <1>2 DEF CatInv, Untouched
<1>4. ASSUME NEW b \in Books \ astray
      PROVE  OneWriter(b)'
  <2>1. OneWriter(b) /\ books' = books /\ index' = index
    BY DEF CatInv
  <2>2. \A d \in Cat!Writing(b) : call'[d] = call[d]
    BY <1>1, <1>2 DEF Cat!Writing
  <2> QED
    BY <1>2, <2>1, <2>2 DEF OneWriter, Cat!At
<1> QED
  BY <1>1, <1>3, <1>4

\* The last write of a call: the book goes to the index, or its writer gives up
\* on it, and the book is then astray.
LEMMA WriteEnds ==
  ASSUME CatInv, NEW c \in Calls, NEW k \in Cat!CallStates, Cat!GoOn(c, k),
         call[c].at \in {"read", "index", "unindex"}, k.at \in Quiet,
         UNCHANGED <<books, created>>, NEW b0 \in Books, b0 = call[c].book,
         \/ b0 \in astray' /\ index' = index /\ astray' = astray \cup {b0}
         \/ index' = [index EXCEPT ![b0] = books[b0]] /\ astray' = astray
         \/ b0 \in astray /\ astray' = astray
            /\ \E d \in Cat!Change \cup {Absent} : index' = [index EXCEPT ![b0] = d]
  PROVE  /\ Untouched' /\ IsFiniteSet(created)' /\ \A b \in Books \ astray' : OneWriter(b)'
         /\ call' \in [Calls -> Cat!CallStates]
<1>1. /\ call' \in [Calls -> Cat!CallStates]
      /\ call'[c] = k /\ \A d \in Calls \ {c} : call'[d] = call[d]
      /\ \A b : Cat!Writing(b)' =
           (Cat!Writing(b) \ {c}) \cup
           (IF k.at \in {"read", "index", "unindex"} /\ k.book = b THEN {c} ELSE {})
  BY WritersMove DEF CatInv
<1>2. \A b : Cat!Writing(b)' = Cat!Writing(b) \ {c}
  BY <1>1 DEF Quiet
<1>3. c \in Cat!Writing(b0) /\ \A b : b # b0 => c \notin Cat!Writing(b)
  BY DEF Cat!Writing
<1>4. b0 \in created
  BY <1>3 DEF CatInv, Untouched
<1>5. index \in [Books -> Cat!Change \cup {Absent}]
  BY DEF CatInv, Cat!TypeOK, Cat!Copies
<1>6. \A b \in Books : b # b0 => index'[b] = index[b]
  BY <1>5
<1>7. Untouched' /\ IsFiniteSet(created)'
  BY <1>2, <1>4, <1>6 DEF CatInv, Untouched
<1>8. ASSUME NEW b \in Books \ astray'
      PROVE  OneWriter(b)'
  <2>1. OneWriter(b) /\ books' = books
    BY DEF CatInv
  <2>2. CASE b # b0
    <3>1. Cat!Writing(b)' = Cat!Writing(b) /\ index'[b] = index[b]
      BY <1>2, <1>3, <1>6, <2>2
    <3>2. \A d \in Cat!Writing(b) : call'[d] = call[d]
      BY <1>1, <1>3, <2>2 DEF Cat!Writing
    <3> QED
      BY <2>1, <3>1, <3>2 DEF OneWriter, Cat!At
  <2>3. CASE b = b0
    <3>1. Cat!Writing(b)' = {}
      BY <1>2, <1>3, <2>1, <2>3 DEF OneWriter
    <3>2. index'[b] = books[b]
      BY <1>5, <2>3
    <3> QED
      BY <2>1, <3>1, <3>2 DEF OneWriter
  <2> QED
    BY <2>2, <2>3
<1> QED
  BY <1>1, <1>7, <1>8

\* A change begins: MongoDB has it, and the call has still to tell the index.
LEMMA WriteBegins ==
  ASSUME CatInv, NEW c \in Calls, NEW k \in Cat!CallStates, Cat!GoOn(c, k), call[c].at \in Quiet,
         NEW b0 \in Books, k.at \in {"read", "index", "unindex"}, k.book = b0,
         NEW d, books' = [books EXCEPT ![b0] = d],
         k.at = "read" => d # Absent, k.at = "index" => k.doc = d, k.at = "unindex" => d = Absent,
         created' = created \cup {b0}, index' = index,
         astray' = IF Cat!Writing(b0) = {} THEN astray ELSE astray \cup {b0}
  PROVE  /\ Untouched' /\ IsFiniteSet(created)' /\ \A b \in Books \ astray' : OneWriter(b)'
         /\ call' \in [Calls -> Cat!CallStates]
<1>1. /\ call' \in [Calls -> Cat!CallStates]
      /\ call'[c] = k /\ \A e \in Calls \ {c} : call'[e] = call[e]
      /\ \A b : Cat!Writing(b)' =
           (Cat!Writing(b) \ {c}) \cup
           (IF k.at \in {"read", "index", "unindex"} /\ k.book = b THEN {c} ELSE {})
  BY WritersMove DEF CatInv
<1>2. \A b : c \notin Cat!Writing(b)
  BY DEF Cat!Writing, Quiet
<1>3. \A b : Cat!Writing(b)' = Cat!Writing(b) \cup (IF b = b0 THEN {c} ELSE {})
  BY <1>1, <1>2
<1>4. books \in [Books -> Cat!Change \cup {Absent}]
  BY DEF CatInv, Cat!TypeOK, Cat!Copies
<1>5. books'[b0] = d /\ \A b \in Books : b # b0 => books'[b] = books[b]
  BY <1>4
<1>6. Untouched'
  BY <1>3, <1>5 DEF CatInv, Untouched
<1>7. IsFiniteSet(created)'
  BY FS_AddElement DEF CatInv
<1>8. ASSUME NEW b \in Books \ astray'
      PROVE  OneWriter(b)'
  <2>1. OneWriter(b)
    BY DEF CatInv
  <2>2. CASE b # b0
    <3>1. Cat!Writing(b)' = Cat!Writing(b) /\ books'[b] = books[b]
      BY <1>3, <1>5, <2>2
    <3>2. \A e \in Cat!Writing(b) : call'[e] = call[e]
      BY <1>1, <1>2 DEF Cat!Writing
    <3> QED
      BY <2>1, <3>1, <3>2 DEF OneWriter, Cat!At
  <2>3. CASE b = b0
    <3>1. Cat!Writing(b)' = {c}
      BY <1>3, <2>3
    <3> QED
      BY <1>1, <1>5, <2>3, <3>1 DEF OneWriter, Cat!At
  <2> QED
    BY <2>2, <2>3
<1> QED
  BY <1>1, <1>6, <1>7, <1>8

\* A fault more is still within the bound.
LEMMA OneFault ==
  ASSUME Cat!TypeOK, Cat!Fault
  PROVE  faults' \in 0 .. MaxFaults
  BY CopyConstants DEF Cat!TypeOK, Cat!Fault

LEMMA BooksOfCall ==
  ASSUME Cat!TypeOK, NEW c \in Calls, NEW b \in Books, NEW d \in Cat!Change
  PROVE  /\ Cat!Idle \in Cat!CallStates
         /\ [at |-> "read", book |-> b] \in Cat!CallStates
         /\ [at |-> "unindex", book |-> b] \in Cat!CallStates
         /\ [at |-> "publish", book |-> b] \in Cat!CallStates
         /\ [at |-> "index", book |-> b, doc |-> d] \in Cat!CallStates
  BY DEF Cat!Idle, Cat!CallStates

LEMMA ChangesOfBooks ==
  ASSUME CatInv, NEW c \in Calls, NEW b \in Books,
         Cat!CreateBook(c, b) \/ Cat!UpdateBook(c, b) \/ Cat!DeleteBook(c, b)
  PROVE  CatInv'
<1>0. Cat!TypeOK /\ books \in [Books -> Cat!Change \cup {Absent}]
  BY DEF CatInv, Cat!TypeOK, Cat!Copies
<1>1. ASSUME change < MaxChange, change' = change + 1
      PROVE  change' \in Cat!Change /\ change' \in 0 .. MaxChange /\ change' # Absent
  BY <1>0, <1>1, CopyConstants DEF Cat!TypeOK, Cat!Change
<1>2. b \in created \/ Cat!Writing(b) = {}
  BY DEF CatInv, Untouched
<1>3. CASE Cat!CreateBook(c, b)
  <2>1. /\ call[c].at \in Quiet /\ b \notin created
        /\ change < MaxChange /\ change' = change + 1
        /\ created' = created \cup {b} /\ index' = index /\ astray' = astray
        /\ vectors' = vectors /\ queue' = queue /\ consumer' = consumer
        /\ faults' = faults /\ missed' = missed
    BY <1>3 DEF Cat!CreateBook, Cat!At, Quiet, Cat!notes
  <2>2. PICK d \in Cat!Change : d = change' /\ d # Absent /\ change' \in 0 .. MaxChange
    BY <1>1, <2>1
  <2>3. PICK k : k = [at |-> "index", book |-> b, doc |-> d]
    OBVIOUS
  <2>4. k \in Cat!CallStates /\ k.at = "index" /\ k.book = b /\ k.doc = d
    BY <1>0, <2>3, BooksOfCall
  <2>5. Cat!GoOn(c, k) /\ books' = [books EXCEPT ![b] = d]
    BY <1>3, <2>2, <2>3 DEF Cat!CreateBook, Cat!Copied
  <2>6. /\ Untouched' /\ IsFiniteSet(created)' /\ \A e \in Books \ astray' : OneWriter(e)'
        /\ call' \in [Calls -> Cat!CallStates]
    BY <1>2, <2>1, <2>4, <2>5, WriteBegins
  <2>7. books' \in Cat!Copies
    BY <1>0, <2>5 DEF Cat!Copies
  <2> QED
    BY <1>0, <2>1, <2>2, <2>6, <2>7 DEF CatInv, Cat!TypeOK, Delivered
<1>4. CASE Cat!UpdateBook(c, b)
  <2>1. /\ call[c].at \in Quiet /\ books[b] # Absent
        /\ change < MaxChange /\ change' = change + 1
        /\ created' = created /\ index' = index
        /\ astray' = IF Cat!Writing(b) = {} THEN astray ELSE astray \cup {b}
        /\ vectors' = vectors /\ queue' = queue /\ consumer' = consumer
        /\ faults' = faults /\ missed' = missed
    BY <1>4 DEF Cat!UpdateBook, Cat!At, Quiet, Cat!Overlapping
  <2>2. PICK d \in Cat!Change : d = change' /\ d # Absent /\ change' \in 0 .. MaxChange
    BY <1>1, <2>1
  <2>3. PICK k : k = [at |-> "read", book |-> b]
    OBVIOUS
  <2>4. k \in Cat!CallStates /\ k.at = "read" /\ k.book = b
    BY <1>0, <2>2, <2>3, BooksOfCall
  <2>5. Cat!GoOn(c, k) /\ books' = [books EXCEPT ![b] = d]
    BY <1>4, <2>2, <2>3 DEF Cat!UpdateBook, Cat!Copied
  <2>8. created' = created \cup {b}
    BY <2>1 DEF CatInv, Untouched
  <2>6. /\ Untouched' /\ IsFiniteSet(created)' /\ \A e \in Books \ astray' : OneWriter(e)'
        /\ call' \in [Calls -> Cat!CallStates]
    BY <2>1, <2>2, <2>4, <2>5, <2>8, WriteBegins
  <2>7. books' \in Cat!Copies /\ astray' \subseteq Books
    BY <1>0, <2>1, <2>5 DEF Cat!Copies, Cat!TypeOK
  <2> QED
    BY <1>0, <2>1, <2>2, <2>6, <2>7 DEF CatInv, Cat!TypeOK, Delivered
<1>5. CASE Cat!DeleteBook(c, b)
  <2>1. /\ call[c].at \in Quiet /\ books[b] # Absent /\ change' = change
        /\ created' = created /\ index' = index
        /\ astray' = IF Cat!Writing(b) = {} THEN astray ELSE astray \cup {b}
        /\ vectors' = vectors /\ queue' = queue /\ consumer' = consumer
        /\ faults' = faults /\ missed' = missed
    BY <1>5 DEF Cat!DeleteBook, Cat!At, Quiet, Cat!Overlapping
  <2>3. PICK k : k = [at |-> "unindex", book |-> b]
    OBVIOUS
  <2>4. k \in Cat!CallStates /\ k.at = "unindex" /\ k.book = b
    BY <2>3 DEF Cat!CallStates
  <2>5. Cat!GoOn(c, k) /\ books' = [books EXCEPT ![b] = Absent]
    BY <1>5, <2>3 DEF Cat!DeleteBook, Cat!Copied
  <2>8. created' = created \cup {b}
    BY <2>1 DEF CatInv, Untouched
  <2>6. /\ Untouched' /\ IsFiniteSet(created)' /\ \A e \in Books \ astray' : OneWriter(e)'
        /\ call' \in [Calls -> Cat!CallStates]
    BY <2>1, <2>4, <2>5, <2>8, WriteBegins
  <2>7. books' \in Cat!Copies /\ astray' \subseteq Books
    BY <1>0, <2>1, <2>5 DEF Cat!Copies, Cat!TypeOK
  <2> QED
    BY <1>0, <2>1, <2>6, <2>7 DEF CatInv, Cat!TypeOK, Delivered
<1> QED
  BY <1>3, <1>4, <1>5

\* What is read back is what will be indexed; what is indexed is what was read.
LEMMA IndexingKeeps ==
  ASSUME CatInv, NEW c \in Calls,
         \/ Cat!FindByID(c) \/ Cat!IndexBook(c) \/ Cat!IndexFails(c) \/ Cat!Unindex(c)
         \/ Cat!BookServiceFails(c)
  PROVE  CatInv'
<1>0. Cat!TypeOK /\ index \in [Books -> Cat!Change \cup {Absent}]
      /\ books \in [Books -> Cat!Change \cup {Absent}]
  BY DEF CatInv, Cat!TypeOK, Cat!Copies
<1>1. PICK b : b = call[c].book
  OBVIOUS
<1>2. /\ call[c].at \in {"read", "unindex", "publish", "index"} => b \in Books
      /\ call[c].at = "index" => call[c].doc \in Cat!Change
  BY <1>0, <1>1, CallFields
<1>3. Cat!Idle \in Cat!CallStates /\ Cat!Idle.at \in Quiet
  BY DEF Cat!Idle, Cat!CallStates, Quiet
<1>4. CASE Cat!FindByID(c)
  <2>1. /\ call[c].at = "read" /\ books' = books /\ created' = created /\ change' = change
        /\ index' = index /\ vectors' = vectors /\ queue' = queue /\ consumer' = consumer
        /\ faults' = faults /\ astray' = astray /\ missed' = missed
    BY <1>4 DEF Cat!FindByID, Cat!At, Cat!mongo, Cat!notes
  <2>2. b \in Books
    BY <1>2, <2>1
  <2>3. CASE books[b] = Absent
    <3>1. Cat!GoOn(c, Cat!Idle)
      BY <1>1, <1>4, <2>3 DEF Cat!FindByID, Cat!Return
    <3>2. b \in astray
      BY <1>1, <2>1, <2>2, <2>3 DEF CatInv, OneWriter, Cat!Writing, Cat!At
    <3>3. index' = [index EXCEPT ![b] = index[b]] /\ index[b] \in Cat!Change \cup {Absent}
      BY <1>0, <2>1, <2>2
    <3>4. /\ Untouched' /\ IsFiniteSet(created)' /\ \A e \in Books \ astray' : OneWriter(e)'
          /\ call' \in [Calls -> Cat!CallStates]
      BY <1>1, <1>3, <2>1, <2>2, <3>1, <3>2, <3>3, WriteEnds
    <3> QED
      BY <1>0, <2>1, <3>4 DEF CatInv, Cat!TypeOK, Delivered
  <2>4. CASE books[b] # Absent
    <3>1. PICK d \in Cat!Change : d = books[b]
      BY <1>0, <2>2, <2>4
    <3>2. PICK k : k = [at |-> "index", book |-> b, doc |-> d]
      OBVIOUS
    <3>3. k \in Cat!CallStates /\ k.at = "index" /\ k.book = b /\ k.doc = d
      BY <1>0, <2>2, <3>2, BooksOfCall
    <3>4. Cat!GoOn(c, k)
      BY <1>1, <1>4, <2>4, <3>1, <3>2 DEF Cat!FindByID, Cat!IndexedDoc
    <3>5. /\ call' \in [Calls -> Cat!CallStates]
          /\ call'[c] = k /\ \A e \in Calls \ {c} : call'[e] = call[e]
          /\ \A e : Cat!Writing(e)' = (Cat!Writing(e) \ {c}) \cup
               (IF k.at \in {"read", "index", "unindex"} /\ k.book = e THEN {c} ELSE {})
      BY <1>0, <3>3, <3>4, WritersMove
    <3>6. \A e : c \in Cat!Writing(e) <=> e = b
      BY <1>1, <2>1 DEF Cat!Writing
    <3>7. \A e : Cat!Writing(e)' = Cat!Writing(e)
      BY <3>3, <3>5, <3>6
    <3>8. ASSUME NEW e \in Books \ astray
          PROVE  OneWriter(e)'
      <4>1. OneWriter(e)
        BY DEF CatInv
      <4>2. CASE e # b
        <5>1. \A f \in Cat!Writing(e) : call'[f] = call[f]
          BY <3>5, <3>6, <4>2 DEF Cat!Writing
        <5> QED
          BY <2>1, <3>7, <4>1, <5>1 DEF OneWriter, Cat!At
      <4>3. CASE e = b
        <5>1. Cat!Writing(e) = {c}
          BY <3>6, <4>1, <4>3 DEF OneWriter
        <5> QED
          BY <2>1, <3>1, <3>3, <3>5, <3>7, <4>3, <5>1 DEF OneWriter, Cat!At
      <4> QED
        BY <4>2, <4>3
    <3>9. Untouched'
      BY <2>1, <3>7 DEF CatInv, Untouched
    <3> QED
      BY <1>0, <2>1, <3>5, <3>8, <3>9 DEF CatInv, Cat!TypeOK, Delivered
  <2> QED
    BY <2>3, <2>4
<1>5. CASE Cat!IndexBook(c) \/ Cat!IndexFails(c)
  <2>1. /\ call[c].at = "index" /\ books' = books /\ created' = created /\ change' = change
        /\ vectors' = vectors /\ queue' = queue /\ consumer' = consumer /\ missed' = missed
        /\ Cat!GoOn(c, [at |-> "publish", book |-> b])
        /\ \/ /\ index' = [index EXCEPT ![b] = call[c].doc] /\ astray' = astray
              /\ faults' = faults
           \/ index' = index /\ astray' = astray \cup {b} /\ Cat!Fault
    BY <1>1, <1>5 DEF Cat!IndexBook, Cat!IndexFails, Cat!At, Cat!mongo, Cat!notes, Cat!Copied
  <2>2. b \in Books /\ call[c].doc \in Cat!Change
    BY <1>2, <2>1
  <2>3. PICK k \in Cat!CallStates : k = [at |-> "publish", book |-> b] /\ k.at \in Quiet
    BY <1>0, <2>2, BooksOfCall DEF Quiet
  <2>4. b \notin astray => call[c].doc = books[b]
    BY <1>1, <2>1, <2>2 DEF CatInv, OneWriter, Cat!Writing, Cat!At
  <2>5. /\ Untouched' /\ IsFiniteSet(created)' /\ \A e \in Books \ astray' : OneWriter(e)'
        /\ call' \in [Calls -> Cat!CallStates]
    <3>1. Cat!GoOn(c, k)
      BY <2>1, <2>3
    <3>2. \/ b \in astray' /\ index' = index /\ astray' = astray \cup {b}
          \/ index' = [index EXCEPT ![b] = books[b]] /\ astray' = astray
          \/ b \in astray /\ astray' = astray
             /\ \E d \in Cat!Change \cup {Absent} : index' = [index EXCEPT ![b] = d]
      BY <2>1, <2>2, <2>4
    <3> QED
      BY <1>1, <2>1, <2>2, <2>3, <3>1, <3>2, WriteEnds
  <2>6. index' \in Cat!Copies
    BY <1>0, <2>1, <2>2 DEF Cat!Copies
  <2>7. astray' \subseteq Books /\ faults' \in 0 .. MaxFaults
    BY <1>0, <2>1, <2>2, OneFault DEF Cat!TypeOK
  <2> QED
    BY <1>0, <2>1, <2>5, <2>6, <2>7 DEF CatInv, Cat!TypeOK, Delivered
<1>6. CASE Cat!Unindex(c)
  <2>1. /\ call[c].at = "unindex" /\ books' = books /\ created' = created /\ change' = change
        /\ vectors' = vectors /\ queue' = queue /\ consumer' = consumer /\ missed' = missed
        /\ Cat!GoOn(c, Cat!Idle) /\ index' = [index EXCEPT ![b] = Absent] /\ astray' = astray
        /\ faults' = faults
    BY <1>1, <1>6 DEF Cat!Unindex, Cat!At, Cat!mongo, Cat!notes, Cat!Copied, Cat!Return
  <2>2. b \in Books
    BY <1>2, <2>1
  <2>4. b \notin astray => books[b] = Absent
    BY <1>1, <2>1, <2>2 DEF CatInv, OneWriter, Cat!Writing, Cat!At
  <2>5. /\ Untouched' /\ IsFiniteSet(created)' /\ \A e \in Books \ astray' : OneWriter(e)'
        /\ call' \in [Calls -> Cat!CallStates]
    <3>2. \/ index' = [index EXCEPT ![b] = books[b]] /\ astray' = astray
          \/ b \in astray /\ astray' = astray
             /\ \E d \in Cat!Change \cup {Absent} : index' = [index EXCEPT ![b] = d]
      BY <2>1, <2>2, <2>4
    <3> QED
      BY <1>1, <1>3, <2>1, <2>2, <3>2, WriteEnds
  <2>6. index' \in Cat!Copies
    BY <1>0, <2>1, <2>2 DEF Cat!Copies
  <2> QED
    BY <1>0, <2>1, <2>5, <2>6 DEF CatInv, Cat!TypeOK, Delivered
<1>7. CASE Cat!BookServiceFails(c)
  <2>1. /\ call[c].at \in {"read", "index", "unindex", "publish"} /\ Cat!Fault
        /\ books' = books /\ created' = created /\ change' = change
        /\ vectors' = vectors /\ queue' = queue /\ consumer' = consumer /\ index' = index
        /\ Cat!GoOn(c, Cat!Idle)
        /\ astray' = IF call[c].at = "publish" THEN astray ELSE astray \cup {b}
        /\ missed' = IF call[c].at = "unindex" THEN missed ELSE missed \cup {b}
    BY <1>1, <1>7 DEF Cat!BookServiceFails, Cat!At, Cat!mongo, Cat!Return
  <2>2. b \in Books
    BY <1>2, <2>1
  <2>3. /\ Untouched' /\ IsFiniteSet(created)' /\ \A e \in Books \ astray' : OneWriter(e)'
        /\ call' \in [Calls -> Cat!CallStates]
    <3>1. CASE call[c].at = "publish"
      BY <1>3, <2>1, <3>1, QuietStep DEF Quiet
    <3>2. CASE call[c].at # "publish"
      BY <1>1, <1>3, <2>1, <2>2, <3>2, WriteEnds
    <3> QED
      BY <3>1, <3>2
  <2>4. astray' \subseteq Books /\ missed' \subseteq Books /\ faults' \in 0 .. MaxFaults
    BY <1>0, <2>1, <2>2, OneFault DEF Cat!TypeOK
  <2> QED
    BY <1>0, <2>1, <2>3, <2>4 DEF CatInv, Cat!TypeOK, Delivered
<1> QED
  BY <1>4, <1>5, <1>6, <1>7

\* Only books that were created are in the index: a search finds finitely many.
LEMMA Findings ==
  ASSUME CatInv, NEW s \in SUBSET Cat!Indexed, NEW hits \in Cat!SetToSeqs(s)
  PROVE  hits \in Seq(Books)
<1>1. Cat!Indexed \subseteq created
  BY DEF CatInv, Untouched, Cat!Indexed
<1>2. IsFiniteSet(s) /\ s \subseteq Books
  BY <1>1, FS_Subset DEF CatInv, Cat!Indexed
<1>3. Cat!Cardinality(s) = Cardinality(s)
  BY DEF Cat!Cardinality, Cardinality, Cat!IsFiniteSet, IsFiniteSet
<1>4. PICK n \in Nat : n = Cat!Cardinality(s)
  BY <1>2, <1>3, FS_CardinalityType
<1>5. hits \in [1 .. n -> s]
  BY <1>4 DEF Cat!SetToSeqs
<1>6. hits \in [1 .. n -> Books]
  BY <1>2, <1>5
<1> QED
  BY <1>6

\* Events, searches and the vectors have no part in a change.
LEMMA ElsewhereKeeps ==
  ASSUME CatInv, NEW c \in Calls,
         \/ Cat!Publish(c) \/ Cat!PublishFails(c)
         \/ Cat!SearchBooks(c) \/ Cat!FindByIDs(c) \/ Cat!Answer(c)
         \/ \E force \in BOOLEAN : Cat!ReadPage(c, force)
         \/ \E b \in Books : Cat!FindSimilarBooks(c, b)
         \/ Cat!Upsert(c) \/ Cat!UpsertFails(c)
  PROVE  CatInv'
<1>0. /\ Cat!TypeOK /\ books \in [Books -> Cat!Change \cup {Absent}]
      /\ vectors \in [Books -> Cat!Change \cup {Absent}] /\ queue \in Seq(Books)
      /\ missed \subseteq Books /\ faults \in 0 .. MaxFaults
  BY DEF CatInv, Cat!TypeOK, Cat!Copies
<1>1. UNCHANGED <<books, created, change, index, astray, consumer>>
  BY DEF Cat!Publish, Cat!PublishFails, Cat!SearchBooks, Cat!FindByIDs, Cat!Answer, Cat!ReadPage,
         Cat!FindSimilarBooks, Cat!Upsert, Cat!UpsertFails, Cat!mongo, Cat!notes
<1>2. call[c].at \in Quiet
  BY DEF Cat!Publish, Cat!PublishFails, Cat!SearchBooks, Cat!FindByIDs, Cat!Answer, Cat!ReadPage,
         Cat!FindSimilarBooks, Cat!Upsert, Cat!UpsertFails, Cat!At, Quiet
<1>3. Cat!Idle \in Cat!CallStates /\ Cat!Idle.at \in Quiet
  BY DEF Cat!Idle, Cat!CallStates, Quiet
<1>4. SUFFICES /\ \E k \in Cat!CallStates : k.at \in Quiet /\ Cat!GoOn(c, k)
               /\ vectors' \in Cat!Copies /\ queue' \in Seq(Books)
               /\ consumer # Cat!Idle => queue' # <<>>
               /\ missed' \subseteq Books /\ faults' \in 0 .. MaxFaults
  <2>1. PICK k \in Cat!CallStates : k.at \in Quiet /\ Cat!GoOn(c, k)
    BY <1>4
  <2>2. /\ Untouched' /\ IsFiniteSet(created)' /\ \A b \in Books \ astray' : OneWriter(b)'
        /\ call' \in [Calls -> Cat!CallStates]
    BY <1>1, <1>2, <2>1, QuietStep
  <2> QED
    BY <1>0, <1>1, <1>4, <2>2 DEF CatInv, Cat!TypeOK, Delivered
<1>5. consumer # Cat!Idle => queue # <<>>
  BY DEF CatInv, Delivered
<1>6. vectors \in Cat!Copies
  BY <1>0 DEF Cat!TypeOK
<1>7. CASE Cat!Publish(c)
  <2>1. PICK b \in Books : queue' = Append(queue, b)
    BY <1>0, <1>7, CallFields DEF Cat!Publish, Cat!At
  <2>2. queue' \in Seq(Books) /\ queue' # <<>>
    BY <1>0, <2>1
  <2> QED
    BY <1>0, <1>3, <1>6, <1>7, <2>2 DEF Cat!Publish, Cat!Return, Cat!notes
<1>8. CASE Cat!PublishFails(c)
  <2>1. call[c].book \in Books /\ faults' \in 0 .. MaxFaults
    BY <1>0, <1>8, CallFields, OneFault DEF Cat!PublishFails, Cat!At
  <2> QED
    BY <1>0, <1>3, <1>5, <1>6, <1>8, <2>1 DEF Cat!PublishFails, Cat!Return
<1>9. CASE Cat!SearchBooks(c)
  <2>4. PICK s \in SUBSET Cat!Indexed :
          \E hits \in Cat!SetToSeqs(s) : Cat!GoOn(c, [at |-> "fetch", hits |-> hits])
    BY <1>9 DEF Cat!SearchBooks
  <2>1. PICK hits \in Cat!SetToSeqs(s) : Cat!GoOn(c, [at |-> "fetch", hits |-> hits])
    BY <2>4
  <2>2. hits \in Seq(Books)
    BY Findings
  <2>3. [at |-> "fetch", hits |-> hits] \in Cat!CallStates
        /\ [at |-> "fetch", hits |-> hits].at \in Quiet
    BY <2>2 DEF Cat!CallStates, Quiet
  <2> QED
    BY <1>0, <1>5, <1>6, <1>9, <2>1, <2>3 DEF Cat!SearchBooks, Cat!notes
<1>10. CASE Cat!FindByIDs(c)
  <2>1. PICK hits \in Seq(Books) : hits = call[c].hits
    BY <1>0, <1>10, CallFields DEF Cat!FindByIDs, Cat!At
  <2>2. PICK found : found = {b \in Cat!ToSet(hits) : books[b] # Absent}
    OBVIOUS
  <2>3. found \in SUBSET Books
    BY <2>1, <2>2 DEF Cat!ToSet
  <2>4. PICK k : k = [at |-> "answer", hits |-> hits, found |-> found]
    OBVIOUS
  <2>5. k \in Cat!CallStates /\ k.at \in Quiet
    BY <2>1, <2>3, <2>4 DEF Cat!CallStates, Quiet
  <2>6. Cat!GoOn(c, k)
    BY <1>10, <2>1, <2>2, <2>4 DEF Cat!FindByIDs
  <2> QED
    BY <1>0, <1>5, <1>6, <1>10, <2>5, <2>6 DEF Cat!FindByIDs, Cat!notes
<1>11. CASE Cat!Answer(c) \/ Cat!UpsertFails(c)
  BY <1>0, <1>3, <1>5, <1>6, <1>11 DEF Cat!Answer, Cat!UpsertFails, Cat!Return, Cat!notes
<1>12. ASSUME NEW docs, docs \in Cat!Copies, Cat!GoOn(c, [at |-> "upsert", docs |-> docs])
       PROVE  \E k \in Cat!CallStates : k.at \in Quiet /\ Cat!GoOn(c, k)
  <2>1. [at |-> "upsert", docs |-> docs] \in Cat!CallStates
        /\ [at |-> "upsert", docs |-> docs].at \in Quiet
    BY <1>12 DEF Cat!CallStates, Quiet
  <2> QED
    BY <1>12, <2>1
<1>13. ASSUME NEW force \in BOOLEAN, Cat!ReadPage(c, force)
       PROVE  /\ \E k \in Cat!CallStates : k.at \in Quiet /\ Cat!GoOn(c, k)
              /\ UNCHANGED <<vectors, queue, missed, faults>>
  <2>1. PICK docs : docs = [b \in Books |-> IF force \/ vectors[b] = Absent
                                            THEN books[b] ELSE Absent]
    OBVIOUS
  <2>2. docs \in Cat!Copies
    BY <1>0, <2>1 DEF Cat!Copies
  <2>3. Cat!GoOn(c, [at |-> "upsert", docs |-> docs])
    BY <1>13, <2>1 DEF Cat!ReadPage
  <2> QED
    BY <1>12, <1>13, <2>2, <2>3 DEF Cat!ReadPage, Cat!notes
<1>14. ASSUME NEW b \in Books, Cat!FindSimilarBooks(c, b)
       PROVE  /\ \E k \in Cat!CallStates : k.at \in Quiet /\ Cat!GoOn(c, k)
              /\ UNCHANGED <<vectors, queue, missed, faults>>
  <2>1. PICK docs : docs = [d \in Books |-> IF d = b THEN books[b] ELSE Absent]
    OBVIOUS
  <2>2. docs \in Cat!Copies
    BY <1>0, <2>1 DEF Cat!Copies
  <2>3. Cat!GoOn(c, [at |-> "upsert", docs |-> docs])
    BY <1>14, <2>1 DEF Cat!FindSimilarBooks
  <2> QED
    BY <1>12, <1>14, <2>2, <2>3 DEF Cat!FindSimilarBooks, Cat!notes
<1>15. CASE Cat!Upsert(c)
  <2>1. PICK docs \in Cat!Copies : docs = call[c].docs
    BY <1>0, <1>15, CallFields DEF Cat!Upsert, Cat!At
  <2>2. /\ vectors' = [b \in Books |-> IF docs[b] = Absent THEN vectors[b] ELSE docs[b]]
        /\ missed' = missed \cup {b \in Books : docs[b] # Absent /\ vectors[b] # Absent
                                                /\ docs[b] < vectors[b]}
        /\ Cat!GoOn(c, Cat!Idle) /\ queue' = queue /\ faults' = faults
    BY <1>15, <2>1 DEF Cat!Upsert, Cat!Return
  <2>3. vectors' \in Cat!Copies
    BY <1>0, <2>1, <2>2 DEF Cat!Copies
  <2>4. missed' \subseteq Books
    BY <1>0, <2>2
  <2> QED
    BY <1>0, <1>3, <1>5, <2>2, <2>3, <2>4
<1> QED
  BY <1>0, <1>5, <1>6, <1>7, <1>8, <1>9, <1>10, <1>11, <1>13, <1>14, <1>15

\* The consumer has the event at the head of its queue while it embeds the book.
LEMMA ConsumerKeeps ==
  ASSUME CatInv,
         Cat!ReceiveEvent \/ Cat!EmbedBook \/ Cat!EmbedFails \/ Cat!ConsumerStops
  PROVE  CatInv'
<1>0. /\ Cat!TypeOK /\ books \in [Books -> Cat!Change \cup {Absent}]
      /\ vectors \in [Books -> Cat!Change \cup {Absent}] /\ queue \in Seq(Books)
      /\ missed \subseteq Books /\ faults \in 0 .. MaxFaults
      /\ consumer \in {Cat!Idle} \cup [at : {"embed"}, doc : Cat!Change]
  BY DEF CatInv, Cat!TypeOK, Cat!Copies
<1>1. UNCHANGED <<books, created, change, index, astray, call>>
  BY DEF Cat!ReceiveEvent, Cat!EmbedBook, Cat!EmbedFails, Cat!ConsumerStops, Cat!mongo, Cat!notes
<1>2. Untouched' /\ IsFiniteSet(created)' /\ \A b \in Books \ astray' : OneWriter(b)'
  BY <1>1 DEF CatInv, Untouched, OneWriter, Cat!Writing, Cat!At
<1>3. SUFFICES /\ vectors' \in Cat!Copies /\ queue' \in Seq(Books)
               /\ consumer' \in {Cat!Idle} \cup [at : {"embed"}, doc : Cat!Change]
               /\ consumer' # Cat!Idle => queue' # <<>>
               /\ missed' \subseteq Books /\ faults' \in 0 .. MaxFaults
  BY <1>0, <1>1, <1>2, <1>3 DEF CatInv, Cat!TypeOK, Delivered
<1>4. vectors \in Cat!Copies
  BY <1>0 DEF Cat!TypeOK
<1>5. queue # <<>>
  BY DEF CatInv, Delivered, Cat!ReceiveEvent, Cat!EmbedBook, Cat!EmbedFails, Cat!ConsumerStops
<1>6. Head(queue) \in Books /\ Tail(queue) \in Seq(Books)
  BY <1>0, <1>5
<1>7. CASE Cat!ReceiveEvent
  <2>1. CASE books[Head(queue)] = Absent
    <3>1. queue' = Tail(queue) /\ consumer' = consumer /\ consumer = Cat!Idle
          /\ vectors' = vectors /\ missed' = missed /\ faults' = faults
      BY <1>7, <2>1 DEF Cat!ReceiveEvent, Cat!notes
    <3> QED
      BY <1>0, <1>4, <1>6, <3>1
  <2>2. CASE books[Head(queue)] # Absent
    <3>1. consumer' = [at |-> "embed", doc |-> books[Head(queue)]] /\ queue' = queue
          /\ vectors' = vectors /\ missed' = missed /\ faults' = faults
      BY <1>7, <2>2 DEF Cat!ReceiveEvent, Cat!notes
    <3>2. books[Head(queue)] \in Cat!Change
      BY <1>0, <1>6, <2>2
    <3> QED
      BY <1>0, <1>4, <1>5, <3>1, <3>2
  <2> QED
    BY <2>1, <2>2
<1>8. CASE Cat!EmbedBook
  <2>1. /\ vectors' = [vectors EXCEPT ![Head(queue)] = consumer.doc] /\ queue' = Tail(queue)
        /\ consumer' = Cat!Idle /\ consumer # Cat!Idle /\ missed' = missed /\ faults' = faults
    BY <1>8 DEF Cat!EmbedBook, Cat!Copied, Cat!notes
  <2>2. consumer.doc \in Cat!Change
    BY <1>0, <2>1
  <2>3. vectors' \in Cat!Copies
    BY <1>0, <1>6, <2>1, <2>2 DEF Cat!Copies
  <2> QED
    BY <1>0, <1>6, <2>1, <2>3
<1>9. CASE Cat!EmbedFails
  <2>1. faults' \in 0 .. MaxFaults
    BY <1>0, <1>9, OneFault DEF Cat!EmbedFails
  <2> QED
    BY <1>0, <1>4, <1>6, <1>9, <2>1 DEF Cat!EmbedFails
<1>10. CASE Cat!ConsumerStops
  <2>1. faults' \in 0 .. MaxFaults
    BY <1>0, <1>10, OneFault DEF Cat!ConsumerStops
  <2> QED
    BY <1>0, <1>4, <1>10, <2>1 DEF Cat!ConsumerStops, Cat!notes
<1> QED
  BY <1>7, <1>8, <1>9, <1>10

LEMMA CatalogueInvariant == AllSpec => []CatInv
<1>1. AllInit => CatInv
  <2> SUFFICES ASSUME Cat!Init
               PROVE  CatInv
    BY DEF AllInit
  <2>1. /\ books = [b \in Books |-> Absent] /\ index = books /\ vectors = books
        /\ queue = <<>> /\ consumer = Cat!Idle /\ call = [c \in Calls |-> Cat!Idle]
        /\ created = {} /\ change = 0 /\ faults = 0 /\ astray = {} /\ missed = {}
    BY DEF Cat!Init
  <2>2. Cat!Idle \in Cat!CallStates
    BY DEF Cat!Idle, Cat!CallStates
  <2>3. Cat!TypeOK
    BY <2>1, <2>2, CopyConstants DEF Cat!TypeOK, Cat!Copies
  <2>4. \A b : Cat!Writing(b) = {}
    BY <2>1 DEF Cat!Writing, Cat!Idle
  <2>5. IsFiniteSet(created)
    BY <2>1, FS_EmptySet
  <2> QED
    BY <2>1, <2>3, <2>4, <2>5 DEF CatInv, Delivered, Untouched, OneWriter
<1>2. CatInv /\ [AllNext]_allVars => CatInv'
  <2> SUFFICES ASSUME CatInv, [AllNext]_allVars
               PROVE  CatInv'
    OBVIOUS
  <2>1. Cat!Next \/ UNCHANGED catalogueVars
    BY DEF AllNext, allVars
  <2>2. CASE UNCHANGED catalogueVars
    BY <2>2 DEF catalogueVars, CatInv, Cat!TypeOK, Delivered, Untouched, OneWriter, Cat!Writing,
                Cat!At
  <2>3. CASE Cat!Next
    BY <2>3, ChangesOfBooks, IndexingKeeps, ElsewhereKeeps, ConsumerKeeps DEF Cat!Next
  <2> QED
    BY <2>1, <2>2, <2>3
<1> QED
  BY <1>1, <1>2, PTL DEF AllSpec

\* The search index shows a book as MongoDB has it whenever nobody is changing
\* it, unless two of its changes overlapped or one failed half-way.
THEOREM IndexFollowsBooks == AllSpec => []IndexFollows
<1>1. CatInv => IndexFollows
  BY DEF CatInv, OneWriter, IndexFollows, Cat!IndexFollows
<1> QED
  BY <1>1, CatalogueInvariant, PTL


(* The chat stream *)

IsDelta(chunk) == chunk.type = "delta"
Has(s, n) == \E i \in DOMAIN s : s[i] = Chat!Delta(n)
Rising(s) == \A i, j \in DOMAIN s : i < j /\ IsDelta(s[i]) /\ IsDelta(s[j]) => s[i].part < s[j].part

\* The pieces are in order, first those received and then those on the wire.
InOrder ==
  /\ Rising(seen) /\ Rising(wire)
  /\ \A i \in DOMAIN seen, j \in DOMAIN wire :
       IsDelta(seen[i]) /\ IsDelta(wire[j]) => seen[i].part < wire[j].part
  /\ \A i \in DOMAIN seen : IsDelta(seen[i]) => seen[i].part <= reply
  /\ \A i \in DOMAIN wire : IsDelta(wire[i]) => wire[i].part <= reply

\* Nothing is saved before its stage, and everything or nothing after it.
SavedOrNot == saved = reply \/ saveFailed
SavedInTime ==
  /\ stage \in {"start", "agent"} => reply = 0
  /\ stage \notin {"done", "returned"} => saved = 0
  /\ stage = "done" => SavedOrNot
  /\ stream = "ended" => stage = "returned"

\* As long as the stream is open every piece is on its way, and nobody has said
\* done; who says it has said all, and has saved it; who hears it has heard all.
AllSent == \A n \in 1 .. reply : Has(seen, n) \/ Has(wire, n)
OpenStream ==
  stream = "open" =>
    /\ relaying /\ ~gone /\ AllSent
    /\ ~Chat!Received(Chat!Done) /\ \A i \in DOMAIN wire : wire[i] # Chat!Done
DoneLast ==
  \A i \in DOMAIN wire : wire[i] = Chat!Done =>
    i = Len(wire) /\ stage = "returned" /\ SavedOrNot /\ (gone \/ AllSent)
Told ==
  Chat!Received(Chat!Done) /\ ~Chat!Received(Chat!Error) =>
    ~relaying /\ stage = "returned" /\ SavedOrNot /\ \A n \in 1 .. reply : Has(seen, n)

ChatInv == Chat!TypeOK /\ InOrder /\ SavedInTime /\ OpenStream /\ DoneLast /\ Told

\* The chunks that are told apart.
LEMMA Chunks ==
  /\ Chat!Done \in Chat!Chunk /\ Chat!Error \in Chat!Chunk /\ Chat!Unavailable \in Chat!Chunk
  /\ ~IsDelta(Chat!Done) /\ ~IsDelta(Chat!Error) /\ ~IsDelta(Chat!Unavailable)
  /\ Chat!Error # Chat!Done /\ Chat!Unavailable # Chat!Done
  /\ \A n : IsDelta(Chat!Delta(n)) /\ Chat!Delta(n).part = n /\ Chat!Delta(n) # Chat!Done
            /\ Chat!Delta(n) # Chat!Error
  /\ \A n \in 1 .. MaxParts : Chat!Delta(n) \in Chat!Chunk
  /\ \A a \in {"session", "confirmation", "suggestions"} :
       /\ Chat!Metadata(a) \in Chat!Chunk /\ ~IsDelta(Chat!Metadata(a))
       /\ Chat!Metadata(a) # Chat!Done /\ Chat!Metadata(a) # Chat!Error
<1>1. /\ Chat!Done.type = "done" /\ Chat!Error.type = "error" /\ Chat!Unavailable.type = "answer"
      /\ \A n : Chat!Delta(n).type = "delta" /\ Chat!Delta(n).part = n
      /\ \A a : Chat!Metadata(a).type = "metadata"
  BY DEF Chat!Done, Chat!Error, Chat!Unavailable, Chat!Delta, Chat!Metadata
<1>2. /\ Chat!Done \in Chat!Chunk /\ Chat!Error \in Chat!Chunk /\ Chat!Unavailable \in Chat!Chunk
      /\ \A n \in 1 .. MaxParts : Chat!Delta(n) \in Chat!Chunk
      /\ \A a \in {"session", "confirmation", "suggestions"} : Chat!Metadata(a) \in Chat!Chunk
  BY DEF Chat!Done, Chat!Error, Chat!Unavailable, Chat!Delta, Chat!Metadata, Chat!Chunk
<1> QED
  BY <1>1, <1>2 DEF IsDelta

\* What stands where when chunks follow others.
LEMMA Lengthened ==
  ASSUME NEW s \in Seq(Chat!Chunk), NEW t \in Seq(Chat!Chunk)
  PROVE  /\ s \o t \in Seq(Chat!Chunk) /\ Len(s \o t) = Len(s) + Len(t)
         /\ \A i \in DOMAIN s : i \in DOMAIN (s \o t) /\ (s \o t)[i] = s[i] /\ i <= Len(s)
         /\ \A i \in DOMAIN t : Len(s) + i \in DOMAIN (s \o t) /\ (s \o t)[Len(s) + i] = t[i]
         /\ \A i \in DOMAIN (s \o t) :
              \/ i \in DOMAIN s /\ (s \o t)[i] = s[i]
              \/ /\ i - Len(s) \in DOMAIN t /\ (s \o t)[i] = t[i - Len(s)]
                 /\ i > Len(s) /\ i = Len(s) + (i - Len(s))
  OBVIOUS

\* A step of the service whose stream is cut reaches nobody.
LEMMA CutStep ==
  ASSUME ChatInv, stream = "cut", stage # "returned",
         UNCHANGED <<wire, seen, relaying, gone, stream>>,
         reply' \in Nat, reply <= reply', Chat!TypeOK', SavedInTime'
  PROVE  ChatInv'
<1>1. reply \in Nat /\ wire \in Seq(Chat!Chunk) /\ seen \in Seq(Chat!Chunk)
  BY CopyConstants DEF ChatInv, Chat!TypeOK
<1>2. \A i \in DOMAIN wire : wire[i] # Chat!Done
  BY DEF ChatInv, DoneLast
<1>3. ~(Chat!Received(Chat!Done) /\ ~Chat!Received(Chat!Error))
  BY DEF ChatInv, Told
<1>4. /\ \A i \in DOMAIN seen : IsDelta(seen[i]) => seen[i].part \in Nat
      /\ \A i \in DOMAIN wire : IsDelta(wire[i]) => wire[i].part \in Nat
  BY <1>1, CopyConstants DEF Chat!Chunk, IsDelta
<1>5. InOrder'
  BY <1>1, <1>4 DEF ChatInv, InOrder, Rising
<1>6. DoneLast' /\ Told' /\ OpenStream'
  BY <1>2, <1>3 DEF DoneLast, Told, OpenStream, Chat!Received
<1> QED
  BY <1>5, <1>6 DEF ChatInv

\* A step that sends chunks without a piece over an open stream, done at most at
\* their end.
LEMMA OpenStep ==
  ASSUME ChatInv, stream = "open", stage # "returned", NEW chunks \in Seq(Chat!Chunk),
         wire' = wire \o chunks, UNCHANGED <<reply, seen, relaying, gone>>,
         \A i \in DOMAIN chunks : ~IsDelta(chunks[i]),
         \/ /\ stream' = "open" /\ \A i \in DOMAIN chunks : chunks[i] # Chat!Done
         \/ /\ stream' = "ended" /\ stage' = "returned" /\ SavedOrNot'
            /\ \A i \in DOMAIN chunks : chunks[i] = Chat!Done => i = Len(chunks),
         Chat!TypeOK', SavedInTime'
  PROVE  ChatInv'
<1>1. reply \in Nat /\ wire \in Seq(Chat!Chunk) /\ seen \in Seq(Chat!Chunk)
  BY CopyConstants DEF ChatInv, Chat!TypeOK
<1>2. PICK w \in Seq(Chat!Chunk) : w = wire
  BY <1>1
<1>3. /\ Len(w \o chunks) = Len(w) + Len(chunks)
      /\ \A i \in DOMAIN w : i \in DOMAIN (w \o chunks) /\ (w \o chunks)[i] = w[i]
      /\ \A i \in DOMAIN (w \o chunks) :
           \/ i \in DOMAIN w /\ (w \o chunks)[i] = w[i]
           \/ /\ i - Len(w) \in DOMAIN chunks /\ (w \o chunks)[i] = chunks[i - Len(w)]
              /\ i > Len(w) /\ i = Len(w) + (i - Len(w))
  BY Lengthened
<1>4. PICK v : v = w \o chunks /\ wire' = v
  BY <1>2
<1>5. /\ Len(v) = Len(w) + Len(chunks)
      /\ \A i \in DOMAIN w : i \in DOMAIN v /\ v[i] = w[i]
      /\ \A i \in DOMAIN v :
           \/ i \in DOMAIN w /\ v[i] = w[i]
           \/ /\ i - Len(w) \in DOMAIN chunks /\ v[i] = chunks[i - Len(w)]
              /\ i > Len(w) /\ i = Len(w) + (i - Len(w))
  BY <1>3, <1>4
<1>6. \A i \in DOMAIN v : IsDelta(v[i]) => i \in DOMAIN w /\ v[i] = w[i]
  BY <1>5
<1>7. InOrder'
  BY <1>2, <1>4, <1>6 DEF ChatInv, InOrder, Rising
<1>8. AllSent /\ AllSent'
  <2>1. AllSent
    BY DEF ChatInv, OpenStream
  <2>2. \A n : Has(w, n) => Has(v, n)
    BY <1>5 DEF Has
  <2> QED
    BY <1>2, <1>4, <2>1, <2>2 DEF AllSent, Has
<1>9. relaying /\ ~gone /\ ~Chat!Received(Chat!Done) /\ \A i \in DOMAIN w : w[i] # Chat!Done
  BY <1>2 DEF ChatInv, OpenStream
<1>10. OpenStream'
  BY <1>4, <1>5, <1>8, <1>9 DEF OpenStream, Chat!Received
<1>11. DoneLast'
  <2> SUFFICES ASSUME NEW i \in DOMAIN v, v[i] = Chat!Done
               PROVE  i = Len(v) /\ stage' = "returned" /\ SavedOrNot'
    BY <1>4, <1>8 DEF DoneLast
  <2>1. i - Len(w) \in DOMAIN chunks /\ chunks[i - Len(w)] = Chat!Done /\ i = Len(w) + (i - Len(w))
    BY <1>5, <1>9
  <2>2. i - Len(w) = Len(chunks) /\ stage' = "returned" /\ SavedOrNot'
    BY <2>1
  <2>3. i = Len(v)
    BY <1>5, <2>1, <2>2
  <2> QED
    BY <2>2, <2>3
<1>12. Told'
  BY <1>9 DEF Told, Chat!Received
<1> QED
  BY <1>7, <1>10, <1>11, <1>12 DEF ChatInv

\* A piece follows all the others.
LEMMA DeltaStep ==
  ASSUME ChatInv, Chat!SendDelta
  PROVE  ChatInv'
<1>1. /\ reply \in Nat /\ wire \in Seq(Chat!Chunk) /\ seen \in Seq(Chat!Chunk)
      /\ reply' = reply + 1 /\ reply' \in 1 .. MaxParts /\ reply' \in 0 .. MaxParts
      /\ stage = "talking" /\ stream' = stream
      /\ UNCHANGED <<configured, pending, saved, saveFailed, relaying, gone, seen>>
      /\ Chat!SendOrReturn(Chat!Delta(reply'), "talking")
  BY CopyConstants DEF ChatInv, Chat!TypeOK, Chat!SendDelta, Chat!gateway
<1>2. CASE stream = "cut"
  <2>1. wire' = wire /\ stage' = "returned"
    BY <1>1, <1>2 DEF Chat!SendOrReturn, Chat!Send
  <2>2. Chat!TypeOK' /\ SavedInTime'
    BY <1>1, <1>2, <2>1 DEF ChatInv, Chat!TypeOK, Chat!Stages, SavedInTime
  <2>3. reply' \in Nat /\ reply <= reply'
    BY <1>1
  <2> QED
    BY <1>1, <1>2, <2>1, <2>2, <2>3, CutStep
<1>3. CASE stream # "cut"
  <2>1. stream = "open"
    BY <1>1, <1>3 DEF ChatInv, SavedInTime, Chat!TypeOK
  <2>2. PICK d \in Chat!Chunk : d = Chat!Delta(reply + 1) /\ IsDelta(d) /\ d.part = reply + 1
                                /\ d # Chat!Done
    BY <1>1, Chunks
  <2>3. PICK w \in Seq(Chat!Chunk) : w = wire
    BY <1>1
  <2>4. wire' = w \o <<d>> /\ stage' = "talking"
    BY <1>1, <1>3, <2>2, <2>3 DEF Chat!SendOrReturn, Chat!Send
  <2>5. PICK v \in Seq(Chat!Chunk) : v = w \o <<d>>
    <3>1. <<d>> \in Seq(Chat!Chunk) /\ w \o <<d>> \in Seq(Chat!Chunk)
      OBVIOUS
    <3> QED
      BY <3>1
  <2>6. /\ Len(v) = Len(w) + 1
        /\ \A i \in DOMAIN w : i \in DOMAIN v /\ v[i] = w[i] /\ i < Len(v)
        /\ Len(v) \in DOMAIN v /\ v[Len(v)] = d
        /\ \A i \in DOMAIN v : (i \in DOMAIN w /\ v[i] = w[i]) \/ (i = Len(v) /\ v[i] = d)
    BY <2>5
  <2>7. /\ \A i \in DOMAIN seen : IsDelta(seen[i]) => seen[i].part \in Nat /\ seen[i].part <= reply
        /\ \A i \in DOMAIN w : IsDelta(w[i]) => w[i].part \in Nat /\ w[i].part <= reply
    <3>1. \A c \in Chat!Chunk : IsDelta(c) => c.part \in Nat
      BY CopyConstants DEF Chat!Chunk, IsDelta
    <3>2. /\ \A i \in DOMAIN seen : seen[i] \in Chat!Chunk
          /\ \A i \in DOMAIN w : w[i] \in Chat!Chunk
      BY <1>1
    <3> QED
      BY <2>3, <3>1, <3>2 DEF ChatInv, InOrder
  <2>8. Rising(v)
    <3> SUFFICES ASSUME NEW i \in DOMAIN v, NEW j \in DOMAIN v, i < j, IsDelta(v[i]), IsDelta(v[j])
                 PROVE  v[i].part < v[j].part
      BY DEF Rising
    <3>1. i \in DOMAIN w /\ v[i] = w[i]
      <4>1. i # Len(v)
        BY <2>6
      <4> QED
        BY <2>6, <4>1
    <3>2. CASE j = Len(v)
      BY <1>1, <2>2, <2>6, <2>7, <3>1, <3>2
    <3>3. CASE j # Len(v)
      BY <2>3, <2>6, <3>1, <3>3 DEF ChatInv, InOrder, Rising
    <3> QED
      BY <3>2, <3>3
  <2>9. InOrder'
    <3>1. \A i \in DOMAIN seen, j \in DOMAIN v :
            IsDelta(seen[i]) /\ IsDelta(v[j]) => seen[i].part < v[j].part
      <4> SUFFICES ASSUME NEW i \in DOMAIN seen, NEW j \in DOMAIN v,
                          IsDelta(seen[i]), IsDelta(v[j])
                   PROVE  seen[i].part < v[j].part
        OBVIOUS
      <4>1. CASE v[j] = d
        BY <1>1, <2>2, <2>7, <4>1
      <4>2. CASE v[j] # d
        BY <2>3, <2>6, <4>2 DEF ChatInv, InOrder
      <4> QED
        BY <4>1, <4>2
    <3>2. \A i \in DOMAIN seen : IsDelta(seen[i]) => seen[i].part <= reply + 1
      BY <1>1, <2>7
    <3>3. \A i \in DOMAIN v : IsDelta(v[i]) => v[i].part <= reply + 1
      BY <1>1, <2>2, <2>6, <2>7
    <3>4. wire' = v /\ seen' = seen /\ reply' = reply + 1
      BY <1>1, <2>4, <2>5
    <3> QED
      BY <2>8, <3>1, <3>2, <3>3, <3>4 DEF ChatInv, InOrder
  <2>10. Chat!TypeOK' /\ SavedInTime'
    BY <1>1, <2>1, <2>4, <2>5 DEF ChatInv, Chat!TypeOK, SavedInTime
  <2>11. relaying /\ ~gone /\ AllSent /\ ~Chat!Received(Chat!Done)
         /\ \A i \in DOMAIN w : w[i] # Chat!Done
    BY <2>1, <2>3 DEF ChatInv, OpenStream
  <2>12. AllSent'
    <3> SUFFICES ASSUME NEW n \in 1 .. reply + 1
                 PROVE  Has(seen, n) \/ Has(v, n)
      BY <1>1, <2>4, <2>5 DEF AllSent, Has
    <3>1. CASE n = reply + 1
      BY <2>2, <2>6, <3>1 DEF Has
    <3>2. CASE n # reply + 1
      <4>1. Has(seen, n) \/ Has(w, n)
        <5>1. n \in 1 .. reply
          BY <1>1, <3>2
        <5> QED
          BY <2>3, <2>11, <5>1 DEF AllSent
      <4> QED
        BY <2>6, <4>1 DEF Has
    <3> QED
      BY <3>1, <3>2
  <2>13. \A i \in DOMAIN v : v[i] # Chat!Done
    BY <2>2, <2>6, <2>11
  <2>14. OpenStream' /\ DoneLast' /\ Told'
    BY <1>1, <2>1, <2>4, <2>5, <2>11, <2>12, <2>13
    DEF OpenStream, DoneLast, Told, Chat!Received
  <2> QED
    BY <2>9, <2>10, <2>14 DEF ChatInv
<1> QED
  BY <1>2, <1>3
\* The steps that save, call the agent or queue an action send nothing.
LEMMA SilentStep ==
  ASSUME ChatInv,
         \/ Chat!NewLibrarianAgent \/ Chat!QueuePending \/ Chat!AgentEnds
         \/ Chat!SaveChatSession \/ Chat!SaveFails
  PROVE  ChatInv'
<1>1. /\ stage # "returned" /\ stream' = stream /\ wire' = wire /\ reply' = reply
      /\ UNCHANGED <<seen, relaying, gone>> /\ reply \in Nat
  BY CopyConstants DEF ChatInv, Chat!TypeOK, Chat!NewLibrarianAgent, Chat!QueuePending,
     Chat!AgentEnds, Chat!SaveChatSession, Chat!SaveFails, Chat!gateway
<1>2. Chat!TypeOK' /\ SavedInTime'
  BY DEF ChatInv, Chat!TypeOK, Chat!Stages, SavedInTime, SavedOrNot, Chat!NewLibrarianAgent,
     Chat!QueuePending, Chat!AgentEnds, Chat!SaveChatSession, Chat!SaveFails, Chat!gateway
<1>3. CASE stream = "cut"
  BY <1>1, <1>2, <1>3, CutStep
<1>4. CASE stream # "cut"
  <2>1. stream = "open"
    BY <1>1, <1>4 DEF ChatInv, SavedInTime, Chat!TypeOK
  <2>2. wire' = wire \o <<>> /\ <<>> \in Seq(Chat!Chunk) /\ DOMAIN <<>> = {}
    BY <1>1 DEF ChatInv, Chat!TypeOK
  <2>3. PICK chunks \in Seq(Chat!Chunk) : wire' = wire \o chunks /\ DOMAIN chunks = {}
    BY <2>2
  <2> QED
    BY <1>1, <1>2, <2>1, <2>3, OpenStep
<1> QED
  BY <1>3, <1>4

\* The steps that send something else than a piece, and go on.
LEMMA TellingStep ==
  ASSUME ChatInv,
         Chat!SendSession \/ Chat!AgentError \/ Chat!TakeLastPending \/ Chat!SendSuggestions
  PROVE  ChatInv'
<1>1. /\ stage # "returned" /\ stream' = stream /\ reply' = reply
      /\ UNCHANGED <<configured, pending, saved, saveFailed, seen, relaying, gone>>
      /\ reply \in Nat /\ wire \in Seq(Chat!Chunk)
  BY CopyConstants DEF ChatInv, Chat!TypeOK, Chat!SendSession, Chat!AgentError,
     Chat!TakeLastPending, Chat!SendSuggestions, Chat!gateway
<1>2. PICK chunks :
        /\ wire' = IF stream = "cut" THEN wire ELSE wire \o chunks
        /\ \/ chunks = <<>>
           \/ \E a \in {"session", "confirmation", "suggestions"} : chunks = <<Chat!Metadata(a)>>
           \/ chunks = <<Chat!Error>>
  BY DEF Chat!SendSession, Chat!AgentError, Chat!TakeLastPending, Chat!SendSuggestions,
         Chat!SendOrReturn, Chat!Send
<1>3. /\ chunks \in Seq(Chat!Chunk)
      /\ \A i \in DOMAIN chunks : ~IsDelta(chunks[i]) /\ chunks[i] # Chat!Done
  <2>1. CASE chunks = <<>>
    BY <2>1
  <2>2. ASSUME NEW d \in Chat!Chunk, ~IsDelta(d), d # Chat!Done, chunks = <<d>>
        PROVE  /\ chunks \in Seq(Chat!Chunk)
               /\ \A i \in DOMAIN chunks : ~IsDelta(chunks[i]) /\ chunks[i] # Chat!Done
    BY <2>2
  <2> QED
    BY <1>2, <2>1, <2>2, Chunks
<1>4. stage' \in {"agent", "closing", "suggesting", "saving", "done"}
      \/ (stream = "cut" /\ stage' = "returned")
  BY DEF Chat!SendSession, Chat!AgentError, Chat!TakeLastPending, Chat!SendSuggestions,
         Chat!SendOrReturn
<1>5. SavedInTime'
  <2>1. stream # "ended"
    BY <1>1 DEF ChatInv, SavedInTime
  <2>2. CASE Chat!SendSession
    BY <1>1, <2>1, <2>2 DEF ChatInv, SavedInTime, Chat!SendSession, Chat!SendOrReturn
  <2>3. CASE Chat!AgentError
    BY <1>1, <2>1, <2>3 DEF ChatInv, SavedInTime, Chat!AgentError
  <2>4. CASE Chat!TakeLastPending
    <3>1. stage' = IF reply > 0 THEN "suggesting" ELSE "done"
      BY <2>4 DEF Chat!TakeLastPending
    <3>2. saved = 0
      BY <2>4 DEF ChatInv, SavedInTime, Chat!TakeLastPending
    <3>3. ~(reply > 0) => reply = 0
      BY <1>1
    <3> QED
      BY <1>1, <2>1, <3>1, <3>2, <3>3 DEF SavedInTime, SavedOrNot
  <2>5. CASE Chat!SendSuggestions
    BY <1>1, <2>1, <2>5 DEF ChatInv, SavedInTime, Chat!SendSuggestions
  <2> QED
    BY <2>2, <2>3, <2>4, <2>5
<1>6. Chat!TypeOK'
  <2>1. wire' \in Seq(Chat!Chunk)
    BY <1>1, <1>2, <1>3
  <2> QED
    BY <1>1, <1>4, <2>1 DEF ChatInv, Chat!TypeOK, Chat!Stages
<1>7. CASE stream = "cut"
  BY <1>1, <1>2, <1>5, <1>6, <1>7, CutStep
<1>8. CASE stream # "cut"
  <2>1. stream = "open"
    BY <1>1, <1>8 DEF ChatInv, SavedInTime, Chat!TypeOK
  <2> QED
    BY <1>1, <1>2, <1>3, <1>5, <1>6, <2>1, OpenStep
<1> QED
  BY <1>7, <1>8

\* The last step of the handler says done.
LEMMA ReturningStep ==
  ASSUME ChatInv, Chat!NotConfigured \/ Chat!AgentFails \/ Chat!SendDone
  PROVE  ChatInv'
<1>1. /\ stage # "returned" /\ reply' = reply /\ stage' = "returned"
      /\ stream' = IF stream = "open" THEN "ended" ELSE stream
      /\ UNCHANGED <<configured, pending, saved, saveFailed, seen, relaying, gone>>
      /\ reply \in Nat /\ wire \in Seq(Chat!Chunk)
  BY CopyConstants DEF ChatInv, Chat!TypeOK, Chat!NotConfigured, Chat!AgentFails, Chat!SendDone,
     Chat!Return, Chat!gateway
<1>2. PICK chunks :
        /\ wire' = IF stream = "cut" THEN wire ELSE wire \o chunks
        /\ chunks \in {<<Chat!Unavailable, Chat!Done>>, <<Chat!Error, Chat!Done>>, <<Chat!Done>>}
  BY DEF Chat!NotConfigured, Chat!AgentFails, Chat!SendDone, Chat!Send
<1>3. /\ chunks \in Seq(Chat!Chunk)
      /\ \A i \in DOMAIN chunks : ~IsDelta(chunks[i])
      /\ \A i \in DOMAIN chunks : chunks[i] = Chat!Done => i = Len(chunks)
  <2>1. CASE chunks = <<Chat!Done>>
    BY <2>1, Chunks
  <2>2. ASSUME NEW d \in Chat!Chunk, ~IsDelta(d), d # Chat!Done, chunks = <<d, Chat!Done>>
        PROVE  /\ chunks \in Seq(Chat!Chunk)
               /\ \A i \in DOMAIN chunks : ~IsDelta(chunks[i])
               /\ \A i \in DOMAIN chunks : chunks[i] = Chat!Done => i = Len(chunks)
    BY <2>2, Chunks
  <2> QED
    BY <1>2, <2>1, <2>2, Chunks
<1>4. SavedOrNot /\ SavedOrNot' /\ SavedInTime'
  BY <1>1 DEF ChatInv, SavedInTime, SavedOrNot, Chat!NotConfigured, Chat!AgentFails, Chat!SendDone
<1>5. Chat!TypeOK'
  <2>1. wire' \in Seq(Chat!Chunk)
    BY <1>1, <1>2, <1>3
  <2>2. stream' \in {"open", "ended", "cut"}
    BY <1>1 DEF ChatInv, Chat!TypeOK
  <2> QED
    BY <1>1, <2>1, <2>2 DEF ChatInv, Chat!TypeOK, Chat!Stages
<1>6. CASE stream = "cut"
  BY <1>1, <1>2, <1>4, <1>5, <1>6, CutStep
<1>7. CASE stream # "cut"
  <2>1. stream = "open"
    BY <1>1, <1>7 DEF ChatInv, SavedInTime, Chat!TypeOK
  <2>2. stream' = "ended" /\ wire' = wire \o chunks
    BY <1>1, <1>2, <2>1
  <2> QED
    BY <1>1, <1>3, <1>4, <1>5, <2>1, <2>2, OpenStep
<1> QED
  BY <1>6, <1>7

\* The stream breaks, the service stops, the client leaves.
LEMMA BreakingStep ==
  ASSUME ChatInv, Chat!ServiceStops \/ Chat!Cut \/ Chat!ClientLeaves \/ Chat!ClientGone
  PROVE  ChatInv'
<1>1. UNCHANGED <<configured, reply, pending, saved, saveFailed, wire, seen>>
  BY DEF Chat!ServiceStops, Chat!Cut, Chat!ClientLeaves, Chat!ClientGone, Chat!service,
         Chat!gateway
<1>2. /\ stage' = stage \/ (stage # "returned" /\ stage' = "returned")
      /\ stream' \in {stream, "cut"} /\ (stream' = "open" => stream = "open" /\ stage' = stage
                                                         /\ relaying' = relaying /\ gone' = gone)
      /\ relaying' \in BOOLEAN /\ (relaying' => relaying)
      /\ gone' \in BOOLEAN /\ (gone => gone')
  <2>1. CASE Chat!ServiceStops
    BY <2>1 DEF ChatInv, Chat!TypeOK, Chat!ServiceStops, Chat!gateway
  <2>2. CASE Chat!Cut
    BY <2>2 DEF ChatInv, Chat!TypeOK, Chat!Cut, Chat!service, Chat!gateway
  <2>3. CASE Chat!ClientLeaves
    BY <2>3 DEF ChatInv, Chat!TypeOK, Chat!ClientLeaves, Chat!service
  <2>4. CASE Chat!ClientGone
    <3>1. stream # "open"
      BY <2>4 DEF ChatInv, OpenStream, Chat!ClientGone
    <3> QED
      BY <2>4, <3>1 DEF ChatInv, Chat!TypeOK, Chat!ClientGone, Chat!service
  <2> QED
    BY <2>1, <2>2, <2>3, <2>4
<1>3. Chat!TypeOK'
  BY <1>1, <1>2 DEF ChatInv, Chat!TypeOK, Chat!Stages
<1>4. SavedInTime'
  BY <1>1, <1>2 DEF ChatInv, SavedInTime, SavedOrNot
<1>5. InOrder'
  BY <1>1 DEF ChatInv, InOrder, Rising
<1>6. OpenStream'
  BY <1>1, <1>2 DEF ChatInv, OpenStream, AllSent, Has, Chat!Received
<1>7. DoneLast'
  BY <1>1, <1>2 DEF ChatInv, DoneLast, AllSent, Has, SavedOrNot
<1>8. Told'
  BY <1>1, <1>2 DEF ChatInv, Told, Has, SavedOrNot, Chat!Received, Chat!TypeOK
<1> QED
  BY <1>3, <1>4, <1>5, <1>6, <1>7, <1>8 DEF ChatInv
\* A chunk passes from the wire to the client, or is dropped if it has left.
LEMMA RelayStep ==
  ASSUME ChatInv, Chat!Relay
  PROVE  ChatInv'
<1>1. /\ relaying /\ reply \in Nat /\ wire # <<>>
      /\ UNCHANGED <<configured, stage, reply, pending, saved, saveFailed, stream, gone>>
  BY CopyConstants DEF ChatInv, Chat!TypeOK, Chat!Relay, Chat!service
<1>2. PICK w \in Seq(Chat!Chunk), s \in Seq(Chat!Chunk) : w = wire /\ s = seen
  BY DEF ChatInv, Chat!TypeOK
<1>3. PICK h \in Chat!Chunk, rest \in Seq(Chat!Chunk) :
        h = Head(w) /\ rest = Tail(w) /\ Len(w) = Len(rest) + 1 /\ w[1] = h
        /\ (\A i \in DOMAIN rest : i + 1 \in DOMAIN w /\ rest[i] = w[i + 1])
        /\ (\A i \in DOMAIN w : i = 1 \/ (i - 1 \in DOMAIN rest /\ rest[i - 1] = w[i]))
  <2>1. /\ Head(w) \in Chat!Chunk /\ Tail(w) \in Seq(Chat!Chunk)
        /\ Len(w) = Len(Tail(w)) + 1 /\ w[1] = Head(w)
        /\ \A i \in DOMAIN Tail(w) : i + 1 \in DOMAIN w /\ Tail(w)[i] = w[i + 1]
        /\ \A i \in DOMAIN w : i = 1 \/ (i - 1 \in DOMAIN Tail(w) /\ Tail(w)[i - 1] = w[i])
    BY <1>1, <1>2
  <2> QED
    BY <2>1
<1>4. PICK e \in Chat!Chunk :
        /\ e = Chat!writeSSE(h) /\ (IsDelta(e) \/ IsDelta(h) => e = h)
        /\ (e = Chat!Done <=> h = Chat!Done)
  <2>1. PICK e : e = Chat!writeSSE(h)
    OBVIOUS
  <2>2. e = h \/ (h = Chat!Metadata("confirmation") /\ e = Chat!Metadata("session"))
    BY <2>1 DEF Chat!writeSSE
  <2> QED
    BY <2>1, <2>2, Chunks
<1>5. PICK t \in Seq(Chat!Chunk) :
        /\ t = (IF gone THEN s ELSE s \o <<e>>) /\ seen' = t
        /\ \A i \in DOMAIN s : i \in DOMAIN t /\ t[i] = s[i]
        /\ ~gone => Len(t) = Len(s) + 1 /\ Len(t) \in DOMAIN t /\ t[Len(t)] = e
        /\ \A i \in DOMAIN t : \/ i \in DOMAIN s /\ t[i] = s[i]
                               \/ ~gone /\ t[i] = e /\ i = Len(s) + 1
        /\ \A i \in DOMAIN s : i <= Len(s)
  <2>1. PICK t : t = (IF gone THEN s ELSE s \o <<e>>)
    OBVIOUS
  <2>2. seen' = t
    BY <1>2, <1>3, <1>4, <2>1 DEF Chat!Relay, Chat!Write
  <2>3. CASE gone
    BY <2>1, <2>2, <2>3
  <2>4. CASE ~gone
    <3>1. t = s \o <<e>>
      BY <2>1, <2>4
    <3>2. /\ t \in Seq(Chat!Chunk) /\ Len(t) = Len(s) + 1 /\ t[Len(t)] = e /\ Len(t) \in DOMAIN t
          /\ \A i \in DOMAIN s : i \in DOMAIN t /\ t[i] = s[i] /\ i <= Len(s)
          /\ \A i \in DOMAIN t : (i \in DOMAIN s /\ t[i] = s[i]) \/ (t[i] = e /\ i = Len(s) + 1)
      BY <3>1
    <3> QED
      BY <2>1, <2>2, <2>4, <3>2
  <2> QED
    BY <2>3, <2>4
<1>6. wire' = rest /\ relaying' = (h # Chat!Done)
  BY <1>2, <1>3 DEF Chat!Relay
<1>7. Chat!TypeOK'
  BY <1>1, <1>5, <1>6 DEF ChatInv, Chat!TypeOK
<1>8. SavedInTime'
  BY <1>1 DEF ChatInv, SavedInTime, SavedOrNot
<1>9. /\ Rising(s) /\ Rising(w)
      /\ \A i \in DOMAIN s, j \in DOMAIN w : IsDelta(s[i]) /\ IsDelta(w[j]) => s[i].part < w[j].part
      /\ \A i \in DOMAIN s : IsDelta(s[i]) => s[i].part <= reply
      /\ \A i \in DOMAIN w : IsDelta(w[i]) => w[i].part <= reply
      /\ 1 \in DOMAIN w
  BY <1>1, <1>2 DEF ChatInv, InOrder
<1>10. InOrder'
  <2>1. Rising(rest)
    <3> SUFFICES ASSUME NEW i \in DOMAIN rest, NEW j \in DOMAIN rest, i < j,
                        IsDelta(rest[i]), IsDelta(rest[j])
                 PROVE  rest[i].part < rest[j].part
      BY DEF Rising
    <3>1. i + 1 \in DOMAIN w /\ j + 1 \in DOMAIN w /\ rest[i] = w[i + 1] /\ rest[j] = w[j + 1]
      BY <1>3
    <3>2. i + 1 < j + 1
      OBVIOUS
    <3> QED
      BY <1>9, <3>1, <3>2 DEF Rising
  <2>2. Rising(t)
    <3> SUFFICES ASSUME NEW i \in DOMAIN t, NEW j \in DOMAIN t, i < j, IsDelta(t[i]), IsDelta(t[j])
                 PROVE  t[i].part < t[j].part
      BY DEF Rising
    <3>0. Len(s) \in Nat /\ i \in Nat /\ j \in Nat
      OBVIOUS
    <3>1. CASE j \in DOMAIN s /\ t[j] = s[j]
      <4>1. i \in DOMAIN s /\ t[i] = s[i]
        BY <1>5, <3>0, <3>1
      <4> QED
        BY <1>9, <3>1, <4>1 DEF Rising
    <3>2. CASE t[j] = e /\ j = Len(s) + 1
      <4>1. i \in DOMAIN s /\ t[i] = s[i]
        BY <1>5, <3>0, <3>2
      <4>2. e = w[1] /\ IsDelta(w[1])
        BY <1>3, <1>4, <3>2
      <4> QED
        BY <1>9, <3>2, <4>1, <4>2
    <3> QED
      BY <1>5, <3>1, <3>2
  <2>3. ASSUME NEW i \in DOMAIN t, IsDelta(t[i])
        PROVE  t[i].part <= reply /\ \A j \in DOMAIN rest : IsDelta(rest[j]) => t[i].part < rest[j].part
    <3>1. CASE i \in DOMAIN s /\ t[i] = s[i]
      BY <1>3, <1>9, <2>3, <3>1
    <3>2. CASE t[i] = e
      <4>1. e = w[1] /\ IsDelta(w[1])
        BY <1>3, <1>4, <2>3, <3>2
      <4>2. \A j \in DOMAIN rest : 1 < j + 1
        OBVIOUS
      <4> QED
        BY <1>3, <1>9, <3>2, <4>1, <4>2 DEF Rising
    <3> QED
      BY <1>5, <3>1, <3>2
  <2>4. \A i \in DOMAIN rest : IsDelta(rest[i]) => rest[i].part <= reply
    BY <1>3, <1>9
  <2> QED
    BY <1>1, <1>5, <1>6, <2>1, <2>2, <2>3, <2>4 DEF InOrder
<1>11. ASSUME ~gone, NEW n, Has(s, n) \/ Has(w, n)
       PROVE  Has(t, n) \/ Has(rest, n)
  <2>1. CASE Has(s, n)
    BY <1>5, <2>1 DEF Has
  <2>2. CASE Has(w, n)
    <3>1. PICK i \in DOMAIN w : w[i] = Chat!Delta(n)
      BY <2>2 DEF Has
    <3>2. CASE i = 1
      BY <1>3, <1>4, <1>5, <1>11, <3>1, <3>2, Chunks DEF Has
    <3>3. CASE i # 1
      <4>1. i - 1 \in DOMAIN rest /\ rest[i - 1] = Chat!Delta(n)
        BY <1>3, <3>1, <3>3
      <4> QED
        BY <4>1 DEF Has
    <3> QED
      BY <3>2, <3>3
  <2> QED
    BY <1>11, <2>1, <2>2
<1>12. gone \/ (AllSent => AllSent')
  BY <1>1, <1>2, <1>5, <1>6, <1>11 DEF AllSent
<1>13. OpenStream'
  <2> SUFFICES ASSUME stream = "open"
               PROVE  OpenStream'
    BY <1>1 DEF OpenStream
  <2>1. /\ relaying /\ ~gone /\ AllSent /\ ~Chat!Received(Chat!Done)
        /\ \A i \in DOMAIN w : w[i] # Chat!Done
    BY <1>2 DEF ChatInv, OpenStream
  <2>2. h # Chat!Done /\ e # Chat!Done /\ \A i \in DOMAIN rest : rest[i] # Chat!Done
    BY <1>3, <1>4, <1>9, <2>1
  <2>3. \A i \in DOMAIN t : t[i] # Chat!Done
    BY <1>2, <1>5, <2>1, <2>2 DEF Chat!Received
  <2> QED
    BY <1>1, <1>5, <1>6, <1>12, <2>1, <2>2, <2>3 DEF OpenStream, Chat!Received
<1>14. \A i \in DOMAIN w : w[i] = Chat!Done =>
         i = Len(w) /\ stage = "returned" /\ SavedOrNot /\ (gone \/ AllSent)
  BY <1>2 DEF ChatInv, DoneLast
<1>15. DoneLast'
  <2> SUFFICES ASSUME NEW i \in DOMAIN rest, rest[i] = Chat!Done
               PROVE  i = Len(rest) /\ stage = "returned" /\ SavedOrNot /\ (gone \/ AllSent')
    BY <1>1, <1>6 DEF DoneLast, SavedOrNot
  <2>1. i + 1 = Len(w) /\ stage = "returned" /\ SavedOrNot /\ (gone \/ AllSent)
    BY <1>3, <1>14
  <2>2. i = Len(rest)
    BY <1>3, <2>1
  <2> QED
    BY <1>12, <2>1, <2>2
<1>16. Told'
  <2> SUFFICES ASSUME NEW i \in DOMAIN t, t[i] = Chat!Done,
                      ~Chat!Received(Chat!Error)'
               PROVE  /\ ~relaying' /\ stage = "returned" /\ SavedOrNot
                      /\ \A n \in 1 .. reply : Has(t, n)
    BY <1>1, <1>5 DEF Told, Chat!Received, SavedOrNot
  <2>1. ~Chat!Received(Chat!Error)
    BY <1>2, <1>5 DEF Chat!Received
  <2>2. ~Chat!Received(Chat!Done)
    BY <1>1, <2>1 DEF ChatInv, Told
  <2>3. ~gone /\ e = Chat!Done /\ h = Chat!Done
    BY <1>2, <1>4, <1>5, <2>2 DEF Chat!Received
  <2>4. 1 = Len(w) /\ stage = "returned" /\ SavedOrNot /\ AllSent
    BY <1>3, <1>9, <1>14, <2>3
  <2>5. DOMAIN rest = {}
    BY <1>3, <2>4
  <2>6. \A n \in 1 .. reply : Has(t, n)
    BY <1>2, <1>11, <2>3, <2>4, <2>5 DEF AllSent, Has
  <2> QED
    BY <1>6, <2>3, <2>4, <2>6
<1> QED
  BY <1>7, <1>8, <1>10, <1>13, <1>15, <1>16 DEF ChatInv

\* The client is told of the error before it is told done.
LEMMA RecvFailsStep ==
  ASSUME ChatInv, Chat!RecvFails
  PROVE  ChatInv'
<1>1. /\ stream = "cut" /\ relaying' = FALSE
      /\ UNCHANGED <<configured, stage, reply, pending, saved, saveFailed, stream, wire, gone>>
  BY DEF Chat!RecvFails, Chat!service
<1>2. PICK s \in Seq(Chat!Chunk) : s = seen
  BY DEF ChatInv, Chat!TypeOK
<1>3. PICK e \in Seq(Chat!Chunk) :
        /\ e = <<Chat!Error, Chat!Done>> /\ DOMAIN e = {1, 2} /\ e[1] = Chat!Error
        /\ \A i \in DOMAIN e : ~IsDelta(e[i])
  <2>1. PICK a \in Chat!Chunk, d \in Chat!Chunk :
          a = Chat!Error /\ d = Chat!Done /\ ~IsDelta(a) /\ ~IsDelta(d)
    BY Chunks
  <2>2. /\ <<a, d>> \in Seq(Chat!Chunk) /\ DOMAIN <<a, d>> = {1, 2} /\ <<a, d>>[1] = a
        /\ <<a, d>>[2] = d
    OBVIOUS
  <2> QED
    BY <2>1, <2>2
<1>4. PICK t \in Seq(Chat!Chunk) :
        /\ t = (IF gone THEN s ELSE s \o e) /\ seen' = t
        /\ \A i \in DOMAIN s : i \in DOMAIN t /\ t[i] = s[i]
        /\ ~gone => \E i \in DOMAIN t : t[i] = Chat!Error
        /\ \A i \in DOMAIN t : IsDelta(t[i]) => i \in DOMAIN s /\ t[i] = s[i]
  <2>1. PICK t : t = (IF gone THEN s ELSE s \o e)
    OBVIOUS
  <2>2. seen' = t
    BY <1>2, <1>3, <2>1 DEF Chat!RecvFails, Chat!Write
  <2>3. CASE gone
    BY <2>1, <2>2, <2>3
  <2>4. CASE ~gone
    <3>1. t = s \o e
      BY <2>1, <2>4
    <3>2. /\ s \o e \in Seq(Chat!Chunk)
          /\ \A i \in DOMAIN s : i \in DOMAIN (s \o e) /\ (s \o e)[i] = s[i]
          /\ \A i \in DOMAIN e : Len(s) + i \in DOMAIN (s \o e) /\ (s \o e)[Len(s) + i] = e[i]
          /\ \A i \in DOMAIN (s \o e) :
               \/ i \in DOMAIN s /\ (s \o e)[i] = s[i]
               \/ i - Len(s) \in DOMAIN e /\ (s \o e)[i] = e[i - Len(s)]
      BY Lengthened
    <3> QED
      BY <1>3, <2>1, <2>2, <2>4, <3>1, <3>2
  <2> QED
    BY <2>3, <2>4
<1>5. Chat!TypeOK' /\ SavedInTime' /\ OpenStream'
  BY <1>1, <1>4 DEF ChatInv, Chat!TypeOK, SavedInTime, SavedOrNot, OpenStream
<1>6. InOrder'
  BY <1>1, <1>2, <1>4 DEF ChatInv, InOrder, Rising
<1>7. DoneLast'
  <2>1. \A n : Has(s, n) => Has(t, n)
    BY <1>4 DEF Has
  <2> QED
    BY <1>1, <1>2, <1>4, <2>1 DEF ChatInv, DoneLast, AllSent, Has, SavedOrNot
<1>8. Told'
  <2>1. CASE gone
    BY <1>1, <1>2, <1>4, <2>1 DEF ChatInv, Told, Chat!Received, SavedOrNot
  <2>2. CASE ~gone
    BY <1>4, <2>2 DEF Told, Chat!Received
  <2> QED
    BY <2>1, <2>2
<1> QED
  BY <1>5, <1>6, <1>7, <1>8 DEF ChatInv

LEMMA ChatInvariant == AllSpec => []ChatInv
<1>1. AllInit => ChatInv
  <2> SUFFICES ASSUME Chat!Init
               PROVE  ChatInv
    BY DEF AllInit
  <2>1. /\ configured \in BOOLEAN /\ stage = "start" /\ reply = 0 /\ saved = 0
        /\ pending = FALSE /\ saveFailed = FALSE /\ stream = "open" /\ wire = <<>>
        /\ relaying = TRUE /\ gone = FALSE /\ seen = <<>>
    BY DEF Chat!Init
  <2>2. wire \in Seq(Chat!Chunk) /\ seen \in Seq(Chat!Chunk) /\ DOMAIN wire = {} /\ DOMAIN seen = {}
    BY <2>1
  <2>3. Chat!TypeOK
    <3>1. 0 \in 0 .. MaxParts
      BY CopyConstants
    <3> QED
      BY <2>1, <2>2, <3>1 DEF Chat!TypeOK, Chat!Stages
  <2>4. 1 .. reply = {}
    BY <2>1
  <2> QED
    BY <2>1, <2>2, <2>3, <2>4
    DEF ChatInv, InOrder, Rising, SavedInTime, OpenStream, AllSent, DoneLast, Told, Chat!Received
<1>2. ChatInv /\ [AllNext]_allVars => ChatInv'
  <2> SUFFICES ASSUME ChatInv, [AllNext]_allVars
               PROVE  ChatInv'
    OBVIOUS
  <2>1. Chat!Next \/ UNCHANGED chatVars
    BY DEF AllNext, allVars
  <2>2. CASE UNCHANGED chatVars
    BY <2>2 DEF chatVars, ChatInv, Chat!TypeOK, InOrder, Rising, SavedInTime, SavedOrNot,
                OpenStream, AllSent, Has, DoneLast, Told, Chat!Received
  <2>3. CASE Chat!Next
    BY <2>3, DeltaStep, SilentStep, TellingStep, ReturningStep, BreakingStep, RelayStep,
       RecvFailsStep DEF Chat!Next
  <2> QED
    BY <2>1, <2>2, <2>3
<1> QED
  BY <1>1, <1>2, PTL DEF AllSpec

\* A client that is told done, and of no error, has every piece of the reply, in
\* order, and the history has exactly these, wherever the stream broke, the
\* service stopped or a send failed, for replies of any number of pieces.
THEOREM DoneOnlyWhenSaved == AllSpec => []DoneMeansSaved
<1>1. ASSUME ChatInv, Chat!Finished, ~saveFailed
      PROVE  /\ {seen[i] : i \in Chat!Said} = {Chat!Delta(n) : n \in 1 .. saved}
             /\ \A i, j \in Chat!Said : i < j => seen[i].part < seen[j].part
  <2>1. saved = reply /\ \A n \in 1 .. reply : Has(seen, n)
    BY <1>1 DEF ChatInv, Told, Chat!Finished, SavedOrNot
  <2>2. \A i \in DOMAIN seen : IsDelta(seen[i]) => seen[i].part <= reply /\ seen[i] \in Chat!Chunk
    BY <1>1 DEF ChatInv, InOrder, Chat!TypeOK
  <2>3. \A c \in Chat!Chunk : IsDelta(c) => c.part \in Nat /\ c.part >= 1 /\ c = Chat!Delta(c.part)
    BY CopyConstants DEF Chat!Chunk, IsDelta, Chat!Delta
  <2>4. \A i \in Chat!Said : seen[i].part \in 1 .. reply /\ seen[i] = Chat!Delta(seen[i].part)
    <3>1. reply \in Nat
      BY <1>1, CopyConstants DEF ChatInv, Chat!TypeOK
    <3> QED
      BY <2>2, <2>3, <3>1 DEF Chat!Said, IsDelta
  <2>5. \A n \in 1 .. reply : \E i \in Chat!Said : seen[i] = Chat!Delta(n)
    BY <2>1, Chunks DEF Has, Chat!Said, IsDelta
  <2>6. \A i, j \in Chat!Said : i < j => seen[i].part < seen[j].part
    BY <1>1 DEF ChatInv, InOrder, Rising, Chat!Said, IsDelta
  <2> QED
    BY <2>1, <2>4, <2>5, <2>6
<1>2. ChatInv => DoneMeansSaved
  BY <1>1 DEF DoneMeansSaved, Chat!DoneMeansSaved
<1> QED
  BY <1>2, ChatInvariant, PTL

(* The parts together *)

LEMMA OnePart == AllSpec => [](part \in {"catalogue", "backfill", "chat", "payments"})
<1>1. AllInit => part \in {"catalogue", "backfill", "chat", "payments"}
  BY DEF AllInit
<1>2. /\ part \in {"catalogue", "backfill", "chat", "payments"}
      /\ [AllNext]_allVars
      => (part \in {"catalogue", "backfill", "chat", "payments"})'
  BY DEF AllNext, allVars
<1> QED
  BY <1>1, <1>2, PTL DEF AllSpec

\* Whatever part runs, its state stays in its types: no queue, channel, counter
\* or call leaves its range.
THEOREM PipelinesKeepTheirTypes == AllSpec => []AllTypeOK
<1>1. part \in {"catalogue", "backfill", "chat", "payments"} /\ CatInv /\ BulkInv /\ ChatInv /\ EventInv
        => AllTypeOK
  BY DEF AllTypeOK, CatInv, BulkInv, ChatInv, EventInv
<1> QED
  BY <1>1, OnePart, CatalogueInvariant, BulkInvariant, ChatInvariant, PaymentsInvariant, PTL
=============================================================================
