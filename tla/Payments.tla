------------------------------- MODULE Payments -------------------------------
(***************************************************************************)
(* The payment service: payments are created, processed and refunded, and   *)
(* each of the last two is announced to the broker after its transaction    *)
(* has committed.  Processing and refunding lock the row FOR UPDATE before  *)
(* they look at the status, so a transaction is one step; the publish is    *)
(* one of its own, and a crash in between loses the event.                  *)
(***************************************************************************)
EXTENDS Integers, Sequences

CONSTANTS
    Orders,       \* the order ids payments are created for
    Calls,        \* slots for ProcessPayment and RefundPayment in flight
    MaxPayments   \* payments created

ASSUME PaymentConstants == MaxPayments \in Nat

VARIABLES
    payments,    \* the table; the auto-increment id is the index
    publishing,  \* the event each call has still to publish
    sent,        \* how often each event was handed to the broker
    lost,        \* the events a crash or a failed publish kept from it
    queues       \* the events in each queue of the broker

vars == <<payments, publishing, sent, lost, queues>>

Ids == 1 .. MaxPayments
RoutingKeys == {"payment.success", "payment.refunded"}
Event == [key: RoutingKeys, payment: Ids]
NoEvent == [key |-> "none"]

(* The broker: the queues the services declare, and their bindings.         *)
Queues == {"order.payment.success"}
Bindings == {[exchange |-> "payment.success", queue |-> "order.payment.success"]}

(* The default exchange delivers to the queue named by the routing key, a   *)
(* fanout exchange to every queue bound; what reaches no queue is dropped.  *)
Routed(exchange, key) ==
    IF exchange = "" THEN Queues \cap {key}
    ELSE {b.queue : b \in {b \in Bindings : b.exchange = exchange}}

Init ==
    /\ payments = <<>>
    /\ publishing = [c \in Calls |-> NoEvent]
    /\ sent = [e \in Event |-> 0]
    /\ lost = {}
    /\ queues = [q \in Queues |-> <<>>]

-----------------------------------------------------------------------------
CreatePayment(o) ==
    /\ Len(payments) < MaxPayments
    /\ payments' = Append(payments, [order |-> o, status |-> "pending"])
    /\ UNCHANGED <<publishing, sent, lost, queues>>

(* Move payment i on and leave its announcement to be published.            *)
Move(c, i, from, to, key) ==
    /\ publishing[c] = NoEvent
    /\ payments[i].status = from
    /\ payments' = [payments EXCEPT ![i].status = to]
    /\ publishing' = [publishing EXCEPT ![c] = [key |-> key, payment |-> i]]
    /\ UNCHANGED <<sent, lost, queues>>

(* Mutations: the status is not looked at (AnnouncedOnce); no event         *)
(* (NothingUnannounced).                                                    *)
ProcessAnyPayment(c, i) == Move(c, i, payments[i].status, "success", "payment.success")

ProcessSilently(c, i) ==
    /\ payments[i].status = "pending"
    /\ payments' = [payments EXCEPT ![i].status = "success"]
    /\ UNCHANGED <<publishing, sent, lost, queues>>

ProcessPayment(c, i) == Move(c, i, "pending", "success", "payment.success")

(* Mutation: the row gets the order service's word for it (TypeOK).         *)
RefundAsOrder(c, i) == Move(c, i, "success", "refunding", "payment.refunded")

RefundPayment(c, i) == Move(c, i, "success", "refunded", "payment.refunded")

publishPaymentEvent(c) ==
    /\ publishing[c] # NoEvent
    /\ sent' = [sent EXCEPT ![publishing[c]] = @ + 1]
    /\ queues' = [q \in Queues |->
                    IF q \in Routed("", publishing[c].key)
                      THEN Append(queues[q], publishing[c]) ELSE queues[q]]
    /\ publishing' = [publishing EXCEPT ![c] = NoEvent]
    /\ UNCHANGED <<payments, lost>>

(* The process stops after the commit, or the publish fails and is logged.  *)
LoseEvent(c) ==
    /\ publishing[c] # NoEvent
    /\ lost' = lost \cup {publishing[c]}
    /\ publishing' = [publishing EXCEPT ![c] = NoEvent]
    /\ UNCHANGED <<payments, sent, queues>>

Next ==
    \/ \E o \in Orders : CreatePayment(o)
    \/ \E c \in Calls, i \in DOMAIN payments : ProcessPayment(c, i) \/ RefundPayment(c, i)
    \/ \E c \in Calls : publishPaymentEvent(c) \/ LoseEvent(c)

Spec == Init /\ [][Next]_vars

FairSpec == Spec /\ \A c \in Calls : WF_vars(publishPaymentEvent(c))

-----------------------------------------------------------------------------
(* Properties.                                                              *)

(* The statuses a payment has been in, by the event that announces them.    *)
Reached(e) ==
    e.payment \in DOMAIN payments /\
    payments[e.payment].status \in
        (IF e.key = "payment.success" THEN {"success", "refunded"} ELSE {"refunded"})

InFlight(e) == {c \in Calls : publishing[c] = e}

(* The types of the table, the calls and the broker.                        *)
TypeOK ==
    /\ payments \in Seq([order: Orders, status: {"pending", "success", "refunded"}])
    /\ Len(payments) <= MaxPayments
    /\ publishing \in [Calls -> Event \cup {NoEvent}]
    /\ sent \in [Event -> Nat]
    /\ lost \subseteq Event
    /\ queues \in [Queues -> Seq(Event)]

(* However many callers process or refund a payment at once, and again      *)
(* after an error, each event goes out at most once and never before the    *)
(* row says so: the consumer could not tell a second one from a payment.    *)
AnnouncedOnce ==
    \A e \in Event :
        /\ sent[e] <= 1
        /\ sent[e] = 1 => Reached(e) /\ InFlight(e) = {} /\ e \notin lost

(* What has happened to a payment is announced or about to be, unless a     *)
(* crash or the broker lost it after the commit: nothing else drops it.     *)
NothingUnannounced ==
    \A e \in Event : Reached(e) => sent[e] = 1 \/ InFlight(e) # {} \/ e \in lost

(* A successful payment is made known to the order service, unless its      *)
(* event is lost before it is published.                                    *)
PaymentReachesOrder ==
    \A i \in Ids :
        (i \in DOMAIN payments /\ payments[i].status = "success") ~>
            \/ [key |-> "payment.success", payment |-> i] \in lost
            \/ \E k \in DOMAIN queues["order.payment.success"] :
                 queues["order.payment.success"][k] = [key |-> "payment.success", payment |-> i]
=============================================================================
