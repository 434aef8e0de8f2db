--------------------------- MODULE PaymentWebhook ---------------------------
(***************************************************************************)
(* services/payment/webhook.py: stripe_webhook and _persist_order.  Each   *)
(* of the two inserts opens a connection and commits by itself.  The       *)
(* sender (external) delivers an event again until it is acknowledged, and *)
(* may deliver it more than once; replicas of the service may handle two   *)
(* deliveries of one event at the same time.                               *)
(***************************************************************************)
EXTENDS Naturals, FiniteSets

CONSTANTS
    Orders,         \* payment_intent.succeeded events with their metadata
    Incomplete,     \* ... with campaign_id, click_id or id missing
    Others,         \* events of another type
    Handlers,       \* requests being handled
    NoEvent,        \* what an idle handler handles
    MaxDeliveries   \* bound: deliveries of each event

Events == Orders \cup Incomplete \cup Others

Steps == {"event", "order", "ok"}

ASSUME WebhookAssumption ==
    /\ IsFiniteSet(Handlers)
    /\ NoEvent \notin [event : Events, next : Steps]
    /\ MaxDeliveries \in Nat

VARIABLES
    handlers,       \* the event each request has yet to write, and what is next
    events,         \* table payment_events
    orders,         \* table orders: how many rows each event made
    acked,          \* events answered {"ok": true}
    deliveries      \* deliveries of each event so far

webhookVars == <<handlers, events, orders, acked, deliveries>>

WebhookTypeOK ==
    /\ handlers \in [Handlers -> [event : Orders, next : Steps] \cup {NoEvent}]
    /\ events \subseteq Events
    /\ orders \in [Events -> 0..MaxDeliveries]
    /\ acked \subseteq Events
    /\ deliveries \in [Events -> 0..MaxDeliveries]

WebhookInit ==
    /\ handlers = [h \in Handlers |-> NoEvent]
    /\ events = {} /\ acked = {}
    /\ orders = [e \in Events |-> 0] /\ deliveries = [e \in Events |-> 0]

Delivered(e) ==
    /\ deliveries[e] < MaxDeliveries
    /\ deliveries' = [deliveries EXCEPT ![e] = @ + 1]

Proceed(h, e, next) == handlers' = [handlers EXCEPT ![h] = [event |-> e, next |-> next]]

(* Another type is acknowledged unread.                                    *)
Ignore(e) ==
    /\ e \in Others /\ Delivered(e)
    /\ acked' = acked \cup {e}
    /\ UNCHANGED <<handlers, events, orders>>

IgnoreIncomplete(e) == \* variant: what is missing is logged and acknowledged
    /\ e \in Incomplete /\ Delivered(e)
    /\ acked' = acked \cup {e}
    /\ UNCHANGED <<handlers, events, orders>>

(* 422: the sender will deliver it again.                                  *)
Refuse(e) ==
    /\ e \in Incomplete /\ Delivered(e)
    /\ UNCHANGED <<handlers, events, orders, acked>>

AcceptUnchecked(h, e) == \* variant: the metadata is not checked
    /\ e \in Orders \cup Incomplete /\ handlers[h] = NoEvent
    /\ Delivered(e)
    /\ Proceed(h, e, "event")
    /\ UNCHANGED <<events, orders, acked>>

Accept(h, e) ==
    /\ e \in Orders /\ handlers[h] = NoEvent
    /\ Delivered(e)
    /\ Proceed(h, e, "event")
    /\ UNCHANGED <<events, orders, acked>>

At(h, e, next) == handlers[h] = [event |-> e, next |-> next]

InsertEventRetried(h, e) == \* variant: the order is inserted on every attempt
    /\ At(h, e, "event")
    /\ events' = events \cup {e}
    /\ orders' = [orders EXCEPT ![e] = @ + 1]
    /\ Proceed(h, e, "order")
    /\ UNCHANGED <<acked, deliveries>>

InsertEventUncommitted(h, e) == \* variant: no commit for it
    /\ At(h, e, "event")
    /\ Proceed(h, e, "order")
    /\ UNCHANGED <<events, orders, acked, deliveries>>

(* INSERT ... ON CONFLICT (event_id) DO NOTHING.                           *)
InsertEvent(h, e) ==
    /\ At(h, e, "event")
    /\ events' = events \cup {e}
    /\ Proceed(h, e, "order")
    /\ UNCHANGED <<orders, acked, deliveries>>

(* The order goes in whether or not the event was new.                     *)
InsertOrder(h, e) ==
    /\ At(h, e, "order")
    /\ orders' = [orders EXCEPT ![e] = @ + 1]
    /\ Proceed(h, e, "ok")
    /\ UNCHANGED <<events, acked, deliveries>>

Acknowledge(h, e) ==
    /\ At(h, e, "ok")
    /\ acked' = acked \cup {e}
    /\ handlers' = [handlers EXCEPT ![h] = NoEvent]
    /\ UNCHANGED <<events, orders, deliveries>>

(* An insert raises (500), the process crashes, or the answer is lost.     *)
Fail(h) ==
    /\ handlers[h] # NoEvent
    /\ handlers' = [handlers EXCEPT ![h] = NoEvent]
    /\ UNCHANGED <<events, orders, acked, deliveries>>

WebhookNext ==
    \/ \E e \in Events : Ignore(e) \/ Refuse(e)
    \/ \E h \in Handlers : Fail(h) \/ \E e \in Events :
          Accept(h, e) \/ InsertEvent(h, e) \/ InsertOrder(h, e) \/ Acknowledge(h, e)

WebhookSpec == WebhookInit /\ [][WebhookNext]_webhookVars

-----------------------------------------------------------------------------
(* An acknowledged payment is in the orders table, whatever failed before, *)
(* and an event that cannot be recorded is never acknowledged: the sender  *)
(* stops delivering only what was recorded.                                *)
AckedIsRecorded ==
    \A e \in acked : e \in Others \/ (e \in Orders /\ orders[e] > 0)

(* An order can be traced to its payment event.                            *)
OrderTraceable == \A e \in Events : orders[e] > 0 => e \in events

(* One delivery makes at most one order: the rows and the deliveries that  *)
(* may still make one never outnumber the deliveries.                      *)
OrdersWithinDeliveries ==
    \A e \in Events : orders[e] <= deliveries[e]

(* What the sender, the tables and their keys may rely on after any crash. *)
WebhookInv == WebhookTypeOK /\ AckedIsRecorded /\ OrderTraceable /\ OrdersWithinDeliveries

(* docs/operations/enterprise-production-maturity-roadmap.md:54 asks for   *)
(* idempotency keys on webhook ingestion; event_id is recorded, and the    *)
(* order is inserted on every delivery all the same.                       *)
OneOrderPerEvent == \A e \in Events : orders[e] <= 1
=============================================================================
