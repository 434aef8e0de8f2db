------------------------------ MODULE OrderBook ------------------------------
(***************************************************************************)
(* The exchange: POST /order adds the order to one of two heaps and        *)
(* matches the heads of both while they cross.  Handlers run on threads    *)
(* and the book has no lock: a matcher may be interrupted where it calls   *)
(* something, after it has read the heads and after each pop.              *)
(***************************************************************************)
EXTENDS Integers, FiniteSets, Sequences, SequencesExt, FiniteSetsExt

CONSTANTS
    Threads,
    Offers,         \* the orders that are sent: [side, price, qty]
    NumOrders       \* bound: orders added, numbered in their order

BookAssumption ==
    Offers \subseteq [side : {"buy", "sell"}, price : Nat \ {0}, qty : Nat \ {0}] /\ NumOrders \in Nat

VARIABLES
    orders,         \* every order that was added: [side, price, qty], qty being what is left of it
    buys, sells,    \* the heaps, as sets of orders
    thread,         \* each handler: where it is, and the heads and quantity it read
    traded,         \* the quantity of each order in trades that were returned
    asked,          \* history: the quantity each order was placed with
    overlapped      \* history: a request began while another was at the book

bookVars == <<orders, buys, sells, traded, asked>>
vars == <<bookVars, thread, overlapped>>

Ids == DOMAIN orders
Idle == [step |-> "idle", buy |-> 0, sell |-> 0, qty |-> 0]

TypeOK ==
    /\ \A i \in Ids : orders[i].side \in {"buy", "sell"} /\ orders[i].price \in Nat /\ orders[i].qty \in Int
    /\ buys \subseteq Ids /\ sells \subseteq Ids /\ asked \in Seq(Nat)
    /\ thread \in [Threads -> [step : {"idle", "look", "trade", "popBuy", "popSell"},
                               buy : 0..NumOrders, sell : 0..NumOrders, qty : Int]]
    /\ DOMAIN traded = Ids /\ \A i \in Ids : traded[i] \in Int
    /\ overlapped \in BOOLEAN

Init ==
    /\ orders = <<>> /\ buys = {} /\ sells = {} /\ traded = <<>> /\ asked = <<>>
    /\ thread = [t \in Threads |-> Idle] /\ overlapped = FALSE

-----------------------------------------------------------------------------
(* The head of each heap: the best price, and the oldest at that price.    *)
DearestFirst(i, k) == orders[i].price > orders[k].price \/ (orders[i].price = orders[k].price /\ i <= k)
CheapestFirst(i, k) == orders[i].price < orders[k].price \/ (orders[i].price = orders[k].price /\ i <= k)

BestBuy == CHOOSE i \in buys : \A k \in buys : DearestFirst(i, k)
BestSellDearest == CHOOSE i \in sells : \A k \in sells : DearestFirst(i, k) \* variant: ordered as the buys are
BestSell == CHOOSE i \in sells : \A k \in sells : CheapestFirst(i, k)

(* A request that was accepted.                                            *)
Place(t, offer) ==
    /\ thread[t].step = "idle" /\ Len(orders) < NumOrders
    /\ orders' = Append(orders, offer)
    /\ asked' = Append(asked, offer.qty)
    /\ buys' = IF offer.side = "buy" THEN buys \cup {Len(orders')} ELSE buys
    /\ sells' = IF offer.side = "sell" THEN sells \cup {Len(orders')} ELSE sells
    /\ thread' = [thread EXCEPT ![t].step = "look"]
    /\ overlapped' = (overlapped \/ \E o \in Threads : thread[o].step # "idle")
    /\ traded' = Append(traded, 0)

Goes(t, step) == thread' = [thread EXCEPT ![t].step = step]

(* One turn of match: the heads are read and compared, ...                 *)
Crossed == buys # {} /\ sells # {} /\ orders[BestBuy].price >= orders[BestSell].price

Look(t) ==
    /\ thread[t].step = "look" /\ Crossed
    /\ thread' = [thread EXCEPT ![t] = [step |-> "trade", buy |-> BestBuy, sell |-> BestSell,
                                        qty |-> Min({orders[BestBuy].qty, orders[BestSell].qty})]]
    /\ UNCHANGED <<bookVars, overlapped>>

Return(t) ==
    /\ thread[t].step = "look" /\ ~Crossed
    /\ thread' = [thread EXCEPT ![t] = Idle]
    /\ UNCHANGED <<bookVars, overlapped>>

(* ... the trade is made of what was read, ...                             *)
TradeBuyOnly(t) == \* variant: what the seller has left is not reduced
    LET m == thread[t]
    IN /\ m.step = "trade"
       /\ traded' = [traded EXCEPT ![m.buy] = @ + m.qty, ![m.sell] = @ + m.qty]
       /\ orders' = [orders EXCEPT ![m.buy].qty = @ - m.qty]
       /\ Goes(t, "popBuy")
       /\ UNCHANGED <<buys, sells, asked, overlapped>>

Trade(t) ==
    LET m == thread[t]
    IN /\ m.step = "trade"
       /\ traded' = [i \in Ids |-> IF i \in {m.buy, m.sell} THEN traded[i] + m.qty ELSE traded[i]]
       /\ orders' = [i \in Ids |-> IF i \in {m.buy, m.sell} THEN [orders[i] EXCEPT !.qty = @ - m.qty] ELSE orders[i]]
       /\ Goes(t, "popBuy")
       /\ UNCHANGED <<buys, sells, asked, overlapped>>

(* ... and what has nothing left is popped: the head, whatever it is by    *)
(* now.  A pop from an empty heap raises.                                  *)
PopBuy(t) ==
    /\ thread[t].step = "popBuy"
    /\ \/ orders[thread[t].buy].qty # 0 /\ Goes(t, "popSell") /\ UNCHANGED buys
       \/ orders[thread[t].buy].qty = 0 /\ buys # {} /\ buys' = buys \ {BestBuy} /\ Goes(t, "popSell")
       \/ orders[thread[t].buy].qty = 0 /\ buys = {} /\ thread' = [thread EXCEPT ![t] = Idle] /\ UNCHANGED buys
    /\ UNCHANGED <<orders, sells, traded, asked, overlapped>>

PopSell(t) ==
    /\ thread[t].step = "popSell"
    /\ \/ orders[thread[t].sell].qty # 0 /\ Goes(t, "look") /\ UNCHANGED sells
       \/ orders[thread[t].sell].qty = 0 /\ sells # {} /\ sells' = sells \ {BestSell} /\ Goes(t, "look")
       \/ orders[thread[t].sell].qty = 0 /\ sells = {} /\ thread' = [thread EXCEPT ![t] = Idle] /\ UNCHANGED sells
    /\ UNCHANGED <<orders, buys, traded, asked, overlapped>>

Next ==
    \E t \in Threads :
         \/ \E offer \in Offers : Place(t, offer)
         \/ Look(t) \/ Return(t) \/ Trade(t) \/ PopBuy(t) \/ PopSell(t)

Spec == Init /\ [][Next]_vars

-----------------------------------------------------------------------------
(* A trade is made at the seller's price, which is never more than the     *)
(* buyer's, whatever ran together.                                         *)
TradesWithinLimits ==
    \A t \in Threads : thread[t].step = "trade" =>
      LET buy == orders[thread[t].buy]
          sell == orders[thread[t].sell]
      IN buy.side = "buy" /\ sell.side = "sell" /\ sell.price <= buy.price

(* While requests follow each other, what is left of an order and what was *)
(* traded of it is what was asked; between requests the book holds exactly *)
(* the orders with something left, and its heads do not cross.  Requests   *)
(* that overlap may sell one order twice and pop an order unfilled.        *)
BookSettled ==
    ~overlapped =>
      /\ \A i \in Ids : orders[i].qty + traded[i] = asked[i] /\ orders[i].qty >= 0
      /\ (\A t \in Threads : thread[t].step = "idle") =>
           ~Crossed /\ buys \cup sells = {i \in Ids : orders[i].qty > 0}

(* At the moment of a trade nobody else should have had it: no other order *)
(* in the book has a better price, or the same price and an older place.   *)
BestFirst ==
    ~overlapped =>
      \A t \in Threads : thread[t].step = "trade" =>
        /\ \A b \in buys : orders[b].price <= orders[thread[t].buy].price
                           /\ (orders[b].price = orders[thread[t].buy].price => b >= thread[t].buy)
        /\ \A s \in sells : orders[s].price >= orders[thread[t].sell].price
                            /\ (orders[s].price = orders[thread[t].sell].price => s >= thread[t].sell)

(* What a trader may rely on.                                              *)
ExchangeInv == TradesWithinLimits /\ BookSettled /\ BestFirst
=============================================================================
