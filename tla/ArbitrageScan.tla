---------------------------- MODULE ArbitrageScan ----------------------------
(***************************************************************************)
(* The price comparison of arbitrage-engine: commissions arrive one by one *)
(* (ingest) or as a snapshot of a network (sync), each stored in its own   *)
(* transaction.  Both handlers run on threads: any number of them may be   *)
(* under way, of one commission or of several.  A scan reads the products  *)
(* once, looks the commission of each pair up by itself, and stores what   *)
(* is profitable.                                                          *)
(***************************************************************************)
EXTENDS Integers, FiniteSets, FiniteSetsExt

CONSTANTS
    Products,       \* that crawlers may store: [id, name, source, price]
    Reported,       \* products, as [source, id], a commission is ever reported for
    Rates, Whole,   \* commissions that are reported, in parts of Whole
    MinProfit,
    Requests,       \* threads that ingest and sync
    MaxTime,        \* bound: moments told apart
    None

Keys == {[source |-> p.source, id |-> p.id] : p \in Products}
Networks == {k.source : k \in Reported}

ArbitrageAssumption ==
    /\ Reported \subseteq Keys
    /\ Whole \in Nat \ {0} /\ Rates \subseteq 0..Whole /\ MinProfit \in Nat /\ MaxTime \in Nat
    /\ \A p \in Products : p.price \in Nat

VARIABLES
    products,       \* table products
    payouts,        \* table affiliate_product_payouts: [rate, at]
    events,         \* table arbitrage_events, a row stored again being the same member
    now,
    reports,        \* what each request has still to store: [rate of each key left, at,
                    \* met: its keys that another request held meanwhile (history)]
    scan,           \* a scan: pairs to look at, opportunities found
    newest,         \* history: the latest time a commission of each key was stored with
    raced,          \* history: keys last stored by a request that had met another of the same key
    mixed           \* history: a commission or product was stored during the scan

payoutVars == <<payouts, reports, newest, raced>>
vars == <<products, events, now, scan, mixed, payoutVars>>

Pairs(stored) ==
    {pair \in stored \X stored :
        pair[1].name = pair[2].name /\ pair[1].source # pair[2].source /\ pair[1].id # pair[2].id}

KeyOf(p) == [source |-> p.source, id |-> p.id]
Profit(pair, rate) == pair[2].price * rate - Whole * pair[1].price
Opportunity == [pair : Pairs(Products), rate : Rates]
NoScan == [step |-> "idle", from |-> {}, left |-> {}, found |-> {}, limit |-> 0]

TypeOK ==
    /\ products \subseteq Products /\ events \subseteq Opportunity /\ now \in 0..MaxTime
    /\ payouts \in [Keys -> [rate : Rates, at : 0..MaxTime] \cup {None}]
    /\ DOMAIN reports = Requests
    /\ \A w \in Requests : reports[w] = None \/
         /\ DOMAIN reports[w].rate \in SUBSET Keys \ {{}} /\ reports[w].met \subseteq Keys
         /\ reports[w].at \in 0..MaxTime
    /\ scan.step \in {"idle", "detect", "insert"} /\ scan.found \subseteq Opportunity
    /\ newest \in [Keys -> 0..MaxTime] /\ raced \subseteq Keys /\ mixed \in BOOLEAN

Init ==
    /\ products = {} /\ payouts = [k \in Keys |-> None] /\ events = {} /\ now = 0
    /\ reports = [w \in Requests |-> None] /\ scan = NoScan
    /\ newest = [k \in Keys |-> 0] /\ raced = {} /\ mixed = FALSE

-----------------------------------------------------------------------------
(* Commissions.  fetched_at is the moment the record is built, before the  *)
(* transaction that stores it.                                             *)
Held(w) == IF reports[w] = None THEN {} ELSE DOMAIN reports[w].rate

Upsert(key, rate, at) ==
    /\ payouts' = [payouts EXCEPT ![key] = [rate |-> rate, at |-> at]]
    /\ newest' = [newest EXCEPT ![key] = Max({@, at})]
    /\ mixed' = TRUE

(* A request has the commissions of some keys and their time: each request *)
(* under way with one of these keys, and it, have met.                     *)
Report(w, rates, at) ==
    /\ reports[w] = None
    /\ reports' = [v \in Requests |->
         IF v = w THEN [rate |-> rates, at |-> at, met |-> DOMAIN rates \cap UNION {Held(u) : u \in Requests}]
         ELSE IF reports[v] = None THEN None
         ELSE [reports[v] EXCEPT !.met = @ \cup (Held(v) \cap DOMAIN rates)]]
    /\ UNCHANGED <<products, events, now, scan, mixed, payouts, newest, raced>>

Ingest(w, key, rate) == Report(w, [k \in {key} |-> rate], now)

(* POST /affiliate/sync: the network's whole list is fetched and built, or *)
(* nothing is.                                                             *)
SyncStampedEarly(w, network, rate) == \* variant: the time is that of the request, not of the answer
    Report(w, [k \in {r \in Reported : r.source = network} |-> rate], IF now = 0 THEN 0 ELSE now - 1)

Sync(w, network, rate) ==
    Report(w, [k \in {r \in Reported : r.source = network} |-> rate], now)

(* Commissions are stored one by one; one that fails ends the rest.        *)
StoreOne(w) ==
    \E k \in Held(w) :
      /\ Upsert(k, reports[w].rate[k], reports[w].at)
      /\ raced' = IF k \in reports[w].met THEN raced \cup {k} ELSE raced \ {k}
      /\ LET left == Held(w) \ {k}
         IN reports' = [reports EXCEPT ![w] = IF left = {} THEN None
                                              ELSE [@ EXCEPT !.rate = [l \in left |-> reports[w].rate[l]]]]
      /\ UNCHANGED <<products, events, now, scan>>

StoreFails(w) ==
    /\ reports[w] # None /\ reports' = [reports EXCEPT ![w] = None]
    /\ UNCHANGED <<products, events, now, scan, mixed, payouts, newest, raced>>

-----------------------------------------------------------------------------
(* A scan, of the worker (no limit) or of POST /arbitrage/scan.            *)
StartScan(limit) ==
    /\ scan.step = "idle"
    /\ scan' = [step |-> "detect", from |-> products, left |-> Pairs(products), found |-> {}, limit |-> limit]
    /\ mixed' = FALSE
    /\ UNCHANGED <<products, events, now, payoutVars>>

PaidByBuy(pair) == payouts[KeyOf(pair[1])] \* variant: the commission of the wrong side

PaidBy(pair) == payouts[KeyOf(pair[2])]

Viable(pair) == PaidBy(pair) # None /\ Profit(pair, PaidBy(pair).rate) > Whole * MinProfit

LookUp ==
    /\ scan.step = "detect" /\ scan.left # {}
    /\ \E pair \in scan.left :
         scan' = [scan EXCEPT !.left = @ \ {pair},
                              !.found = IF Viable(pair) THEN @ \cup {[pair |-> pair, rate |-> PaidBy(pair).rate]} ELSE @]
    /\ UNCHANGED <<products, events, now, mixed, payoutVars>>

(* The opportunities are cut to the best, and stored one by one.           *)
Best(found, limit) ==
    CHOOSE s \in kSubset(Min({limit, Cardinality(found)}), found) :
        \A in \in s, out \in found \ s : Profit(in.pair, in.rate) >= Profit(out.pair, out.rate)

Select ==
    /\ scan.step = "detect" /\ scan.left = {}
    /\ scan' = [scan EXCEPT !.step = "insert", !.found = IF scan.limit = 0 THEN @ ELSE Best(@, scan.limit)]
    /\ UNCHANGED <<products, events, now, mixed, payoutVars>>

Insert ==
    /\ scan.step = "insert"
    /\ \E o \in scan.found : events' = events \cup {o} /\ scan' = [scan EXCEPT !.found = @ \ {o}]
    /\ UNCHANGED <<products, now, mixed, payoutVars>>

(* All is stored, or an insert failed.                                     *)
EndScan ==
    /\ scan.step = "insert" /\ scan' = NoScan
    /\ UNCHANGED <<products, events, now, mixed, payoutVars>>

(* Crawlers store products, time passes.                                   *)
Crawl(p) ==
    /\ products' = products \cup {p} /\ mixed' = TRUE
    /\ UNCHANGED <<events, now, scan, payoutVars>>

Tick ==
    /\ now < MaxTime /\ now' = now + 1
    /\ UNCHANGED <<products, events, scan, mixed, payoutVars>>

Next ==
    \/ \E w \in Requests :
         \/ \E k \in Reported, rate \in Rates : Ingest(w, k, rate)
         \/ \E n \in Networks, rate \in Rates : Sync(w, n, rate)
         \/ StoreOne(w) \/ StoreFails(w)
    \/ \E limit \in 0..1 : StartScan(limit)
    \/ LookUp \/ Select \/ Insert \/ EndScan \/ Tick
    \/ \E p \in Products : Crawl(p)

Spec == Init /\ [][Next]_vars

-----------------------------------------------------------------------------
(* What is stored of a commission is the latest that was reported, unless  *)
(* the request that stored it last, an ingest or a sync, met another of    *)
(* the same commission: of two that overlap, the one that got its time     *)
(* first may store last.                                                   *)
FreshUnlessRaced == \A k \in Keys \ raced : payouts[k] # None => payouts[k].at = newest[k]

(* The opportunities a scan found are those a look at the whole table      *)
(* would find now, unless a commission was stored since it began: then it  *)
(* may have seen some commissions of before and some of after.             *)
FoundIsViable ==
    scan.step = "detect" /\ ~mixed =>
      \A buy, sell \in products : \A rate \in Rates :
        [pair |-> <<buy, sell>>, rate |-> rate] \in scan.found
          <=> /\ buy.name = sell.name /\ buy.source # sell.source /\ buy.id # sell.id
              /\ <<buy, sell>> \notin scan.left
              /\ payouts[KeyOf(sell)] # None /\ payouts[KeyOf(sell)].rate = rate
              /\ sell.price * rate > Whole * (buy.price + MinProfit)

(* What the scans and the report of commissions may rely on.               *)
ArbitrageInv == FreshUnlessRaced /\ FoundIsViable
=============================================================================
