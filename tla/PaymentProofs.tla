--------------------------- MODULE PaymentProofs ---------------------------
(* Theorems about PaymentGateway, for any number of checkouts, any number  *)
(* of attempts, any threshold and cooldown, and about PaymentWebhook, for  *)
(* any events, any number of requests being handled and of deliveries.     *)
EXTENDS PaymentGateway, PaymentWebhook, FiniteSetTheorems, TLAPS

USE GatewayAssumption

(* The posts of a checkout that ended in fail(), or are about to.          *)
Failed(c) ==
    IF (calls[c].pc \in Changing \cup {"sleeping"} /\ calls[c].taken = 0) \/ answers[c] = "failed"
    THEN calls[c].attempts + 1 ELSE calls[c].attempts

(* Where a checkout stands: it makes no more than Retries attempts, none   *)
(* before the circuit admitted it, is answered when it is done, and an     *)
(* answer the provider gave in vain is the answer of a failed post.        *)
SendSound(c) ==
    /\ calls[c].pc \in {"new"} \cup Asking => calls[c].attempts = 0
    /\ calls[c].attempts < Retries
    /\ calls[c].pc = "done" <=> answers[c] # "none"
    /\ calls[c].taken = 1 => calls[c].pc \in {"resetting", "clearing"} \/ answers[c] = "success"
    /\ answers[c] = "circuit_open" => calls[c].attempts = 0
    /\ unseen[c] <= Failed(c)

(* What a checkout in fail() knows of the failures counted so far.         *)
FailSound(c) ==
    /\ calls[c].pc = "counting" => calls[c].held <= failures
    /\ calls[c].pc = "opening" => failures >= MaxFailures

(* As long as none crossed another, one is in success() or fail() at most, *)
(* and what it read of FAILS still is so.                                  *)
AloneSound ==
    ~crossed =>
        \A c \in Checkouts :
            /\ calls[c].pc = "counting" => calls[c].held = fails
            /\ calls[c].pc = "opening" => fails >= MaxFailures
            /\ \A d \in Checkouts : calls[c].pc \in Changing /\ calls[d].pc \in Changing => c = d

IInv ==
    /\ GatewayInv /\ AloneSound
    /\ \A c \in Checkouts : SendSound(c) /\ FailSound(c)

LEMMA InvInit == Init => IInv
<1> SUFFICES ASSUME Init PROVE IInv
  OBVIOUS
<1>1. TypeOK
  <2>1. 0 \in 0..MaxTime /\ 0 \in 0..Retries /\ 0 \in Nat
    OBVIOUS
  <2>2. [pc |-> "new", seen |-> 0, held |-> 0, attempts |-> 0, taken |-> 0] \in Call
    BY <2>1 DEF Call
  <2>3. calls \in [Checkouts -> Call]
    BY <2>2 DEF Init
  <2> QED
    BY <2>1, <2>3 DEF Init, TypeOK
<1>2. \A c \in Checkouts : SendSound(c) /\ FailSound(c)
  BY DEF Init, SendSound, FailSound, Failed, Asking, Changing
<1>3. AloneSound
  BY DEF Init, AloneSound, Changing
<1> QED
  BY <1>1, <1>2, <1>3 DEF Init, IInv, GatewayInv, OpenOnlyAfterFailures, OpeningEarned, ChargesAccounted

(* A checkout's step changes the place of its record, and one field more   *)
(* at most; the records of the others stay.                                *)
Place == {"new", "posting", "sleeping", "done"} \cup Asking \cup Changing

Becomes(c, p) ==
    /\ calls' \in [Checkouts -> Call] /\ calls'[c].pc = p
    /\ \A d \in Checkouts \ {c} : calls'[d] = calls[d]

Keeps(c) == calls'[c].attempts = calls[c].attempts /\ calls'[c].taken = calls[c].taken /\ calls'[c].held = calls[c].held

LEMMA RecordStep ==
    ASSUME TypeOK, NEW c \in Checkouts, NEW r \in Call, calls' = [calls EXCEPT ![c] = r]
    PROVE  Becomes(c, r.pc) /\ calls'[c] = r
BY DEF TypeOK, Becomes

LEMMA MovesStep ==
    ASSUME TypeOK, NEW c \in Checkouts, NEW p, NEW q \in Place, Moves(c, p, q)
    PROVE  Becomes(c, q) /\ Keeps(c) /\ calls[c].pc = p
<1>1. calls[c] \in Call
  BY DEF TypeOK
<1> DEFINE r == [calls[c] EXCEPT !.pc = q]
<1>2. r \in Call /\ r.pc = q /\ r.attempts = calls[c].attempts /\ r.taken = calls[c].taken /\ r.held = calls[c].held
  BY <1>1 DEF Call, Place
<1>3. calls' = [calls EXCEPT ![c] = r] /\ calls[c].pc = p
  BY DEF Moves
<1> HIDE DEF r
<1> QED
  BY <1>2, <1>3, RecordStep DEF Keeps

LEMMA TimedStep ==
    ASSUME TypeOK, NEW c \in Checkouts, NEW q \in Place, calls' = [calls EXCEPT ![c].pc = q, ![c].seen = now]
    PROVE  Becomes(c, q) /\ Keeps(c)
<1>1. calls[c] \in Call /\ now \in 0..MaxTime
  BY DEF TypeOK
<1> DEFINE r == [calls[c] EXCEPT !.pc = q, !.seen = now]
<1>2. r \in Call /\ r.pc = q /\ r.attempts = calls[c].attempts /\ r.taken = calls[c].taken /\ r.held = calls[c].held
  BY <1>1 DEF Call, Place
<1>3. calls' = [calls EXCEPT ![c] = r]
  BY DEF TypeOK
<1> HIDE DEF r
<1> QED
  BY <1>2, <1>3, RecordStep DEF Keeps

LEMMA HoldingStep ==
    ASSUME TypeOK, NEW c \in Checkouts, calls' = [calls EXCEPT ![c].pc = "counting", ![c].held = fails]
    PROVE  /\ Becomes(c, "counting") /\ calls'[c].held = fails
           /\ calls'[c].attempts = calls[c].attempts /\ calls'[c].taken = calls[c].taken
<1>1. calls[c] \in Call /\ fails \in Nat
  BY DEF TypeOK
<1> DEFINE r == [calls[c] EXCEPT !.pc = "counting", !.held = fails]
<1>2. r \in Call /\ r.pc = "counting" /\ r.held = fails /\ r.attempts = calls[c].attempts /\ r.taken = calls[c].taken
  BY <1>1 DEF Call, Changing
<1>3. calls' = [calls EXCEPT ![c] = r]
  BY DEF TypeOK
<1> HIDE DEF r
<1> QED
  BY <1>2, <1>3, RecordStep

LEMMA AnsweredStep ==
    ASSUME TypeOK, NEW c \in Checkouts, calls' = [calls EXCEPT ![c].pc = "resetting", ![c].taken = 1]
    PROVE  Becomes(c, "resetting") /\ calls'[c].attempts = calls[c].attempts /\ calls'[c].taken = 1
<1>1. calls[c] \in Call /\ 1 \in 0..1
  BY DEF TypeOK
<1> DEFINE r == [calls[c] EXCEPT !.pc = "resetting", !.taken = 1]
<1>2. r \in Call /\ r.pc = "resetting" /\ r.taken = 1 /\ r.attempts = calls[c].attempts
  BY <1>1 DEF Call, Changing
<1>3. calls' = [calls EXCEPT ![c] = r]
  BY DEF TypeOK
<1> HIDE DEF r
<1> QED
  BY <1>2, <1>3, RecordStep

LEMMA RetryingStep ==
    ASSUME TypeOK, NEW c \in Checkouts, calls[c].attempts + 1 < Retries,
           calls' = [calls EXCEPT ![c].pc = "posting", ![c].attempts = @ + 1]
    PROVE  Becomes(c, "posting") /\ calls'[c].attempts = calls[c].attempts + 1 /\ calls'[c].taken = calls[c].taken
<1>1. calls[c] \in Call
  BY DEF TypeOK
<1> DEFINE r == [calls[c] EXCEPT !.pc = "posting", !.attempts = calls[c].attempts + 1]
<1>2. calls[c].attempts + 1 \in 0..Retries
  BY <1>1 DEF Call
<1>3. r \in Call /\ r.pc = "posting" /\ r.attempts = calls[c].attempts + 1 /\ r.taken = calls[c].taken
  BY <1>1, <1>2 DEF Call
<1>4. calls' = [calls EXCEPT ![c] = r]
  BY DEF TypeOK
<1> HIDE DEF r
<1> QED
  BY <1>3, <1>4, RecordStep

LEMMA Parts ==
    ASSUME IInv
    PROVE  /\ TypeOK /\ OpenOnlyAfterFailures /\ OpeningEarned /\ ChargesAccounted /\ AloneSound
           /\ \A d \in Checkouts : SendSound(d) /\ FailSound(d) /\ calls[d] \in Call
BY DEF IInv, GatewayInv, TypeOK

(* The parts about one checkout follow for all when they do for the one at *)
(* work, its answer and its charges change alone, and failures only grow.  *)
LEMMA OthersKept ==
    ASSUME IInv, NEW c \in Checkouts, NEW p, Becomes(c, p), TypeOK',
           SendSound(c)', FailSound(c)',
           charges'[c] = unseen'[c] + calls'[c].taken,
           answers'[c] = "success" => calls'[c].taken = 1,
           answers'[c] \in {"circuit_open", "failed"} => calls'[c].taken = 0,
           answers'[c] = "circuit_open" => charges'[c] = 0,
           \A d \in Checkouts \ {c} :
              answers'[d] = answers[d] /\ charges'[d] = charges[d] /\ unseen'[d] = unseen[d],
           failures' >= failures
    PROVE  (\A d \in Checkouts : SendSound(d)' /\ FailSound(d)') /\ ChargesAccounted'
<1>1. ASSUME NEW d \in Checkouts \ {c} PROVE SendSound(d)' /\ FailSound(d)'
  <2>1. calls'[d] = calls[d] /\ SendSound(d) /\ FailSound(d) /\ calls[d] \in Call /\ TypeOK
    BY Parts DEF Becomes
  <2>2. SendSound(d)'
    BY <2>1 DEF SendSound, Failed
  <2>3. FailSound(d)'
    BY <2>1 DEF FailSound, TypeOK, Call
  <2> QED
    BY <2>2, <2>3
<1>2. ChargesAccounted'
  BY Parts DEF ChargesAccounted, Becomes
<1> QED
  BY <1>1, <1>2

(* allow() writes OPEN only to close it, and counts nothing.               *)
LEMMA AllowStep ==
    ASSUME IInv, NEW c \in Checkouts, Allow(c) PROVE IInv'
<1>0. /\ TypeOK /\ OpenOnlyAfterFailures /\ OpeningEarned /\ ChargesAccounted /\ AloneSound
      /\ SendSound(c) /\ FailSound(c) /\ calls[c].taken \in 0..1
  BY Parts DEF Call
<1>1. PICK p \in Asking \cup {"posting", "done"} :
        /\ calls[c].pc \in {"new"} \cup Asking
        /\ Becomes(c, p) /\ Keeps(c)
        /\ IF p = "done" THEN answers' = [answers EXCEPT ![c] = "circuit_open"] ELSE answers' = answers
        /\ open' \in {open, FALSE}
        /\ UNCHANGED <<fails, lastFail, now, providerVars, historyVars>>
  <2>1. CASE Ask(c)
    BY <1>0, <2>1, TimedStep DEF Ask, Asking, Place, circuitVars
  <2>2. CASE ReadOpen(c) \/ CooledDown(c) \/ TestOpen(c) \/ Close(c)
    BY <1>0, <2>2, MovesStep DEF ReadOpen, CooledDown, TestOpen, Close, Asking, Place, circuitVars
  <2>3. CASE Shed(c)
    BY <1>0, <2>3, MovesStep DEF Shed, Answered, Asking, Place, circuitVars
  <2> QED
    BY <2>1, <2>2, <2>3 DEF Allow
<1>2. calls[c].attempts = 0 /\ answers[c] = "none" /\ calls[c].taken = 0 /\ unseen[c] = 0 /\ Retries > 0
  BY <1>0, <1>1 DEF SendSound, Failed, Asking, Changing, TypeOK
<1>3. TypeOK'
  BY <1>0, <1>1 DEF TypeOK, Becomes, providerVars, historyVars
<1>4. /\ calls'[c].pc = p /\ p \notin Changing /\ calls[c].pc \notin Changing
      /\ \A d \in Checkouts : d # c => calls'[d] = calls[d]
  BY <1>1 DEF Becomes, Asking, Changing
<1>5. \A d \in Checkouts : calls'[d].pc \in Changing => d # c /\ calls[d].pc \in Changing
  BY <1>4
<1>6. AloneSound' /\ OpeningEarned' /\ OpenOnlyAfterFailures'
  <2>1. AloneSound'
    BY <1>0, <1>1, <1>4, <1>5 DEF AloneSound, Changing, historyVars
  <2>2. \A d \in Checkouts : calls[d].pc = "clearing" => calls'[d].pc = "clearing"
    BY <1>4 DEF Changing
  <2>3. open' => open
    BY <1>1
  <2>6. crossed' = crossed /\ fails' = fails /\ failures' = failures
    BY <1>1 DEF historyVars
  <2>4. OpeningEarned'
    BY <1>0, <2>3, <2>6 DEF OpeningEarned
  <2>5. OpenOnlyAfterFailures'
    BY <1>0, <2>2, <2>3, <2>6 DEF OpenOnlyAfterFailures
  <2> QED
    BY <2>1, <2>4, <2>5
<1>7. SendSound(c)' /\ FailSound(c)'
  <2>1. /\ calls'[c].taken = 0 /\ calls'[c].attempts = 0 /\ unseen'[c] = 0
        /\ IF p = "done" THEN answers'[c] = "circuit_open" ELSE answers'[c] = "none"
    BY <1>0, <1>1, <1>2 DEF Keeps, TypeOK, providerVars
  <2>2. SendSound(c)'
    BY <1>2, <1>4, <2>1 DEF SendSound, Failed, Changing, Asking
  <2>3. FailSound(c)'
    BY <1>4 DEF FailSound, Changing
  <2> QED
    BY <2>2, <2>3
<1>8. /\ charges[c] = 0 /\ calls'[c].taken = calls[c].taken /\ unseen' = unseen /\ charges' = charges /\ failures' = failures
      /\ failures \in Nat /\ \A d \in Checkouts \ {c} : answers'[d] = answers[d]
      /\ answers'[c] \in {"none", "circuit_open"}
  BY <1>0, <1>1, <1>2 DEF ChargesAccounted, Keeps, TypeOK, providerVars, historyVars
<1> QED
  BY <1>1, <1>2, <1>3, <1>6, <1>7, <1>8, OthersKept DEF IInv, GatewayInv

(* A post ends; success() or fail() begins, maybe across another.          *)
LEMMA PostStep ==
    ASSUME IInv, NEW c \in Checkouts, Post(c) PROVE IInv'
<1>0. /\ TypeOK /\ OpenOnlyAfterFailures /\ OpeningEarned /\ ChargesAccounted /\ AloneSound
      /\ SendSound(c) /\ FailSound(c) /\ calls[c] \in Call
  BY Parts
<1>1. PICK p \in {"resetting", "failing"} :
        /\ calls[c].pc = "posting" /\ Becomes(c, p) /\ Crosses(c)
        /\ calls'[c].attempts = calls[c].attempts
        /\ \/ /\ calls'[c].taken = 1 /\ p = "resetting" /\ Charged(c) /\ unseen' = unseen
           \/ /\ calls'[c].taken = calls[c].taken
              /\ (Charged(c) /\ Unseen(c)) \/ UNCHANGED <<charges, unseen>>
        /\ UNCHANGED <<fails, open, lastFail, now, answers, failures>>
  <2>1. CASE PostSucceeds(c)
    BY <1>0, <2>1, AnsweredStep DEF PostSucceeds, circuitVars
  <2>2. CASE PostUnreadable(c) \/ PostRefused(c) \/ PostUnanswered(c)
    BY <1>0, <2>2, MovesStep DEF PostUnreadable, PostRefused, PostUnanswered, Keeps, Place, Changing,
       circuitVars, providerVars
  <2> QED
    BY <2>1, <2>2 DEF Post
<1>2. /\ answers[c] = "none" /\ calls[c].taken = 0 /\ unseen[c] <= calls[c].attempts
      /\ calls[c].attempts \in Nat /\ calls[c].attempts < Retries /\ charges[c] = unseen[c] /\ unseen[c] \in Nat
  BY <1>0, <1>1 DEF SendSound, Failed, Changing, ChargesAccounted, TypeOK, Call
<1>3. /\ calls'[c].pc = p /\ calls[c].pc \notin Changing
      /\ \A d \in Checkouts : d # c => calls'[d] = calls[d]
  BY <1>1 DEF Becomes, Changing
<1>4. /\ calls'[c].taken \in {0, 1} /\ (calls'[c].taken = 1 => p = "resetting") /\ answers'[c] = "none"
      /\ charges'[c] = unseen'[c] + calls'[c].taken
      /\ unseen'[c] \in unseen[c]..(unseen[c] + 1) /\ (calls'[c].taken = 1 => unseen'[c] = unseen[c])
      /\ \A d \in Checkouts \ {c} : charges'[d] = charges[d] /\ unseen'[d] = unseen[d]
  BY <1>0, <1>1, <1>2 DEF Charged, Unseen, TypeOK
<1>5. crossed' \in BOOLEAN /\ (crossed => crossed')
      /\ (~crossed' => \A d \in Checkouts : calls[d].pc \in Changing => d = c)
  BY <1>0, <1>1 DEF Crosses, Meets, TypeOK
<1>6. charges'[c] \in 0..Retries /\ unseen'[c] \in 0..Retries
  BY <1>2, <1>4
<1>7. TypeOK'
  <2>1. charges' \in [Checkouts -> 0..Retries]
    BY <1>0, <1>1, <1>6 DEF TypeOK, Charged
  <2>2. unseen' \in [Checkouts -> 0..Retries]
    BY <1>0, <1>1, <1>6 DEF TypeOK, Unseen
  <2> QED
    BY <1>0, <1>1, <1>5, <2>1, <2>2 DEF TypeOK, Becomes
<1>8. AloneSound' /\ OpeningEarned' /\ OpenOnlyAfterFailures'
  <2>1. AloneSound'
    BY <1>0, <1>1, <1>3, <1>5 DEF AloneSound, Changing
  <2>2. OpeningEarned'
    BY <1>0, <1>1 DEF OpeningEarned
  <2>3. \A d \in Checkouts : calls[d].pc = "clearing" => calls'[d].pc = "clearing"
    BY <1>3 DEF Changing
  <2>4. OpenOnlyAfterFailures'
    BY <1>0, <1>1, <1>5, <2>3 DEF OpenOnlyAfterFailures
  <2> QED
    BY <2>1, <2>2, <2>4
<1>9. SendSound(c)' /\ FailSound(c)'
  <2>1. unseen'[c] <= Failed(c)'
    <3>1. CASE calls'[c].taken = 0
      BY <1>1, <1>2, <1>3, <1>4, <3>1 DEF Failed, Changing
    <3>2. CASE calls'[c].taken = 1
      BY <1>1, <1>2, <1>3, <1>4, <3>2 DEF Failed
    <3> QED
      BY <1>4, <3>1, <3>2
  <2> QED
    BY <1>1, <1>2, <1>3, <1>4, <2>1 DEF SendSound, FailSound, Asking
<1> QED
  BY <1>0, <1>1, <1>4, <1>7, <1>8, <1>9, OthersKept DEF IInv, GatewayInv, TypeOK

(* What is the same in every step but those of a post: the charges, ...    *)
LEMMA Unposted ==
    ASSUME IInv, NEW c \in Checkouts, NEW p, Becomes(c, p), TypeOK', AloneSound',
           OpeningEarned', OpenOnlyAfterFailures', SendSound(c)', FailSound(c)',
           calls'[c].taken = calls[c].taken, UNCHANGED providerVars, failures' >= failures,
           \/ answers' = answers /\ calls[c].taken \in 0..1
           \/ answers' = [answers EXCEPT ![c] = "success"] /\ calls[c].taken = 1
           \/ answers' = [answers EXCEPT ![c] = "failed"] /\ calls[c].taken = 0
    PROVE  IInv'
<1>0. TypeOK /\ ChargesAccounted
  BY Parts
<1>1. /\ charges' = charges /\ unseen' = unseen
      /\ \A d \in Checkouts \ {c} : answers'[d] = answers[d]
      /\ charges'[c] = unseen'[c] + calls'[c].taken
      /\ answers'[c] = "success" => calls'[c].taken = 1
      /\ answers'[c] \in {"circuit_open", "failed"} => calls'[c].taken = 0
      /\ answers'[c] = "circuit_open" => charges'[c] = 0
  BY <1>0 DEF providerVars, ChargesAccounted, TypeOK
<1> QED
  BY <1>1, OthersKept DEF IInv, GatewayInv

LEMMA SucceedStep ==
    ASSUME IInv, NEW c \in Checkouts, Succeeds(c) PROVE IInv'
<1>0. /\ TypeOK /\ OpenOnlyAfterFailures /\ OpeningEarned /\ ChargesAccounted /\ AloneSound
      /\ SendSound(c) /\ FailSound(c) /\ calls[c] \in Call
  BY Parts
<1>1. CASE Reset(c)
  <2>1. /\ calls[c].pc = "resetting" /\ Becomes(c, "clearing") /\ Keeps(c) /\ fails' = 0
        /\ UNCHANGED <<open, lastFail, now, answers, providerVars, historyVars>>
    BY <1>0, <1>1, MovesStep DEF Reset, Place, Changing
  <2>2. calls'[c].pc = "clearing" /\ \A d \in Checkouts : d # c => calls'[d] = calls[d]
    BY <2>1 DEF Becomes
  <2>3. TypeOK'
    BY <1>0, <2>1 DEF TypeOK, Becomes, providerVars, historyVars
  <2>4. AloneSound' /\ OpeningEarned' /\ OpenOnlyAfterFailures'
    <3>1. AloneSound'
      BY <1>0, <2>1, <2>2 DEF AloneSound, Changing, historyVars
    <3>2. OpeningEarned'
      BY <1>0, <2>1 DEF OpeningEarned, TypeOK, historyVars
    <3>3. OpenOnlyAfterFailures'
      BY <2>2 DEF OpenOnlyAfterFailures
    <3> QED
      BY <3>1, <3>2, <3>3
  <2>5. SendSound(c)' /\ FailSound(c)'
    BY <1>0, <2>1, <2>2 DEF SendSound, FailSound, Failed, Keeps, Asking, Changing, providerVars
  <2> QED
    BY <1>0, <2>1, <2>3, <2>4, <2>5, Unposted DEF Keeps, TypeOK, Call, historyVars
<1>2. CASE Clear(c)
  <2>1. PICK p \in {"done", "failing"} :
          /\ calls[c].pc = "clearing" /\ Becomes(c, p) /\ Keeps(c) /\ open' = FALSE
          /\ \/ p = "done" /\ calls[c].taken = 1 /\ answers' = [answers EXCEPT ![c] = "success"]
             \/ p = "failing" /\ calls[c].taken = 0 /\ answers' = answers
          /\ crossed' = (crossed /\ Meets(c))
          /\ UNCHANGED <<fails, lastFail, now, providerVars, failures>>
    BY <1>0, <1>2, MovesStep DEF Clear, Answered, Place, Changing
  <2>2. calls'[c].pc = p /\ \A d \in Checkouts : d # c => calls'[d] = calls[d]
    BY <2>1 DEF Becomes
  <2>3. TypeOK'
    BY <1>0, <2>1 DEF TypeOK, Becomes, providerVars, historyVars
  <2>4. AloneSound' /\ OpeningEarned' /\ OpenOnlyAfterFailures'
    <3>1. ASSUME ~crossed' PROVE \A d \in Checkouts : d # c => calls[d].pc \notin Changing
      <4>1. CASE crossed
        BY <2>1, <3>1, <4>1 DEF Meets
      <4>2. CASE ~crossed
        BY <1>0, <2>1, <4>2 DEF AloneSound, Changing
      <4> QED
        BY <4>1, <4>2
    <3>2. AloneSound'
      BY <2>1, <2>2, <3>1 DEF AloneSound, Changing
    <3>3. OpeningEarned'
      BY <1>0, <2>1 DEF OpeningEarned
    <3> QED
      BY <2>1, <3>2, <3>3 DEF OpenOnlyAfterFailures
  <2>5. SendSound(c)' /\ FailSound(c)'
    <3>1. answers'[c] = IF p = "done" THEN "success" ELSE "none"
      BY <1>0, <2>1 DEF TypeOK, SendSound
    <3>2. unseen'[c] <= Failed(c)'
      <4>1. unseen'[c] = unseen[c] /\ unseen[c] \in Nat /\ calls'[c].attempts = calls[c].attempts /\ calls[c].attempts \in Nat
        BY <1>0, <2>1 DEF providerVars, TypeOK, Call, Keeps
      <4>2. CASE p = "done"
        BY <1>0, <2>1, <2>2, <3>1, <4>1, <4>2 DEF SendSound, Failed, Changing, Keeps
      <4>3. CASE p = "failing"
        BY <1>0, <2>1, <2>2, <3>1, <4>1, <4>3 DEF SendSound, Failed, Changing, Keeps
      <4> QED
        BY <2>1, <4>2, <4>3
    <3> QED
      BY <1>0, <2>1, <2>2, <3>1, <3>2 DEF SendSound, FailSound, Keeps, Asking
  <2> QED
    BY <1>0, <2>1, <2>3, <2>4, <2>5, Unposted DEF Keeps, TypeOK, Call, historyVars
<1> QED
  BY <1>1, <1>2 DEF Succeeds

LEMMA FailStep ==
    ASSUME IInv, NEW c \in Checkouts, Fails(c) PROVE IInv'
<1>0. /\ TypeOK /\ OpenOnlyAfterFailures /\ OpeningEarned /\ ChargesAccounted /\ AloneSound
      /\ SendSound(c) /\ FailSound(c) /\ calls[c] \in Call
  BY Parts
<1>1. PICK p \in {"counting", "timing", "stamping", "tripping", "opening", "sleeping"} :
        /\ calls[c].pc \in Changing \ {"resetting", "clearing"} /\ Becomes(c, p)
        /\ calls'[c].attempts = calls[c].attempts /\ calls'[c].taken = calls[c].taken
        /\ p = "counting" => calls'[c].held = fails /\ fails' = fails
        /\ p = "opening" => fails >= MaxFailures /\ fails' = fails
        /\ \/ open' = open
           \/ open' = TRUE /\ calls[c].pc = "opening"
        /\ \/ fails' = fails /\ failures' = failures
           \/ calls[c].pc = "counting" /\ fails' = calls[c].held + 1 /\ failures' = failures + 1 /\ open' = open
        /\ lastFail' \in 0..MaxTime
        /\ UNCHANGED <<now, answers, providerVars, crossed>>
  <2>0. lastFail \in 0..MaxTime
    BY <1>0 DEF TypeOK
  <2>1. CASE ReadFails(c)
    <3>1. /\ calls[c].pc = "failing" /\ UNCHANGED <<fails, open, lastFail, now, answers, providerVars, failures, crossed>>
          /\ calls' = [calls EXCEPT ![c].pc = "counting", ![c].held = fails]
      BY <2>1 DEF ReadFails, circuitVars, historyVars
    <3>2. /\ Becomes(c, "counting") /\ calls'[c].held = fails
          /\ calls'[c].attempts = calls[c].attempts /\ calls'[c].taken = calls[c].taken
      BY <1>0, <3>1, HoldingStep
    <3> QED
      BY <2>0, <3>1, <3>2 DEF Changing
  <2>2. CASE Count(c)
    BY <1>0, <2>2, MovesStep DEF Count, Place, Changing, Keeps, TypeOK
  <2>3. CASE ReadTime(c)
    <3>1. /\ calls[c].pc = "timing" /\ UNCHANGED <<fails, open, lastFail, now, answers, providerVars, failures, crossed>>
          /\ calls' = [calls EXCEPT ![c].pc = "stamping", ![c].seen = now]
      BY <2>3 DEF ReadTime, circuitVars, historyVars
    <3>2. Becomes(c, "stamping") /\ Keeps(c)
      BY <1>0, <3>1, TimedStep DEF Place, Changing
    <3> QED
      BY <2>0, <3>1, <3>2 DEF Changing, Keeps
  <2>4. CASE Stamp(c)
    BY <1>0, <2>4, MovesStep DEF Stamp, Place, Changing, Keeps, historyVars, TypeOK, Call
  <2>5. CASE Trip(c)
    BY <1>0, <2>5, MovesStep DEF Trip, Place, Changing, Keeps, circuitVars, historyVars, TypeOK
  <2>6. CASE OpenUp(c)
    <3>1. /\ Moves(c, "opening", "sleeping") /\ open' = TRUE
          /\ UNCHANGED <<fails, lastFail, now, answers, providerVars, failures, crossed>>
      BY <2>6 DEF OpenUp, historyVars
    <3>2. calls[c].pc = "opening" /\ Becomes(c, "sleeping") /\ Keeps(c)
      BY <1>0, <3>1, MovesStep DEF Place
    <3> QED
      BY <2>0, <3>1, <3>2 DEF Changing, Keeps
  <2> QED
    BY <2>1, <2>2, <2>3, <2>4, <2>5, <2>6 DEF Fails
<1>2. /\ calls'[c].pc = p /\ \A d \in Checkouts : d # c => calls'[d] = calls[d]
      /\ calls[c].pc \in Changing
  BY <1>1 DEF Becomes
<1>3. /\ fails \in Nat /\ failures \in Nat /\ calls[c].held \in Nat /\ fails' \in Nat /\ failures' \in Nat
      /\ failures' >= failures /\ fails' <= failures'
  BY <1>0, <1>1 DEF TypeOK, Call, FailSound, OpeningEarned
<1>4. TypeOK'
  BY <1>0, <1>1, <1>3 DEF TypeOK, Becomes, providerVars
<1>5. crossed \/ fails' >= fails
  BY <1>0, <1>1, <1>3 DEF AloneSound
<1>6. AloneSound'
  <2>1. ASSUME ~crossed, NEW d \in Checkouts, calls'[d].pc \in Changing PROVE d = c
    BY <1>0, <1>2, <2>1 DEF AloneSound
  <2>2. calls'[c].pc = "counting" => calls'[c].held = fails'
    BY <1>1, <1>2
  <2>3. calls'[c].pc = "opening" => fails' >= MaxFailures
    BY <1>1, <1>2
  <2> QED
    BY <1>1, <2>1, <2>2, <2>3 DEF AloneSound, Changing
<1>7. OpeningEarned' /\ OpenOnlyAfterFailures'
  <2>1. OpeningEarned'
    BY <1>0, <1>1, <1>3 DEF OpeningEarned, FailSound
  <2>2. ASSUME open', ~crossed' PROVE fails' >= MaxFailures
    <3>1. ~crossed /\ fails' >= fails
      BY <1>1, <1>5, <2>2
    <3>2. CASE open /\ \A d \in Checkouts : calls[d].pc # "clearing"
      BY <1>0, <1>3, <3>1, <3>2 DEF OpenOnlyAfterFailures
    <3>3. ASSUME NEW d \in Checkouts, calls[d].pc = "clearing" PROVE FALSE
      <4>1. d = c
        BY <1>0, <1>2, <3>1, <3>3 DEF AloneSound, Changing
      <4> QED
        BY <1>1, <3>3, <4>1
    <3>4. CASE calls[c].pc = "opening"
      BY <1>0, <1>3, <3>1, <3>4 DEF AloneSound
    <3> QED
      BY <1>1, <2>2, <3>2, <3>3, <3>4
  <2> QED
    BY <2>1, <2>2 DEF OpenOnlyAfterFailures
<1>8. SendSound(c)' /\ FailSound(c)'
  <2>1. calls[c].taken = 0 /\ answers[c] = "none" /\ answers'[c] = "none" /\ unseen'[c] = unseen[c]
    BY <1>0, <1>1 DEF SendSound, Changing, Call, providerVars
  <2>2. SendSound(c)'
    BY <1>0, <1>1, <1>2, <2>1 DEF SendSound, Failed, Asking, Changing
  <2>3. FailSound(c)'
    BY <1>0, <1>1, <1>2, <1>3 DEF FailSound, OpeningEarned
  <2> QED
    BY <2>2, <2>3
<1> QED
  BY <1>0, <1>1, <1>3, <1>4, <1>6, <1>7, <1>8, Unposted DEF Call

(* After the backoff.                                                      *)
LEMMA BackoffStep ==
    ASSUME IInv, NEW c \in Checkouts, Retry(c) \/ GiveUp(c) PROVE IInv'
<1>0. /\ TypeOK /\ OpenOnlyAfterFailures /\ OpeningEarned /\ ChargesAccounted /\ AloneSound
      /\ SendSound(c) /\ FailSound(c) /\ calls[c] \in Call
  BY Parts
<1>1. PICK p \in {"posting", "done"} :
        /\ calls[c].pc = "sleeping" /\ Becomes(c, p) /\ calls'[c].taken = calls[c].taken
        /\ \/ /\ p = "posting" /\ calls'[c].attempts = calls[c].attempts + 1 /\ calls[c].attempts + 1 < Retries
              /\ answers' = answers
           \/ /\ p = "done" /\ calls'[c].attempts = calls[c].attempts /\ answers' = [answers EXCEPT ![c] = "failed"]
        /\ UNCHANGED <<circuitVars, now, providerVars, historyVars>>
  <2>1. CASE Retry(c)
    BY <1>0, <2>1, RetryingStep DEF Retry
  <2>2. CASE GiveUp(c)
    BY <1>0, <2>2, MovesStep DEF GiveUp, Answered, Place, Keeps
  <2> QED
    BY <2>1, <2>2
<1>2. /\ calls'[c].pc = p /\ \A d \in Checkouts : d # c => calls'[d] = calls[d]
      /\ calls[c].taken = 0 /\ answers[c] = "none"
  BY <1>0, <1>1 DEF Becomes, SendSound, Call
<1>3. TypeOK'
  BY <1>0, <1>1 DEF TypeOK, Becomes, providerVars, historyVars, circuitVars
<1>4. AloneSound' /\ OpeningEarned' /\ OpenOnlyAfterFailures'
  <2>1. AloneSound'
    BY <1>0, <1>1, <1>2 DEF AloneSound, Changing, historyVars, circuitVars
  <2>2. \A d \in Checkouts : calls[d].pc = "clearing" => calls'[d].pc = "clearing"
    BY <1>1, <1>2
  <2>3. OpeningEarned' /\ OpenOnlyAfterFailures'
    BY <1>0, <1>1, <2>2 DEF OpeningEarned, OpenOnlyAfterFailures, historyVars, circuitVars
  <2> QED
    BY <2>1, <2>3
<1>5. SendSound(c)' /\ FailSound(c)'
  <2>1. /\ unseen'[c] = unseen[c] /\ unseen[c] <= calls[c].attempts + 1 /\ calls[c].attempts \in Nat
        /\ calls[c].attempts < Retries
    BY <1>0, <1>1, <1>2 DEF SendSound, Failed, Call, providerVars
  <2>2. answers'[c] = IF p = "done" THEN "failed" ELSE "none"
    BY <1>0, <1>1, <1>2 DEF TypeOK
  <2>3. unseen'[c] <= Failed(c)'
    BY <1>1, <1>2, <2>1, <2>2 DEF Failed, Changing
  <2> QED
    BY <1>1, <1>2, <2>1, <2>2, <2>3 DEF SendSound, FailSound, Asking
<1> QED
  BY <1>0, <1>1, <1>2, <1>3, <1>4, <1>5, Unposted DEF historyVars, TypeOK, Call

LEMMA InvStep == IInv /\ [Next]_vars => IInv'
<1> SUFFICES ASSUME IInv, [Next]_vars PROVE IInv'
  OBVIOUS
<1>1. CASE Tick
  <2>1. TypeOK'
    BY <1>1, Parts DEF Tick, TypeOK, circuitVars, providerVars, historyVars
  <2> QED
    BY <1>1, <2>1, Parts DEF Tick, IInv, GatewayInv, OpenOnlyAfterFailures, OpeningEarned, ChargesAccounted,
       AloneSound, SendSound, FailSound, Failed, circuitVars, providerVars, historyVars
<1>2. CASE UNCHANGED vars
  BY <1>2, Parts DEF vars, IInv, GatewayInv, TypeOK, OpenOnlyAfterFailures, OpeningEarned, ChargesAccounted,
     AloneSound, SendSound, FailSound, Failed, circuitVars, providerVars, historyVars
<1> QED
  BY <1>1, <1>2, AllowStep, PostStep, SucceedStep, FailStep, BackoffStep DEF Next, Step

(* Whatever the order in which concurrent checkouts read and write the     *)
(* circuit's globals: it opens only after MAX_FAILURES failures, those     *)
(* since the last success unless two calls of success() and fail() crossed,*)
(* FAILS counts none twice, and every charge is either the one its checkout*)
(* reports or one whose answer send never took (circuit.py, adapter.py).   *)
THEOREM GatewayCorrect == Spec => []GatewayInv
<1>1. IInv => GatewayInv
  BY DEF IInv
<1> QED
  BY InvInit, InvStep, <1>1, PTL DEF Spec

HIDE GatewayAssumption

-----------------------------------------------------------------------------
USE WebhookAssumption

(* The requests that may still make an order of e.                         *)
Pending(e) == {h \in Handlers : At(h, e, "event") \/ At(h, e, "order")}

(* The deliveries pay for the orders made and for those still pending.     *)
DeliveriesCover ==
    \A e \in Events : orders[e] + Cardinality(Pending(e)) <= deliveries[e]

(* What a request has passed is in the tables.                             *)
HandlersSound ==
    \A h \in Handlers, e \in Events :
        /\ At(h, e, "order") \/ At(h, e, "ok") => e \in events
        /\ At(h, e, "ok") => orders[e] > 0

WebhookIInv == WebhookInv /\ DeliveriesCover /\ HandlersSound

LEMMA PendingFinite ==
    ASSUME NEW e PROVE IsFiniteSet(Pending(e)) /\ Cardinality(Pending(e)) \in Nat
<1>1. Pending(e) \in SUBSET Handlers
  BY DEF Pending
<1> QED
  BY <1>1, FS_Subset, FS_CardinalityType

(* A request is at one step of one event, which is a complete one; an idle *)
(* one is at none.                                                         *)
LEMMA OneEvent ==
    ASSUME WebhookTypeOK, NEW h \in Handlers, NEW e \in Events, NEW n \in Steps, At(h, e, n)
    PROVE  /\ handlers[h] # NoEvent /\ e \in Orders
           /\ \A d, m : At(h, d, m) => d = e /\ m = n
<1>1. handlers[h] \in [event : Events, next : Steps]
  BY DEF At
<1>2. handlers[h] \in [event : Orders, next : Steps]
  BY <1>1 DEF WebhookTypeOK
<1> QED
  BY <1>1, <1>2 DEF At

LEMMA WebhookInvInit == WebhookInit => WebhookIInv
<1> SUFFICES ASSUME WebhookInit PROVE WebhookIInv
  OBVIOUS
<1>1. WebhookTypeOK
  BY DEF WebhookInit, WebhookTypeOK
<1>2. ASSUME NEW h \in Handlers, NEW e \in Events, NEW n \in Steps
      PROVE  ~At(h, e, n)
  BY <1>1, OneEvent DEF WebhookInit
<1>3. \A e \in Events : Pending(e) = {}
  BY <1>2 DEF Pending, Steps
<1>4. DeliveriesCover
  BY <1>3, FS_EmptySet DEF WebhookInit, DeliveriesCover
<1>5. HandlersSound
  BY <1>2 DEF HandlersSound, Steps
<1> QED
  BY <1>1, <1>4, <1>5 DEF WebhookInit, WebhookIInv, WebhookInv, AckedIsRecorded, OrderTraceable,
     OrdersWithinDeliveries

(* What taking a request to, or from, those pending does to their number.  *)
LEMMA OneRequest ==
    ASSUME NEW e, NEW h
    PROVE  /\ Cardinality(Pending(e)) \in Nat
           /\ Cardinality(Pending(e) \cup {h}) \in Nat
           /\ Cardinality(Pending(e) \cup {h}) <= Cardinality(Pending(e)) + 1
           /\ h \in Pending(e) => Cardinality(Pending(e) \cup {h}) = Cardinality(Pending(e))
           /\ Cardinality(Pending(e) \ {h}) \in Nat
           /\ Cardinality(Pending(e) \ {h}) <= Cardinality(Pending(e))
           /\ h \in Pending(e) => Cardinality(Pending(e) \ {h}) = Cardinality(Pending(e)) - 1
<1>1. /\ IsFiniteSet(Pending(e)) /\ Cardinality(Pending(e)) \in Nat
      /\ h \in Pending(e) => Cardinality(Pending(e)) # 0
  BY PendingFinite, FS_EmptySet
<1>2. Cardinality(Pending(e) \cup {h}) =
          IF h \in Pending(e) THEN Cardinality(Pending(e)) ELSE Cardinality(Pending(e)) + 1
  BY <1>1, FS_AddElement
<1>3. Cardinality(Pending(e) \ {h}) =
          IF h \in Pending(e) THEN Cardinality(Pending(e)) - 1 ELSE Cardinality(Pending(e))
  BY <1>1, FS_RemoveElement
<1> QED
  BY <1>1, <1>2, <1>3

(* A request that turns to step m of event e changes its own place only,   *)
(* and is pending for e until the order is in.                             *)
LEMMA TurnsTo ==
    ASSUME WebhookTypeOK, NEW h \in Handlers, NEW e, NEW m, Proceed(h, e, m)
    PROVE  /\ \A g \in Handlers : \A d, n :
                 At(g, d, n)' <=> IF g = h THEN d = e /\ n = m ELSE At(g, d, n)
           /\ \A d : Pending(d)' = IF d = e /\ m \in {"event", "order"}
                                   THEN Pending(d) \cup {h} ELSE Pending(d) \ {h}
<1>1. ASSUME NEW d, NEW n
      PROVE  [event |-> e, next |-> m] = [event |-> d, next |-> n] <=> d = e /\ n = m
  <2>1. ASSUME [event |-> e, next |-> m] = [event |-> d, next |-> n] PROVE d = e /\ n = m
    <3>1. /\ [event |-> e, next |-> m].event = [event |-> d, next |-> n].event
          /\ [event |-> e, next |-> m].next = [event |-> d, next |-> n].next
      BY <2>1
    <3> QED
      BY <3>1
  <2> QED
    BY <2>1
<1>2. \A g \in Handlers : \A d, n :
          At(g, d, n)' <=> IF g = h THEN d = e /\ n = m ELSE At(g, d, n)
  BY <1>1 DEF At, Proceed, WebhookTypeOK
<1> QED
  BY <1>2 DEF Pending

(* A request that ends leaves the tables and what covers them.             *)
LEMMA Released ==
    ASSUME WebhookTypeOK, DeliveriesCover, HandlersSound, NEW h \in Handlers,
           handlers' = [handlers EXCEPT ![h] = NoEvent], UNCHANGED <<events, orders, deliveries>>
    PROVE  DeliveriesCover' /\ HandlersSound'
<1>1. ASSUME NEW d \in Events, NEW n \in Steps PROVE NoEvent # [event |-> d, next |-> n]
  OBVIOUS
<1>2. \A g \in Handlers, d \in Events, n \in Steps : At(g, d, n)' <=> g # h /\ At(g, d, n)
  BY <1>1 DEF At, WebhookTypeOK
<1>3. HandlersSound'
  BY <1>2 DEF HandlersSound, Steps
<1>4. ASSUME NEW d \in Events
      PROVE  orders'[d] + Cardinality(Pending(d)') <= deliveries'[d]
  <2>1. Pending(d)' = Pending(d) \ {h}
    BY <1>2 DEF Pending, Steps
  <2>2. /\ Cardinality(Pending(d) \ {h}) \in Nat /\ Cardinality(Pending(d)) \in Nat
        /\ Cardinality(Pending(d) \ {h}) <= Cardinality(Pending(d))
    BY OneRequest
  <2> QED
    BY <2>1, <2>2 DEF WebhookTypeOK, DeliveriesCover
<1> QED
  BY <1>3, <1>4 DEF DeliveriesCover

LEMMA WebhookInvStep == WebhookIInv /\ [WebhookNext]_webhookVars => WebhookIInv'
<1> SUFFICES ASSUME WebhookIInv, [WebhookNext]_webhookVars PROVE WebhookIInv'
  OBVIOUS
<1>0. /\ WebhookTypeOK /\ AckedIsRecorded /\ OrderTraceable /\ OrdersWithinDeliveries
      /\ DeliveriesCover /\ HandlersSound
  BY DEF WebhookIInv, WebhookInv
<1>1. CASE UNCHANGED webhookVars
  BY <1>0, <1>1 DEF webhookVars, WebhookIInv, WebhookInv, WebhookTypeOK, AckedIsRecorded, OrderTraceable,
     OrdersWithinDeliveries, DeliveriesCover, HandlersSound, Pending, At
<1>2. ASSUME NEW e \in Events, Ignore(e) \/ Refuse(e) PROVE WebhookIInv'
  <2> USE DEF Ignore, Refuse, Delivered
  <2>1. \A d \in Events : Pending(d)' = Pending(d) /\ deliveries'[d] >= deliveries[d]
    BY <1>0, <1>2 DEF Pending, At, WebhookTypeOK
  <2>2. WebhookTypeOK'
    BY <1>0, <1>2 DEF WebhookTypeOK
  <2>3. DeliveriesCover' /\ OrdersWithinDeliveries'
    <3>1. ASSUME NEW d \in Events
          PROVE  /\ orders'[d] + Cardinality(Pending(d)') <= deliveries'[d]
                 /\ orders'[d] <= deliveries'[d]
      BY <1>0, <1>2, <2>1, <2>2, PendingFinite DEF WebhookTypeOK, DeliveriesCover, OrdersWithinDeliveries
    <3> QED
      BY <3>1 DEF DeliveriesCover, OrdersWithinDeliveries
  <2> QED
    BY <1>0, <1>2, <2>2, <2>3 DEF WebhookIInv, WebhookInv, AckedIsRecorded, OrderTraceable,
       HandlersSound, At
<1>3. ASSUME NEW h \in Handlers, NEW e \in Events, Accept(h, e) PROVE WebhookIInv'
  <2> USE DEF Accept, Delivered
  <2>1. /\ \A g \in Handlers : \A d, n :
              At(g, d, n)' <=> IF g = h THEN d = e /\ n = "event" ELSE At(g, d, n)
        /\ \A d : Pending(d)' = IF d = e THEN Pending(d) \cup {h} ELSE Pending(d) \ {h}
    BY <1>0, <1>3, TurnsTo
  <2>2. WebhookTypeOK'
    BY <1>0, <1>3 DEF WebhookTypeOK, Steps, Proceed
  <2>3. DeliveriesCover' /\ OrdersWithinDeliveries'
    <3>1. ASSUME NEW d \in Events
          PROVE  /\ orders'[d] + Cardinality(Pending(d)') <= deliveries'[d]
                 /\ orders'[d] <= deliveries'[d]
      <4>1. /\ Cardinality(Pending(d)') <= Cardinality(Pending(d)) + (IF d = e THEN 1 ELSE 0)
            /\ Cardinality(Pending(d)') \in Nat
        <5>1. CASE d = e
          <6>1. Pending(d)' = Pending(d) \cup {h}
            BY <2>1, <5>1
          <6> QED
            BY <6>1, <5>1, OneRequest
        <5>2. CASE d # e
          <6>1. Pending(d)' = Pending(d) \ {h}
            BY <2>1, <5>2
          <6>2. /\ Cardinality(Pending(d)) \in Nat /\ Cardinality(Pending(d) \ {h}) \in Nat
                /\ Cardinality(Pending(d) \ {h}) <= Cardinality(Pending(d))
            BY OneRequest
          <6> QED
            BY <6>1, <6>2, <5>2
        <5> QED
          BY <5>1, <5>2
      <4>2. deliveries'[d] = deliveries[d] + (IF d = e THEN 1 ELSE 0)
        BY <1>0, <1>3 DEF WebhookTypeOK
      <4> QED
        BY <1>0, <1>3, <4>1, <4>2, PendingFinite DEF WebhookTypeOK, DeliveriesCover
    <3> QED
      BY <3>1 DEF DeliveriesCover, OrdersWithinDeliveries
  <2>4. HandlersSound'
    BY <1>0, <1>3, <2>1 DEF HandlersSound
  <2> QED
    BY <1>0, <1>3, <2>2, <2>3, <2>4 DEF WebhookIInv, WebhookInv, AckedIsRecorded, OrderTraceable
<1>4. ASSUME NEW h \in Handlers, NEW e \in Events, InsertEvent(h, e) PROVE WebhookIInv'
  <2> USE DEF InsertEvent
  <2>1. e \in Orders /\ h \in Pending(e)
    BY <1>0, <1>4, OneEvent DEF Pending, Steps
  <2>2. /\ \A g \in Handlers : \A d, n :
              At(g, d, n)' <=> IF g = h THEN d = e /\ n = "order" ELSE At(g, d, n)
        /\ \A d : Pending(d)' = IF d = e THEN Pending(d) \cup {h} ELSE Pending(d) \ {h}
    BY <1>0, <1>4, TurnsTo
  <2>3. ASSUME NEW d \in Events
        PROVE  /\ Cardinality(Pending(d)') <= Cardinality(Pending(d))
               /\ Cardinality(Pending(d)') \in Nat
    <3>1. CASE d = e
      <4>1. Pending(d)' = Pending(d)
        BY <2>1, <2>2, <3>1
      <4> QED
        BY <4>1, PendingFinite
    <3>2. CASE d # e
      <4>1. Pending(d)' = Pending(d) \ {h}
        BY <2>2, <3>2
      <4>2. /\ Cardinality(Pending(d)) \in Nat /\ Cardinality(Pending(d) \ {h}) \in Nat
            /\ Cardinality(Pending(d) \ {h}) <= Cardinality(Pending(d))
        BY OneRequest
      <4> QED
        BY <4>1, <4>2, <3>2
    <3> QED
      BY <3>1, <3>2
  <2>4. WebhookTypeOK'
    BY <1>0, <1>4, <2>1 DEF WebhookTypeOK, Steps, Proceed
  <2>5. DeliveriesCover'
    <3>1. ASSUME NEW d \in Events
          PROVE  orders'[d] + Cardinality(Pending(d)') <= deliveries'[d]
      BY <1>0, <1>4, <2>3, PendingFinite DEF WebhookTypeOK, DeliveriesCover
    <3> QED
      BY <3>1 DEF DeliveriesCover
  <2>6. HandlersSound'
    BY <1>0, <1>4, <2>2 DEF HandlersSound
  <2> QED
    BY <1>0, <1>4, <2>4, <2>5, <2>6 DEF WebhookIInv, WebhookInv, AckedIsRecorded, OrderTraceable,
       OrdersWithinDeliveries
<1>5. ASSUME NEW h \in Handlers, NEW e \in Events, InsertOrder(h, e) PROVE WebhookIInv'
  <2> USE DEF InsertOrder
  <2>1. e \in Orders /\ h \in Pending(e) /\ e \in events
    BY <1>0, <1>5, OneEvent DEF Pending, Steps, HandlersSound
  <2>2. /\ \A g \in Handlers : \A d, n :
              At(g, d, n)' <=> IF g = h THEN d = e /\ n = "ok" ELSE At(g, d, n)
        /\ \A d : Pending(d)' = Pending(d) \ {h}
    BY <1>0, <1>5, TurnsTo
  <2>3. ASSUME NEW d \in Events
        PROVE  /\ Cardinality(Pending(d)') \in Nat
               /\ Cardinality(Pending(d)') <= Cardinality(Pending(d)) - (IF d = e THEN 1 ELSE 0)
    <3>1. Pending(d)' = Pending(d) \ {h}
      BY <2>2
    <3>2. /\ Cardinality(Pending(d)) \in Nat /\ Cardinality(Pending(d) \ {h}) \in Nat
          /\ Cardinality(Pending(d) \ {h}) <= Cardinality(Pending(d))
          /\ h \in Pending(d) => Cardinality(Pending(d) \ {h}) = Cardinality(Pending(d)) - 1
      BY OneRequest
    <3> QED
      BY <2>1, <3>1, <3>2
  <2>4. ASSUME NEW d \in Events
        PROVE  /\ orders'[d] = orders[d] + (IF d = e THEN 1 ELSE 0)
               /\ orders'[d] + Cardinality(Pending(d)') <= deliveries'[d]
               /\ orders'[d] <= deliveries'[d] /\ orders'[d] \in 0..MaxDeliveries
    <3>1. orders'[d] = orders[d] + (IF d = e THEN 1 ELSE 0) /\ deliveries'[d] = deliveries[d]
      BY <1>0, <1>5 DEF WebhookTypeOK
    <3> QED
      BY <1>0, <2>3, <3>1, PendingFinite DEF WebhookTypeOK, DeliveriesCover
  <2>5. WebhookTypeOK'
    <3>1. orders' \in [Events -> 0..MaxDeliveries]
      BY <1>0, <1>5, <2>4 DEF WebhookTypeOK
    <3> QED
      BY <1>0, <1>5, <2>1, <3>1 DEF WebhookTypeOK, Steps, Proceed
  <2>6. HandlersSound'
    BY <1>0, <1>5, <2>1, <2>2, <2>4 DEF HandlersSound, WebhookTypeOK
  <2>7. AckedIsRecorded' /\ OrderTraceable'
    BY <1>0, <1>5, <2>1, <2>4 DEF AckedIsRecorded, OrderTraceable, WebhookTypeOK
  <2> QED
    BY <2>4, <2>5, <2>6, <2>7 DEF WebhookIInv, WebhookInv, OrdersWithinDeliveries, DeliveriesCover
<1>6. ASSUME NEW h \in Handlers, NEW e \in Events, Acknowledge(h, e) PROVE WebhookIInv'
  <2> USE DEF Acknowledge
  <2>1. e \in Orders /\ orders[e] > 0 /\ h \notin Pending(e)
    BY <1>0, <1>6, OneEvent DEF Pending, Steps, HandlersSound
  <2>2. HandlersSound' /\ DeliveriesCover'
    BY <1>0, <1>6, Released
  <2>3. WebhookTypeOK' /\ AckedIsRecorded'
    BY <1>0, <1>6, <2>1 DEF WebhookTypeOK, AckedIsRecorded
  <2> QED
    BY <1>0, <1>6, <2>2, <2>3 DEF WebhookIInv, WebhookInv, OrderTraceable, OrdersWithinDeliveries
<1>7. ASSUME NEW h \in Handlers, Fail(h) PROVE WebhookIInv'
  <2> USE DEF Fail
  <2>1. HandlersSound' /\ DeliveriesCover'
    BY <1>0, <1>7, Released
  <2>2. WebhookTypeOK'
    BY <1>0, <1>7 DEF WebhookTypeOK
  <2> QED
    BY <1>0, <1>7, <2>1, <2>2 DEF WebhookIInv, WebhookInv, AckedIsRecorded, OrderTraceable,
       OrdersWithinDeliveries
<1> QED
  BY <1>1, <1>2, <1>3, <1>4, <1>5, <1>6, <1>7 DEF WebhookNext

(* Whatever fails between the two inserts, however many requests handle    *)
(* deliveries of one event at once: what was acknowledged is in the orders *)
(* table or was never an order, every order has its payment event, and no  *)
(* delivery makes two orders (webhook.py, stripe_webhook, _persist_order). *)
THEOREM WebhookCorrect == WebhookSpec => []WebhookInv
<1>1. WebhookIInv => WebhookInv
  BY DEF WebhookIInv
<1> QED
  BY WebhookInvInit, WebhookInvStep, <1>1, PTL DEF WebhookSpec
=============================================================================
