---------------------------- MODULE AgentsProofs -----------------------------
(* Theorems about the components of Agents, for any values of their        *)
(* constants.                                                              *)
EXTENDS Agents, FiniteSetTheorems, WellFoundedInduction, TLAPS

(* In a finite set, a strict order has an element with none before it.     *)
LEMMA FirstOf ==
    ASSUME NEW S, IsFiniteSet(S), S # {}, NEW R,
           \A x \in S : <<x, x>> \notin R,
           \A x, y, z \in S : <<x, y>> \in R /\ <<y, z>> \in R => <<x, z>> \in R
    PROVE  \E x \in S : \A y \in S : <<y, x>> \notin R
<1> DEFINE Before(x) == {y \in S : <<y, x>> \in R}
           T == {Before(x) : x \in S}
<1>1. T \subseteq FiniteSubsetsOf(S) /\ T # {}
  <2>1. \A x \in S : Before(x) \in SUBSET S
    OBVIOUS
  <2> HIDE DEF Before
  <2>2. \A x \in S : IsFiniteSet(Before(x))
    BY <2>1, FS_Subset
  <2> QED
    BY <2>1, <2>2 DEF FiniteSubsetsOf
<1>2. PICK b \in T : \A c \in T : ~(<<c, b>> \in StrictSubsetOrdering(S))
  BY <1>1, FS_StrictSubsetOrderingWellFounded, WFMin, Zenon
<1>3. PICK x \in S : b = Before(x)
  OBVIOUS
<1>4. ASSUME NEW y \in S, <<y, x>> \in R PROVE FALSE
  <2>1. Before(y) \subseteq Before(x) /\ y \in Before(x) /\ y \notin Before(y)
    BY <1>4
  <2>2. <<Before(y), b>> \in StrictSubsetOrdering(S)
    BY <1>3, <2>1 DEF StrictSubsetOrdering
  <2> QED
    BY <1>2, <2>2
<1> QED
  BY <1>4

(* A product grows with its first factor.                                  *)
LEMMA TimesGrows ==
    ASSUME NEW b \in Nat, NEW c \in Nat, b <= c, NEW s \in Nat
    PROVE  b * s \in Nat /\ c * s \in Nat /\ b * s <= c * s
<1>1. PICK d \in Nat : c = b + d
  <2>1. c - b \in Nat /\ c = b + (c - b)
    OBVIOUS
  <2> QED
    BY <2>1
<1>2. (b + d) * s = b * s + d * s /\ b * s \in Nat /\ d * s \in Nat
  OBVIOUS
<1> QED
  BY <1>1, <1>2

(* The places of a sequence and what is there.                             *)
LEMMA OfSequence ==
    ASSUME NEW S, NEW s \in Seq(S)
    PROVE  Len(s) \in Nat /\ DOMAIN s = 1..Len(s) /\ \A i \in DOMAIN s : s[i] \in S
OBVIOUS

-----------------------------------------------------------------------------
(* security-copilot/webhook.py and learning.py.                            *)
FeedbackIInv ==
    /\ Feedback!TypeOK /\ Feedback!FeedbackInv
    /\ \A k \in Feedback!Categories : rfbLiked[k] <= rfbDeliveries /\ rfbDisliked[k] <= rfbDeliveries

(* Some category leads whatever the weights are.                           *)
LEMMA SomeFirst ==
    ASSUME NEW w \in [Feedback!Categories -> Int]
    PROVE  /\ Feedback!First(w) \in Feedback!Categories
           /\ \A k \in Feedback!Categories : w[k] <= w[Feedback!First(w)]
<1> DEFINE Leads(k) == \A l \in Feedback!Categories \ {k} :
                w[k] > w[l] \/ (w[k] = w[l] /\ Feedback!Before(k) < Feedback!Before(l))
<1>1. /\ w["security"] \in Int /\ w["perf"] \in Int /\ w["quality"] \in Int
      /\ Feedback!Before("perf") = 1 /\ Feedback!Before("quality") = 2
      /\ Feedback!Before("security") = 3
  BY DEF Feedback!Categories, Feedback!Before
<1>2. \E k \in Feedback!Categories : Leads(k)
  <2>1. CASE w["perf"] >= w["quality"] /\ w["perf"] >= w["security"]
    <3>1. Leads("perf")
      BY <1>1, <2>1 DEF Feedback!Categories
    <3> QED
      BY <3>1 DEF Feedback!Categories
  <2>2. CASE w["quality"] > w["perf"] /\ w["quality"] >= w["security"]
    <3>1. Leads("quality")
      BY <1>1, <2>2 DEF Feedback!Categories
    <3> QED
      BY <3>1 DEF Feedback!Categories
  <2>3. CASE w["security"] > w["perf"] /\ w["security"] > w["quality"]
    <3>1. Leads("security")
      BY <1>1, <2>3 DEF Feedback!Categories
    <3> QED
      BY <3>1 DEF Feedback!Categories
  <2> QED
    BY <1>1, <2>1, <2>2, <2>3
<1>3. Feedback!First(w) = CHOOSE k \in Feedback!Categories : Leads(k)
  BY DEF Feedback!First
<1>4. Feedback!First(w) \in Feedback!Categories /\ Leads(Feedback!First(w))
  <2> HIDE DEF Leads
  <2> QED
    BY <1>2, <1>3
<1>5. ASSUME NEW k \in Feedback!Categories PROVE w[k] <= w[Feedback!First(w)]
  BY <1>4
<1> QED
  BY <1>4, <1>5

LEMMA FeedbackInit ==
    ASSUME Feedback!FeedbackAssumption PROVE Feedback!Init => FeedbackIInv
<1> SUFFICES ASSUME Feedback!Init PROVE FeedbackIInv
  OBVIOUS
<1> USE DEF Feedback!FeedbackAssumption, Feedback!Init, Feedback!Nothing
<1>1. Feedback!TypeOK
  BY DEF Feedback!TypeOK
<1>2. Feedback!WeightsTell
  BY DEF Feedback!WeightsTell
<1>3. Feedback!FirstLeads
  BY DEF Feedback!FirstLeads
<1> QED
  BY <1>1, <1>2, <1>3 DEF FeedbackIInv, Feedback!FeedbackInv

LEMMA FeedbackStep ==
    ASSUME Feedback!FeedbackAssumption, FeedbackIInv, [Feedback!Next]_(Feedback!vars)
    PROVE  FeedbackIInv'
<1> USE DEF Feedback!FeedbackAssumption
<1>0. /\ Feedback!TypeOK /\ Feedback!WeightsTell /\ Feedback!FirstLeads
      /\ \A k \in Feedback!Categories : rfbLiked[k] <= rfbDeliveries /\ rfbDisliked[k] <= rfbDeliveries
  BY DEF FeedbackIInv, Feedback!FeedbackInv
<1>1. CASE UNCHANGED Feedback!vars
  BY <1>0, <1>1 DEF Feedback!vars, FeedbackIInv, Feedback!FeedbackInv, Feedback!TypeOK, Feedback!WeightsTell,
     Feedback!FirstLeads
<1>2. CASE Feedback!Webhook
  <2>1. rfbDeliveries \in 0..RfbMaxDeliveries /\ rfbDeliveries' = rfbDeliveries + 1
          /\ rfbDeliveries' \in 0..RfbMaxDeliveries
    BY <1>0, <1>2 DEF Feedback!Webhook, Feedback!TypeOK
  <2>2. CASE \E status \in {"unauthorized", "ignored", "incomplete", "failed"} : Feedback!Stay(status)
    <3>1. PICK status \in {"unauthorized", "ignored", "incomplete", "failed"} : Feedback!Stay(status)
      BY <2>2
    <3>2. UNCHANGED <<rfbWeight, rfbLiked, rfbDisliked>> /\ rfbAnswer'.status = status
            /\ rfbAnswer'.first = AgtNone
      BY <3>1 DEF Feedback!Stay, Feedback!Nothing
    <3> QED
      BY <1>0, <2>1, <3>2 DEF FeedbackIInv, Feedback!FeedbackInv, Feedback!TypeOK, Feedback!WeightsTell,
         Feedback!FirstLeads
  <2>3. ASSUME NEW d \in RfbDeliveries,
               rfbWeight' = IF d.feedback = AgtNone THEN rfbWeight ELSE Feedback!Update(d.feedback),
               rfbLiked' = Feedback!Heard(rfbLiked, d.feedback, TRUE),
               rfbDisliked' = Feedback!Heard(rfbDisliked, d.feedback, FALSE),
               rfbAnswer'.status = "processed", rfbAnswer'.first = Feedback!First(rfbWeight')
        PROVE  FeedbackIInv'
    <3> DEFINE Good ==
          /\ rfbWeight' \in [Feedback!Categories -> Int]
          /\ rfbLiked' \in [Feedback!Categories -> 0..RfbMaxDeliveries]
          /\ rfbDisliked' \in [Feedback!Categories -> 0..RfbMaxDeliveries]
          /\ \A k \in Feedback!Categories : rfbLiked'[k] <= rfbDeliveries' /\ rfbDisliked'[k] <= rfbDeliveries'
          /\ Feedback!WeightsTell'
    <3>a. /\ rfbWeight \in [Feedback!Categories -> Int]
          /\ rfbLiked \in [Feedback!Categories -> Nat] /\ rfbDisliked \in [Feedback!Categories -> Nat]
          /\ \A k \in Feedback!Categories :
                /\ rfbLiked[k] \in Nat /\ rfbLiked[k] <= rfbDeliveries
                /\ rfbDisliked[k] \in Nat /\ rfbDisliked[k] <= rfbDeliveries
      BY <1>0 DEF Feedback!TypeOK
    <3>1. Good
      <4>1. CASE d.feedback = AgtNone \/ d.feedback.category \notin Feedback!Categories
        BY <1>0, <2>1, <2>3, <4>1 DEF Feedback!Update, Feedback!Heard, Feedback!TypeOK, Feedback!WeightsTell
      <4>2. ASSUME d.feedback # AgtNone, NEW k \in Feedback!Categories, k = d.feedback.category,
                   d.feedback.accepted = TRUE
            PROVE  Good
        <5>1. /\ rfbWeight' = [rfbWeight EXCEPT ![k] = @ + 1]
              /\ rfbLiked' = [rfbLiked EXCEPT ![k] = @ + 1] /\ rfbDisliked' = rfbDisliked
          BY <2>3, <4>2 DEF Feedback!Update, Feedback!Heard
        <5>2. rfbLiked'[k] = rfbLiked[k] + 1 /\ rfbLiked'[k] \in 0..RfbMaxDeliveries
          BY <2>1, <3>a, <5>1
        <5> QED
          BY <1>0, <2>1, <3>a, <5>1, <5>2 DEF Feedback!WeightsTell, Feedback!TypeOK
      <4>3. ASSUME d.feedback # AgtNone, NEW k \in Feedback!Categories, k = d.feedback.category,
                   d.feedback.accepted = FALSE
            PROVE  Good
        <5>1. /\ rfbWeight' = [rfbWeight EXCEPT ![k] = IF @ = 0 THEN 0 ELSE @ - 1]
              /\ rfbDisliked' = [rfbDisliked EXCEPT ![k] = @ + 1] /\ rfbLiked' = rfbLiked
          BY <2>3, <4>3 DEF Feedback!Update, Feedback!Heard
        <5>2. rfbDisliked'[k] = rfbDisliked[k] + 1 /\ rfbDisliked'[k] \in 0..RfbMaxDeliveries
          BY <2>1, <3>a, <5>1
        <5>3. \A l \in Feedback!Categories :
                /\ rfbWeight'[l] = IF l = k /\ rfbWeight[l] # 0 THEN rfbWeight[l] - 1 ELSE rfbWeight[l]
                /\ rfbDisliked'[l] = IF l = k THEN rfbDisliked[l] + 1 ELSE rfbDisliked[l]
                /\ rfbLiked'[l] = rfbLiked[l]
          BY <3>a, <5>1
        <5>4. rfbWeight' \in [Feedback!Categories -> Int]
          BY <3>a, <5>1
        <5>5. rfbDisliked' \in [Feedback!Categories -> 0..RfbMaxDeliveries]
          BY <1>0, <5>1, <5>2 DEF Feedback!TypeOK
        <5>6. rfbLiked' \in [Feedback!Categories -> 0..RfbMaxDeliveries]
          BY <1>0, <5>1 DEF Feedback!TypeOK
        <5>7. \A l \in Feedback!Categories : rfbLiked'[l] <= rfbDeliveries' /\ rfbDisliked'[l] <= rfbDeliveries'
          BY <2>1, <3>a, <5>3
        <5>8. Feedback!WeightsTell'
          BY <1>0, <3>a, <5>3 DEF Feedback!WeightsTell
        <5> QED
          BY <5>4, <5>5, <5>6, <5>7, <5>8
      <4> QED
        BY <4>1, <4>2, <4>3
    <3>2. rfbAnswer'.first \in Feedback!Categories /\ Feedback!FirstLeads'
      BY <2>3, <3>1, SomeFirst DEF Feedback!FirstLeads
    <3> QED
      BY <2>1, <2>3, <3>1, <3>2 DEF FeedbackIInv, Feedback!FeedbackInv, Feedback!TypeOK
  <2>4. PICK d \in RfbDeliveries, token \in BOOLEAN :
          IF ~d.signed THEN Feedback!Stay("unauthorized")
          ELSE IF d.event # "pull_request" THEN Feedback!Stay("ignored")
          ELSE IF ~d.context THEN Feedback!Stay("incomplete")
          ELSE IF ~token THEN Feedback!Stay("failed")
          ELSE /\ rfbWeight' = IF d.feedback = AgtNone THEN rfbWeight ELSE Feedback!Update(d.feedback)
               /\ rfbLiked' = Feedback!Heard(rfbLiked, d.feedback, TRUE)
               /\ rfbDisliked' = Feedback!Heard(rfbDisliked, d.feedback, FALSE)
               /\ rfbAnswer' = [status |-> "processed", deny |-> Feedback!Count(d.findings, "critical"),
                                warn |-> Feedback!Count(d.findings, "medium"), first |-> Feedback!First(rfbWeight')]
    BY <1>2 DEF Feedback!Webhook
  <2>5. CASE d.signed /\ d.event = "pull_request" /\ d.context /\ token
    <3>1. /\ rfbWeight' = IF d.feedback = AgtNone THEN rfbWeight ELSE Feedback!Update(d.feedback)
          /\ rfbLiked' = Feedback!Heard(rfbLiked, d.feedback, TRUE)
          /\ rfbDisliked' = Feedback!Heard(rfbDisliked, d.feedback, FALSE)
          /\ rfbAnswer' = [status |-> "processed", deny |-> Feedback!Count(d.findings, "critical"),
                           warn |-> Feedback!Count(d.findings, "medium"), first |-> Feedback!First(rfbWeight')]
      BY <2>4, <2>5, Zenon
    <3>2. rfbAnswer'.status = "processed" /\ rfbAnswer'.first = Feedback!First(rfbWeight')
      BY <3>1
    <3> QED
      BY <2>3, <3>1, <3>2
  <2>6. CASE ~(d.signed /\ d.event = "pull_request" /\ d.context /\ token)
    <3>1. \E status \in {"unauthorized", "ignored", "incomplete", "failed"} : Feedback!Stay(status)
      BY <2>4, <2>6, Zenon
    <3> QED
      BY <2>2, <3>1
  <2> QED
    BY <2>5, <2>6
<1> QED
  BY <1>1, <1>2 DEF Feedback!Next

(* The weight of a category follows what was said of it, for any number of *)
(* deliveries, and an answer names a category none outweighs.              *)
THEOREM FeedbackCounts ==
    ASSUME Feedback!FeedbackAssumption PROVE Feedback!Spec => []Feedback!FeedbackInv
<1>1. FeedbackIInv => Feedback!FeedbackInv
  BY DEF FeedbackIInv
<1> QED
  BY <1>1, FeedbackInit, FeedbackStep, PTL DEF Feedback!Spec

-----------------------------------------------------------------------------
(* jwt-auth.                                                               *)

(* What a token says of its life is what its replica's clock said.         *)
TokenSound(t) ==
    /\ t.at \in 0..tknNow /\ t.iat \in t.at..(t.at + TknSkew)
    /\ t.exp \in Nat /\ t.exp - t.iat \in 1..TknMaxTtl

TokensIInv == Jwt!TypeOK /\ (\A t \in tknTokens : TokenSound(t)) /\ Jwt!TokensInv

LEMMA NothingShown ==
    ASSUME tknShown = Jwt!Nothing PROVE Jwt!TokensInv
BY DEF Jwt!Nothing, Jwt!TokensInv, Jwt!ActiveWasIssued, Jwt!LifeKept, Jwt!FreshRefused

LEMMA TokensInit ==
    ASSUME Jwt!TokensAssumption PROVE Jwt!Init => TokensIInv
<1> SUFFICES ASSUME Jwt!Init PROVE TokensIInv
  OBVIOUS
<1>1. Jwt!TypeOK
  BY DEF Jwt!TokensAssumption, Jwt!Init, Jwt!TypeOK, Jwt!Nothing
<1>2. Jwt!TokensInv
  BY NothingShown DEF Jwt!Init
<1> QED
  BY <1>1, <1>2 DEF TokensIInv, Jwt!Init

(* What a replica says of a token that was issued.                         *)
LEMMA DecodedRight ==
    ASSUME Jwt!TokensAssumption, TokensIInv, NEW r \in TknReplicas, tknSettings[r] # AgtNone,
           NEW t \in tknTokens, NEW status,
           status = IF tknSettings[r].stub THEN Jwt!Decode(t, tknSettings[r], Jwt!Clock(r))
                    ELSE Jwt!LibraryDecode(t, tknSettings[r], Jwt!Clock(r))
    PROVE  /\ status \in {"active", "invalid", "expired", "audience", "issuer"}
           /\ status = "active" =>
                /\ t.key = Jwt!Key(tknSettings[r]) /\ t.issuer = tknSettings[r].issuer
                /\ t.audience = tknSettings[r].audience
                /\ tknNow - t.at < t.exp - t.iat + TknSkew /\ tknNow - t.at < TknMaxTtl + TknSkew
           /\ status = "expired" => tknNow - t.at >= t.exp - t.iat - TknSkew
           /\ status = "invalid" /\ t.key = Jwt!Key(tknSettings[r]) =>
                ~tknSettings[r].stub /\ tknNow - t.at < TknSkew
<1>1. /\ tknNow \in Nat /\ TknSkew \in Nat /\ TknMaxTtl \in Nat
      /\ Jwt!Clock(r) \in tknNow..(tknNow + TknSkew)
      /\ t.at \in Nat /\ t.at <= tknNow /\ t.iat \in Nat /\ t.at <= t.iat /\ t.iat <= t.at + TknSkew
      /\ t.exp \in Nat /\ t.exp - t.iat >= 1 /\ t.exp - t.iat <= TknMaxTtl
  <2>1. tknAhead[r] \in 0..TknSkew /\ tknNow \in Nat /\ TknSkew \in Nat /\ TknMaxTtl \in Nat
    BY DEF TokensIInv, Jwt!TypeOK, Jwt!TokensAssumption
  <2> QED
    BY <2>1 DEF TokensIInv, TokenSound, Jwt!Clock
<1> DEFINE s == tknSettings[r]
           clock == Jwt!Clock(r)
<1>2. /\ status \in {"active", "invalid", "expired", "audience", "issuer"}
      /\ status = "active" =>
           t.key = Jwt!Key(s) /\ t.issuer = s.issuer /\ t.audience = s.audience /\ ~(t.exp <= clock)
      /\ status = "expired" => t.exp <= clock
      /\ status = "invalid" /\ t.key = Jwt!Key(s) => ~s.stub /\ t.iat > clock
  <2>1. CASE s.stub
    BY <2>1 DEF Jwt!Decode
  <2>2. CASE ~s.stub
    BY <2>2 DEF Jwt!LibraryDecode
  <2> QED
    BY <2>1, <2>2
<1> HIDE DEF s, clock
<1>3. status = "active" => tknNow - t.at < t.exp - t.iat + TknSkew /\ tknNow - t.at < TknMaxTtl + TknSkew
  BY <1>1, <1>2 DEF clock
<1>4. status = "expired" => tknNow - t.at >= t.exp - t.iat - TknSkew
  BY <1>1, <1>2 DEF clock
<1>5. status = "invalid" /\ t.key = Jwt!Key(s) => tknNow - t.at < TknSkew
  BY <1>1, <1>2 DEF clock
<1> QED
  BY <1>2, <1>3, <1>4, <1>5 DEF s

LEMMA TokensStep ==
    ASSUME Jwt!TokensAssumption, TokensIInv, [Jwt!Next]_(Jwt!vars)
    PROVE  TokensIInv'
<1> USE DEF Jwt!TokensAssumption
<1>0. Jwt!TypeOK /\ (\A t \in tknTokens : TokenSound(t)) /\ Jwt!TokensInv
  BY DEF TokensIInv
<1>1. CASE UNCHANGED Jwt!vars
  BY <1>0, <1>1 DEF Jwt!vars, TokensIInv, TokenSound, Jwt!TypeOK, Jwt!TokensInv, Jwt!ActiveWasIssued, Jwt!LifeKept,
     Jwt!FreshRefused, Jwt!Age, Jwt!Life
<1>2. ASSUME tknShown' = Jwt!Nothing PROVE Jwt!TokensInv'
  BY <1>2 DEF Jwt!Nothing, Jwt!TokensInv, Jwt!ActiveWasIssued, Jwt!LifeKept, Jwt!FreshRefused
<1>3. ASSUME NEW r \in TknReplicas, Jwt!Start(r) PROVE TokensIInv'
  <2>1. /\ tknStarts' \in 0..TknMaxStarts /\ tknShown' = Jwt!Nothing
        /\ UNCHANGED <<tknNow, tknAhead, tknTokens>>
    BY <1>0, <1>3 DEF Jwt!Start, Jwt!TypeOK
  <2>2. PICK s \in TknSettings : tknSettings' = [tknSettings EXCEPT ![r] = IF Jwt!Sound(s) THEN s ELSE AgtNone]
    BY <1>3 DEF Jwt!Start
  <2>3. /\ tknSettings' \in [TknReplicas -> TknSettings \cup {AgtNone}]
        /\ \A q \in TknReplicas : tknSettings'[q] # AgtNone => tknSettings'[q].ttl \in 1..TknMaxTtl
    BY <1>0, <2>2 DEF Jwt!TypeOK, Jwt!Sound
  <2>4. Jwt!TypeOK'
    BY <1>0, <2>1, <2>3 DEF Jwt!TypeOK, Jwt!Nothing
  <2>5. \A t \in tknTokens' : TokenSound(t)'
    BY <1>0, <2>1 DEF TokenSound
  <2> QED
    BY <1>2, <2>1, <2>4, <2>5 DEF TokensIInv
<1>4. ASSUME NEW r \in TknReplicas, Jwt!IssueToken(r) PROVE TokensIInv'
  <2> DEFINE new == [key |-> Jwt!Key(tknSettings[r]), issuer |-> tknSettings[r].issuer, audience |-> tknSettings[r].audience,
                     iat |-> Jwt!Clock(r), exp |-> Jwt!Clock(r) + tknSettings[r].ttl, at |-> tknNow]
  <2>1. /\ tknSettings[r] # AgtNone /\ tknTokens' = tknTokens \cup {new}
        /\ tknShown' = Jwt!Nothing /\ UNCHANGED <<tknNow, tknAhead, tknSettings, tknStarts>>
    BY <1>4 DEF Jwt!IssueToken
  <2>2. new.iat = Jwt!Clock(r) /\ new.exp = Jwt!Clock(r) + tknSettings[r].ttl /\ new.at = tknNow
    OBVIOUS
  <2> HIDE DEF new
  <2>3. /\ tknSettings[r].ttl \in 1..TknMaxTtl /\ tknAhead[r] \in 0..TknSkew /\ tknNow \in 0..TknMaxTime
        /\ Jwt!Clock(r) = tknNow + tknAhead[r]
    BY <1>0, <2>1 DEF Jwt!TypeOK, Jwt!Clock
  <2>4. new.at \in 0..TknMaxTime /\ TokenSound(new)
    BY <2>2, <2>3 DEF TokenSound
  <2>5. \A t \in tknTokens' : TokenSound(t)'
    BY <1>0, <2>1, <2>4 DEF TokenSound
  <2>6. Jwt!TypeOK'
    BY <1>0, <2>1, <2>4 DEF Jwt!TypeOK, Jwt!Nothing, TokenSound
  <2> QED
    BY <1>2, <2>1, <2>5, <2>6 DEF TokensIInv
<1>5. ASSUME NEW r \in TknReplicas, Jwt!Introspect(r) PROVE TokensIInv'
  <2>1. tknSettings[r] # AgtNone /\ UNCHANGED <<tknNow, tknAhead, tknSettings, tknStarts, tknTokens>>
    BY <1>5 DEF Jwt!Introspect
  <2>2. PICK what \in {[kind |-> "token", token |-> t] : t \in tknTokens}
                      \cup {[kind |-> k, token |-> AgtNone] : k \in {"no bearer", "garbled", "no base64"}} :
          tknShown' = [token |-> what.token, by |-> r, status |-> Jwt!Verify(r, what), given |-> tknSettings[r], at |-> tknNow]
    BY <1>5 DEF Jwt!Introspect
  <2>3. /\ tknShown'.token = what.token /\ tknShown'.status = Jwt!Verify(r, what)
        /\ tknShown'.given = tknSettings[r] /\ tknShown'.at = tknNow
    BY <2>2
  <2>4. ASSUME NEW t \in tknTokens, what = [kind |-> "token", token |-> t]
        PROVE  Jwt!TypeOK' /\ Jwt!TokensInv'
    <3>1. /\ what.token = t
          /\ Jwt!Verify(r, what) = IF tknSettings[r].stub THEN Jwt!Decode(t, tknSettings[r], Jwt!Clock(r))
                                   ELSE Jwt!LibraryDecode(t, tknSettings[r], Jwt!Clock(r))
      BY <2>4 DEF Jwt!Verify
    <3> DEFINE status == tknShown'.status
    <3>2. /\ status \in {"active", "invalid", "expired", "audience", "issuer"}
          /\ status = "active" =>
               /\ t.key = Jwt!Key(tknSettings[r]) /\ t.issuer = tknSettings[r].issuer
               /\ t.audience = tknSettings[r].audience
               /\ tknNow - t.at < t.exp - t.iat + TknSkew /\ tknNow - t.at < TknMaxTtl + TknSkew
          /\ status = "expired" => tknNow - t.at >= t.exp - t.iat - TknSkew
          /\ status = "invalid" /\ t.key = Jwt!Key(tknSettings[r]) =>
               ~tknSettings[r].stub /\ tknNow - t.at < TknSkew
      <4>1. status = IF tknSettings[r].stub THEN Jwt!Decode(t, tknSettings[r], Jwt!Clock(r))
                     ELSE Jwt!LibraryDecode(t, tknSettings[r], Jwt!Clock(r))
        BY <2>3, <3>1, Zenon
      <4> HIDE DEF status
      <4> QED
        BY <2>1, <4>1, DecodedRight, Zenon
    <3>3. Jwt!Age' = tknNow - t.at /\ Jwt!Life' = t.exp - t.iat
      BY <2>3, <3>1 DEF Jwt!Age, Jwt!Life
    <3>4. Jwt!ActiveWasIssued'
      BY <2>1, <2>3, <3>1, <3>2 DEF Jwt!ActiveWasIssued
    <3>5. Jwt!LifeKept'
      BY <3>2, <3>3 DEF Jwt!LifeKept
    <3>6. Jwt!FreshRefused'
      BY <2>3, <3>1, <3>2, <3>3 DEF Jwt!FreshRefused
    <3>7. Jwt!TypeOK'
      BY <1>0, <2>1, <3>2 DEF Jwt!TypeOK
    <3> QED
      BY <3>4, <3>5, <3>6, <3>7 DEF Jwt!TokensInv
  <2>5. ASSUME NEW k \in {"no bearer", "garbled", "no base64"}, what = [kind |-> k, token |-> AgtNone]
        PROVE  Jwt!TypeOK' /\ Jwt!TokensInv'
    <3>1. tknShown'.token = AgtNone /\ tknShown'.status \in {"missing", "invalid", "error"}
      BY <2>3, <2>5 DEF Jwt!Verify
    <3> QED
      BY <1>0, <2>1, <3>1 DEF Jwt!TypeOK, Jwt!TokensInv, Jwt!ActiveWasIssued, Jwt!LifeKept, Jwt!FreshRefused
  <2>6. \A t \in tknTokens' : TokenSound(t)'
    BY <1>0, <2>1 DEF TokenSound
  <2> QED
    BY <2>4, <2>5, <2>6 DEF TokensIInv
<1>6. CASE Jwt!Tick
  <2>1. /\ tknNow' = tknNow + 1 /\ tknNow' \in 0..TknMaxTime /\ tknNow \in Nat
        /\ tknShown' = Jwt!Nothing
        /\ UNCHANGED <<tknAhead, tknSettings, tknStarts, tknTokens>>
    BY <1>0, <1>6 DEF Jwt!Tick, Jwt!TypeOK
  <2>2. Jwt!TypeOK'
    BY <1>0, <2>1 DEF Jwt!TypeOK, Jwt!Nothing
  <2>3. \A t \in tknTokens' : TokenSound(t)'
    BY <1>0, <2>1 DEF TokenSound
  <2> QED
    BY <1>2, <2>1, <2>2, <2>3 DEF TokensIInv
<1> QED
  BY <1>1, <1>3, <1>4, <1>5, <1>6 DEF Jwt!Next

(* However many replicas there are and however far their clocks differ,    *)
(* what counts was issued, for its life up to the difference of the        *)
(* clocks.                                                                 *)
THEOREM TokensStandFor ==
    ASSUME Jwt!TokensAssumption PROVE Jwt!Spec => []Jwt!TokensInv
<1>1. TokensIInv => Jwt!TokensInv
  BY DEF TokensIInv
<1> QED
  BY <1>1, TokensInit, TokensStep, PTL DEF Jwt!Spec

-----------------------------------------------------------------------------
(* network-egress and product-discovery.                                   *)

(* The attempts of a post were all broken or silent, and k is the last     *)
(* that was broken, or 0.                                                  *)
NoneAnswered(m, k) ==
    /\ \A i \in DOMAIN m : m[i].answer.kind \in {"broken", "silent"} /\ (i > k => m[i].answer.kind = "silent")
    /\ k # 0 => k \in DOMAIN m /\ m[k].answer.kind = "broken"

(* A call that goes on has attempts left and met nothing that would have   *)
(* ended it; a post met nothing of the kind but in its last attempt.       *)
AttemptsSound(c) ==
    /\ rtcCall[c].step = "idle" =>
         rtcMet[c] = <<>> /\ rtcCall[c].told = AgtNone /\ rtcCall[c].answered = 0
    /\ rtcCall[c].step = "trying" =>
         /\ rtcCall[c].told = AgtNone /\ rtcCall[c].kind \in Retried!Kinds
         /\ Len(rtcMet[c]) < RtcRetries
         /\ rtcCall[c].kind = "post" => NoneAnswered(rtcMet[c], rtcCall[c].answered)
         /\ rtcCall[c].kind # "post" => \A i \in DOMAIN rtcMet[c] : rtcMet[c][i].answer.kind # "list"
    /\ rtcCall[c].kind = "post" =>
         \A i \in 1..(Len(rtcMet[c]) - 1) : rtcMet[c][i].answer.kind \in {"broken", "silent"}
    /\ rtcCall[c].told # AgtNone /\ rtcCall[c].told.kind = "raised" =>
         Len(rtcMet[c]) = RtcRetries /\ NoneAnswered(rtcMet[c], rtcCall[c].told.about)

(* What a fetch that is over was told.                                     *)
FetchSound(c) ==
    rtcCall[c].kind \in {"discover", "health"} /\ rtcCall[c].step = "over" =>
        LET listed == {i \in DOMAIN rtcMet[c] : rtcMet[c][i].answer.kind = "list"} IN
        /\ listed \subseteq {Len(rtcMet[c])}
        /\ rtcCall[c].told.kind \in {"degraded", "unavailable"} <=> listed = {}
        /\ rtcCall[c].told.kind = "items" =>
             rtcCall[c].told.about <= Len(rtcMet[c][Len(rtcMet[c])].answer.items)
               /\ rtcCall[c].told.about <= RtcTop

CallsIInv == Retried!TypeOK /\ \A c \in RtcCalls : AttemptsSound(c) /\ FetchSound(c)

LEMMA CallsCount ==
    \A S : (Retried!IsFiniteSet(S) <=> IsFiniteSet(S)) /\ Retried!Cardinality(S) = Cardinality(S)
BY DEF Retried!IsFiniteSet, IsFiniteSet, Retried!Cardinality, Cardinality

LEMMA CallsImply ==
    ASSUME Retried!CallsAssumption, CallsIInv PROVE Retried!CallsInv
<1>1. ASSUME NEW c \in RtcCalls
      PROVE  /\ rtcMet[c] \in Seq([answer : Retried!Answers, applied : BOOLEAN])
             /\ Len(rtcMet[c]) \in Nat /\ DOMAIN rtcMet[c] = 1..Len(rtcMet[c])
             /\ IsFiniteSet(1..Len(rtcMet[c])) /\ Cardinality(1..Len(rtcMet[c])) = Len(rtcMet[c])
  <2>1. rtcMet[c] \in Seq([answer : Retried!Answers, applied : BOOLEAN])
    BY DEF CallsIInv, Retried!TypeOK
  <2>2. Len(rtcMet[c]) \in Nat /\ DOMAIN rtcMet[c] = 1..Len(rtcMet[c])
    BY <2>1
  <2>3. IsFiniteSet(1..Len(rtcMet[c])) /\ Cardinality(1..Len(rtcMet[c])) = Len(rtcMet[c])
    BY <2>2, FS_Interval
  <2> QED
    BY <2>1, <2>2, <2>3
<1>2. Retried!PostRepeats
  <2> SUFFICES ASSUME NEW c \in RtcCalls, rtcCall[c].kind = "post"
               PROVE  /\ Retried!Applied(c) <= 1 + Retried!Unanswered(c)
                      /\ Len(rtcMet[c]) <= 1 + Retried!Unanswered(c)
                      /\ Retried!Unanswered(c) = 0 => Len(rtcMet[c]) <= 1
    BY DEF Retried!PostRepeats
  <2> DEFINE U == {i \in DOMAIN rtcMet[c] : rtcMet[c][i].answer.kind \in {"broken", "silent"}}
             A == {i \in DOMAIN rtcMet[c] : rtcMet[c][i].applied}
             n == Len(rtcMet[c])
  <2>1. \A i \in 1..(n - 1) : rtcMet[c][i].answer.kind \in {"broken", "silent"}
    BY DEF CallsIInv, AttemptsSound
  <2>2. 1..(n - 1) \in SUBSET U /\ U \in SUBSET (1..n) /\ A \in SUBSET (1..n)
    BY <1>1, <2>1
  <2>3. Retried!Unanswered(c) = Cardinality(U) /\ Retried!Applied(c) = Cardinality(A)
    BY CallsCount DEF Retried!Unanswered, Retried!Applied
  <2>4. n \in Nat /\ IsFiniteSet(1..n) /\ Cardinality(1..n) = n
    BY <1>1
  <2> HIDE DEF U, A, n
  <2>5. IsFiniteSet(U) /\ Cardinality(U) \in Nat /\ IsFiniteSet(A) /\ Cardinality(A) \in Nat
          /\ Cardinality(A) <= n
    BY <2>2, <2>4, FS_Subset, FS_CardinalityType
  <2>6. n - 1 <= Cardinality(U)
    <3>1. CASE n = 0
      BY <2>5, <3>1
    <3>2. CASE n # 0
      <4>1. n - 1 \in Int /\ 1 <= n
        BY <2>4, <3>2
      <4>1a. Cardinality(1..(n - 1)) = n - 1
        <5>1. \A k \in Int : Cardinality(1..k) = IF 1 > k THEN 0 ELSE k - 1 + 1
          BY FS_Interval
        <5> QED
          BY <2>4, <4>1, <5>1
      <4> QED
        <5>1. Cardinality(1..(n - 1)) <= Cardinality(U)
          BY <2>2, <2>5, FS_Subset
        <5> QED
          BY <4>1a, <5>1
    <3> QED
      BY <3>1, <3>2
  <2> QED
    BY <2>3, <2>4, <2>5, <2>6 DEF n
<1>3. Retried!RaisedTells
  <2> SUFFICES ASSUME NEW c \in RtcCalls, rtcCall[c].told # AgtNone, rtcCall[c].told.kind = "raised"
               PROVE  /\ Retried!Unanswered(c) = RtcRetries
                      /\ \A i \in DOMAIN rtcMet[c] : i > rtcCall[c].told.about =>
                           rtcMet[c][i].answer.kind = "silent"
                      /\ rtcCall[c].told.about # 0 =>
                           rtcMet[c][rtcCall[c].told.about].answer.kind = "broken"
    BY DEF Retried!RaisedTells
  <2>1. Len(rtcMet[c]) = RtcRetries /\ NoneAnswered(rtcMet[c], rtcCall[c].told.about)
    BY DEF CallsIInv, AttemptsSound
  <2>2. {i \in DOMAIN rtcMet[c] : rtcMet[c][i].answer.kind \in {"broken", "silent"}} = 1..Len(rtcMet[c])
    BY <1>1, <2>1 DEF NoneAnswered
  <2>3. Retried!Unanswered(c) = RtcRetries
    BY <1>1, <2>1, <2>2, CallsCount DEF Retried!Unanswered
  <2> QED
    BY <2>1, <2>3 DEF NoneAnswered
<1>4. Retried!FetchTells
  BY DEF CallsIInv, FetchSound, Retried!FetchTells, Retried!Last
<1> QED
  BY <1>2, <1>3, <1>4 DEF Retried!CallsInv

LEMMA CallsInit ==
    ASSUME Retried!CallsAssumption PROVE Retried!Init => CallsIInv
<1> SUFFICES ASSUME Retried!Init PROVE CallsIInv
  OBVIOUS
<1>1. Retried!TypeOK
  BY DEF Retried!CallsAssumption, Retried!Init, Retried!TypeOK, Retried!Call
<1>2. \A c \in RtcCalls : rtcCall[c].step = "idle" /\ rtcMet[c] = <<>> /\ rtcCall[c].told = AgtNone /\ rtcCall[c].answered = 0
  BY DEF Retried!Init
<1>3. \A c \in RtcCalls : AttemptsSound(c) /\ FetchSound(c)
  BY <1>2 DEF AttemptsSound, FetchSound
<1> QED
  BY <1>1, <1>3 DEF CallsIInv

LEMMA CallStays ==
    ASSUME NEW d \in RtcCalls, rtcCall'[d] = rtcCall[d], rtcMet'[d] = rtcMet[d], AttemptsSound(d),
           FetchSound(d)
    PROVE  AttemptsSound(d)' /\ FetchSound(d)'
<1>1. AttemptsSound(d)'
  BY DEF AttemptsSound
<1>2. FetchSound(d)'
  BY DEF FetchSound
<1> QED
  BY <1>1, <1>2

LEMMA CallsStep ==
    ASSUME Retried!CallsAssumption, CallsIInv, [Retried!Next]_(Retried!vars)
    PROVE  CallsIInv'
<1> USE DEF Retried!CallsAssumption
<1>0. Retried!TypeOK /\ \A c \in RtcCalls : AttemptsSound(c) /\ FetchSound(c)
  BY DEF CallsIInv
<1>1. CASE UNCHANGED Retried!vars
  <2>1. rtcCall' = rtcCall /\ rtcMet' = rtcMet
    BY <1>1 DEF Retried!vars
  <2>2. Retried!TypeOK'
    BY <1>0, <2>1 DEF Retried!TypeOK
  <2>3. \A d \in RtcCalls : AttemptsSound(d)' /\ FetchSound(d)'
    BY <1>0, <2>1, CallStays
  <2> QED
    BY <2>2, <2>3 DEF CallsIInv
<1>2. ASSUME NEW c \in RtcCalls, \A d \in RtcCalls \ {c} : rtcCall'[d] = rtcCall[d] /\ rtcMet'[d] = rtcMet[d]
      PROVE  \A d \in RtcCalls \ {c} : AttemptsSound(d)' /\ FetchSound(d)'
  BY <1>0, <1>2, CallStays
<1>3. ASSUME NEW c \in RtcCalls, Retried!Begin(c) PROVE CallsIInv'
  <2>1. PICK k \in Retried!Kinds, sound \in BOOLEAN :
          /\ k # "post" => sound
          /\ rtcCall' = [rtcCall EXCEPT ![c] =
               [@ EXCEPT !.kind = k, !.step = IF sound THEN "trying" ELSE "over",
                         !.told = IF sound THEN AgtNone ELSE [kind |-> "invalid", about |-> 0]]]
    BY <1>3 DEF Retried!Begin
  <2>2. rtcCall[c].step = "idle" /\ rtcMet' = rtcMet /\ rtcMet[c] = <<>>
          /\ rtcCall[c].told = AgtNone /\ rtcCall[c].answered = 0
    BY <1>0, <1>3 DEF Retried!Begin, AttemptsSound
  <2>3. rtcCall \in [RtcCalls -> Retried!Call] /\ rtcCall[c] \in Retried!Call
    BY <1>0 DEF Retried!TypeOK
  <2> DEFINE n == [rtcCall[c] EXCEPT !.kind = k, !.step = IF sound THEN "trying" ELSE "over",
                                     !.told = IF sound THEN AgtNone ELSE [kind |-> "invalid", about |-> 0]]
  <2>4. /\ n \in Retried!Call /\ n.kind = k
        /\ n.step = (IF sound THEN "trying" ELSE "over") /\ n.answered = 0
        /\ n.told = IF sound THEN AgtNone ELSE [kind |-> "invalid", about |-> 0]
    <3>1. (IF sound THEN AgtNone ELSE [kind |-> "invalid", about |-> 0]) \in {AgtNone} \cup Retried!Outcome
      BY DEF Retried!Outcome
    <3> QED
      BY <2>2, <2>3, <3>1 DEF Retried!Call
  <2> HIDE DEF n
  <2>5. rtcCall' \in [RtcCalls -> Retried!Call] /\ rtcCall'[c] = n
          /\ \A d \in RtcCalls \ {c} : rtcCall'[d] = rtcCall[d]
    BY <2>1, <2>3, <2>4 DEF n
  <2>6. Retried!TypeOK'
    BY <1>0, <2>2, <2>5 DEF Retried!TypeOK
  <2>7. rtcMet'[c] = <<>> /\ Len(rtcMet'[c]) = 0 /\ DOMAIN rtcMet'[c] = {}
    BY <2>2
  <2>a. \A d \in RtcCalls \ {c} : AttemptsSound(d)' /\ FetchSound(d)'
    BY <1>2, <2>2, <2>5
  <2>8. CASE sound
    <3>1. rtcCall'[c].step = "trying" /\ rtcCall'[c].told = AgtNone
            /\ rtcCall'[c].kind \in Retried!Kinds /\ rtcCall'[c].answered = 0
      BY <2>4, <2>5, <2>8
    <3> QED
      <4>1. AttemptsSound(c)'
        BY <2>7, <3>1 DEF AttemptsSound, NoneAnswered
      <4>2. FetchSound(c)'
        BY <3>1 DEF FetchSound
      <4> QED
        BY <2>6, <2>a, <4>1, <4>2 DEF CallsIInv
  <2>9. CASE ~sound
    <3>1. rtcCall'[c].step = "over" /\ rtcCall'[c].told = [kind |-> "invalid", about |-> 0]
            /\ rtcCall'[c].kind = "post"
      BY <2>1, <2>4, <2>5, <2>9
    <3>2. rtcCall'[c].told.kind # "raised"
      BY <3>1
    <3> QED
      <4>1. AttemptsSound(c)'
        BY <2>7, <3>1, <3>2 DEF AttemptsSound
      <4>2. FetchSound(c)'
        BY <3>1 DEF FetchSound
      <4> QED
        BY <2>6, <2>a, <4>1, <4>2 DEF CallsIInv
  <2> QED
    BY <2>8, <2>9
<1>4. ASSUME NEW c \in RtcCalls, Retried!Attempt(c) PROVE CallsIInv'
  <2> DEFINE n == Len(rtcMet[c]) + 1
             kind == rtcCall[c].kind
  <2>1. PICK answer \in Retried!Answers, applied \in BOOLEAN :
          /\ rtcMet' = [rtcMet EXCEPT ![c] = Append(@, [answer |-> answer, applied |-> applied])]
          /\ rtcCall' = [rtcCall EXCEPT ![c] =
               IF Retried!Accepts(kind, answer) THEN [@ EXCEPT !.step = "over", !.told = Retried!Told(kind, answer, n)]
               ELSE IF n = RtcRetries
                 THEN [@ EXCEPT !.step = "over",
                                !.told = Retried!GivenUp(kind, IF answer.kind = "broken" THEN n ELSE rtcCall[c].answered),
                                !.answered = IF answer.kind = "broken" THEN n ELSE rtcCall[c].answered]
               ELSE [@ EXCEPT !.answered = IF answer.kind = "broken" THEN n ELSE rtcCall[c].answered]]
    BY <1>4 DEF Retried!Attempt, Retried!Exhausted
  <2> DEFINE e == [answer |-> answer, applied |-> applied]
             answered == IF answer.kind = "broken" THEN n ELSE rtcCall[c].answered
  <2>2. /\ rtcCall \in [RtcCalls -> Retried!Call] /\ rtcCall[c] \in Retried!Call
        /\ rtcMet \in [RtcCalls -> Seq([answer : Retried!Answers, applied : BOOLEAN])]
        /\ rtcMet[c] \in Seq([answer : Retried!Answers, applied : BOOLEAN])
        /\ rtcCall[c].step = "trying" /\ kind \in Retried!Kinds /\ rtcCall[c].told = AgtNone
        /\ Len(rtcMet[c]) < RtcRetries
        /\ rtcCall[c].kind = "post" => NoneAnswered(rtcMet[c], rtcCall[c].answered)
        /\ rtcCall[c].kind # "post" => \A i \in DOMAIN rtcMet[c] : rtcMet[c][i].answer.kind # "list"
    BY <1>0, <1>4 DEF Retried!Attempt, Retried!Exhausted, Retried!TypeOK, AttemptsSound
  <2>3. e \in [answer : Retried!Answers, applied : BOOLEAN] /\ e.answer = answer
    OBVIOUS
  <2> HIDE DEF e
  <2>4. /\ rtcMet' \in [RtcCalls -> Seq([answer : Retried!Answers, applied : BOOLEAN])]
        /\ Len(rtcMet[c]) \in Nat /\ n \in 1..RtcRetries /\ Len(rtcMet'[c]) = n
        /\ DOMAIN rtcMet'[c] = 1..n
        /\ \A i \in 1..(n - 1) : i \in DOMAIN rtcMet[c] /\ rtcMet'[c][i] = rtcMet[c][i]
        /\ DOMAIN rtcMet[c] = 1..(n - 1) /\ rtcMet'[c][n] = e
        /\ \A d \in RtcCalls \ {c} : rtcMet'[d] = rtcMet[d]
    <3>1. rtcMet'[c] = Append(rtcMet[c], e) /\ \A d \in RtcCalls \ {c} : rtcMet'[d] = rtcMet[d]
      BY <2>1, <2>2 DEF e
    <3>2. Append(rtcMet[c], e) \in Seq([answer : Retried!Answers, applied : BOOLEAN])
      BY <2>2, <2>3
    <3>3. rtcMet' \in [RtcCalls -> Seq([answer : Retried!Answers, applied : BOOLEAN])]
      BY <2>1, <2>2, <3>2 DEF e
    <3>4. Len(rtcMet[c]) \in Nat /\ n \in 1..RtcRetries /\ DOMAIN rtcMet[c] = 1..(n - 1)
      BY <2>2
    <3>5. Len(rtcMet'[c]) = n /\ DOMAIN rtcMet'[c] = 1..n /\ rtcMet'[c][n] = e
      BY <2>2, <2>3, <3>1, <3>4
    <3>6. \A i \in 1..(n - 1) : rtcMet'[c][i] = rtcMet[c][i]
      BY <2>2, <2>3, <3>1, <3>4
    <3> QED
      BY <3>1, <3>3, <3>4, <3>5, <3>6
  <2>5. answered \in 0..RtcRetries /\ n \in Nat /\ RtcTop \in Nat
    BY <2>2, <2>4 DEF Retried!Call
  <2>6. rtcMet'[c][n].answer = answer
    BY <2>3, <2>4
  <2>x. \A i \in 1..n : i = n \/ i \in 1..(n - 1)
    BY <2>5
  <2> HIDE DEF n
  <2>7. ASSUME kind = "post", Retried!Accepts(kind, answer)
        PROVE  rtcCall'[c] \in Retried!Call /\ AttemptsSound(c)' /\ FetchSound(c)'
    <3>1. Retried!Told(kind, answer, n) = [kind |-> "answer", about |-> n]
      BY <2>7 DEF Retried!Told
    <3>2. rtcCall'[c] = [rtcCall[c] EXCEPT !.step = "over", !.told = [kind |-> "answer", about |-> n]]
      BY <2>1, <2>2, <2>7, <3>1 DEF n
    <3>3. /\ rtcCall'[c] \in Retried!Call /\ rtcCall'[c].step = "over"
          /\ rtcCall'[c].told.kind = "answer" /\ rtcCall'[c].kind = "post"
      <4> DEFINE told == [kind |-> "answer", about |-> n]
      <4>1. told \in Retried!Outcome /\ told.kind = "answer"
        BY <2>5 DEF Retried!Outcome
      <4> HIDE DEF told
      <4>2. rtcCall'[c] = [rtcCall[c] EXCEPT !.step = "over", !.told = told]
        BY <3>2 DEF told
      <4> QED
        BY <2>2, <2>7, <4>1, <4>2 DEF Retried!Call
    <3>4. \A i \in 1..(Len(rtcMet'[c]) - 1) : rtcMet'[c][i].answer.kind \in {"broken", "silent"}
      BY <2>2, <2>4, <2>7 DEF NoneAnswered
    <3> QED
      BY <3>3, <3>4 DEF AttemptsSound, FetchSound
  <2>8. ASSUME kind = "post", ~Retried!Accepts(kind, answer)
        PROVE  rtcCall'[c] \in Retried!Call /\ AttemptsSound(c)' /\ FetchSound(c)'
    <3>1. answer.kind \in {"broken", "silent"}
      BY <2>8 DEF Retried!Accepts
    <3>2. NoneAnswered(rtcMet'[c], answered)
      <4>1. NoneAnswered(rtcMet[c], rtcCall[c].answered) /\ rtcCall[c].answered \in Nat
        BY <2>2, <2>8 DEF Retried!Call
      <4>2. \A i \in 1..n : rtcMet'[c][i].answer.kind \in {"broken", "silent"}
        BY <2>4, <2>6, <2>x, <3>1, <4>1 DEF NoneAnswered
      <4>3. CASE answer.kind = "broken"
        <5>1. answered = n
          BY <4>3
        <5> QED
          BY <2>4, <2>5, <2>6, <4>2, <4>3, <5>1 DEF NoneAnswered
      <4>4. CASE answer.kind = "silent"
        <5>1. answered = rtcCall[c].answered
          BY <4>4
        <5>2. rtcCall[c].answered # 0 => rtcCall[c].answered \in 1..(n - 1)
          BY <2>4, <4>1 DEF NoneAnswered
        <5>3. \A i \in 1..n : i > rtcCall[c].answered => rtcMet'[c][i].answer.kind = "silent"
          BY <2>4, <2>6, <2>x, <4>1, <4>4 DEF NoneAnswered
        <5>4. rtcCall[c].answered # 0 => rtcMet'[c][rtcCall[c].answered].answer.kind = "broken"
          BY <2>4, <4>1, <5>2 DEF NoneAnswered
        <5>5. rtcCall[c].answered # 0 => rtcCall[c].answered \in 1..n
          BY <2>5, <5>2
        <5> HIDE DEF answered
        <5> QED
          BY <2>4, <4>2, <5>1, <5>3, <5>4, <5>5 DEF NoneAnswered
      <4> QED
        BY <3>1, <4>3, <4>4
    <3> HIDE DEF answered
    <3>3. \A i \in 1..(Len(rtcMet'[c]) - 1) : rtcMet'[c][i].answer.kind \in {"broken", "silent"}
      BY <2>4, <2>5, <3>2 DEF NoneAnswered
    <3>4. CASE n = RtcRetries
      <4>1. Retried!GivenUp(kind, answered) = [kind |-> "raised", about |-> answered]
        BY <2>8 DEF Retried!GivenUp
      <4>2. rtcCall'[c] = [rtcCall[c] EXCEPT !.step = "over", !.told = [kind |-> "raised", about |-> answered], !.answered = answered]
        BY <2>1, <2>2, <2>8, <3>4, <4>1 DEF n, answered
      <4>3. /\ rtcCall'[c] \in Retried!Call /\ rtcCall'[c].step = "over"
            /\ rtcCall'[c].told.kind = "raised" /\ rtcCall'[c].kind = "post"
            /\ rtcCall'[c].told.about = answered
        <5> DEFINE told == [kind |-> "raised", about |-> answered]
        <5>1. told \in Retried!Outcome /\ told.kind = "raised" /\ told.about = answered
          BY <2>5 DEF Retried!Outcome
        <5> HIDE DEF told
        <5>2. rtcCall'[c] = [rtcCall[c] EXCEPT !.step = "over", !.told = told, !.answered = answered]
          BY <4>2 DEF told
        <5> QED
          BY <2>2, <2>5, <2>8, <5>1, <5>2 DEF Retried!Call
      <4>4. NoneAnswered(rtcMet'[c], rtcCall'[c].told.about)
        BY <3>2, <4>3 DEF NoneAnswered
      <4> QED
        BY <2>4, <3>3, <3>4, <4>3, <4>4 DEF AttemptsSound, FetchSound
    <3>5. CASE n # RtcRetries
      <4>1. rtcCall'[c] = [rtcCall[c] EXCEPT !.answered = answered]
        BY <2>1, <2>2, <2>8, <3>5 DEF n, answered
      <4>2. /\ rtcCall'[c] \in Retried!Call /\ rtcCall'[c].step = "trying"
            /\ rtcCall'[c].told = AgtNone /\ rtcCall'[c].kind = "post"
            /\ rtcCall'[c].answered = answered
        BY <2>2, <2>5, <2>8, <4>1 DEF Retried!Call
      <4>3. NoneAnswered(rtcMet'[c], rtcCall'[c].answered) /\ Len(rtcMet'[c]) < RtcRetries
        BY <2>4, <3>2, <3>5, <4>2 DEF NoneAnswered
      <4> QED
        BY <2>2, <2>8, <3>3, <4>2, <4>3 DEF AttemptsSound, FetchSound
    <3> QED
      BY <3>4, <3>5
  <2>9. ASSUME kind # "post", Retried!Accepts(kind, answer)
        PROVE  rtcCall'[c] \in Retried!Call /\ AttemptsSound(c)' /\ FetchSound(c)'
    <3> DEFINE told == Retried!Told(kind, answer, n)
    <3>1. answer.kind = "list" /\ kind \in {"discover", "health"}
      BY <2>2, <2>9 DEF Retried!Accepts, Retried!Kinds
    <3>2. answer.items \in Seq(BOOLEAN) /\ Len(answer.items) \in Nat
      BY <3>1 DEF Retried!Answers
    <3>3. /\ told \in Retried!Outcome /\ told.kind \in {"ok", "internal", "items"}
          /\ told.kind = "items" => told.about <= Len(answer.items) /\ told.about <= RtcTop
      <4>1. CASE kind = "health"
        BY <2>5, <4>1 DEF Retried!Told, Retried!Outcome
      <4>2. CASE kind = "discover" /\ \E i \in DOMAIN answer.items : ~answer.items[i]
        <5>1. told = [kind |-> "internal", about |-> n]
          BY <4>2 DEF Retried!Told
        <5> QED
          BY <2>5, <5>1 DEF Retried!Outcome
      <4>3. CASE kind = "discover" /\ ~\E i \in DOMAIN answer.items : ~answer.items[i]
        <5>1. told = [kind |-> "items", about |-> IF Len(answer.items) < RtcTop THEN Len(answer.items) ELSE RtcTop]
          BY <4>3 DEF Retried!Told
        <5> QED
          BY <2>5, <3>2, <5>1 DEF Retried!Outcome
      <4> QED
        BY <3>1, <4>1, <4>2, <4>3
    <3> HIDE DEF told
    <3>4. rtcCall'[c] = [rtcCall[c] EXCEPT !.step = "over", !.told = told]
      BY <2>1, <2>2, <2>9 DEF n, told
    <3>5. /\ rtcCall'[c] \in Retried!Call /\ rtcCall'[c].step = "over" /\ rtcCall'[c].told = told
          /\ rtcCall'[c].kind = kind
      BY <2>2, <3>3, <3>4 DEF Retried!Call
    <3>6. {i \in DOMAIN rtcMet'[c] : rtcMet'[c][i].answer.kind = "list"} = {n}
      BY <2>2, <2>4, <2>5, <2>6, <2>9, <3>1
    <3>7. FetchSound(c)'
      BY <2>4, <2>6, <3>1, <3>3, <3>5, <3>6 DEF FetchSound
    <3>8. AttemptsSound(c)'
      BY <2>9, <3>3, <3>5 DEF AttemptsSound
    <3> QED
      BY <3>5, <3>7, <3>8
  <2>10. ASSUME kind # "post", ~Retried!Accepts(kind, answer)
         PROVE  rtcCall'[c] \in Retried!Call /\ AttemptsSound(c)' /\ FetchSound(c)'
    <3>1. answer.kind # "list" /\ kind \in {"discover", "health"}
      BY <2>2, <2>10 DEF Retried!Accepts, Retried!Kinds
    <3>2. \A i \in DOMAIN rtcMet'[c] : rtcMet'[c][i].answer.kind # "list"
      BY <2>2, <2>4, <2>6, <2>x, <2>10, <3>1
    <3> HIDE DEF answered
    <3>3. CASE n = RtcRetries
      <4> DEFINE told == Retried!GivenUp(kind, answered)
      <4>1. told \in Retried!Outcome /\ told.kind \in {"degraded", "unavailable"}
        BY <3>1 DEF Retried!GivenUp, Retried!Outcome
      <4> HIDE DEF told
      <4>2. rtcCall'[c] = [rtcCall[c] EXCEPT !.step = "over", !.told = told, !.answered = answered]
        BY <2>1, <2>2, <2>10, <3>3 DEF n, told, answered
      <4>3. /\ rtcCall'[c] \in Retried!Call /\ rtcCall'[c].step = "over" /\ rtcCall'[c].told = told
            /\ rtcCall'[c].kind = kind
        BY <2>2, <2>5, <4>1, <4>2 DEF Retried!Call
      <4>4. FetchSound(c)'
        BY <3>2, <4>1, <4>3 DEF FetchSound
      <4> QED
        BY <2>10, <4>1, <4>3, <4>4 DEF AttemptsSound
    <3>4. CASE n # RtcRetries
      <4>1. rtcCall'[c] = [rtcCall[c] EXCEPT !.answered = answered]
        BY <2>1, <2>2, <2>10, <3>4 DEF n, answered
      <4>2. /\ rtcCall'[c] \in Retried!Call /\ rtcCall'[c].step = "trying"
            /\ rtcCall'[c].told = AgtNone /\ rtcCall'[c].kind = kind
        BY <2>2, <2>5, <4>1 DEF Retried!Call
      <4>3. Len(rtcMet'[c]) < RtcRetries
        BY <2>4, <3>4
      <4> QED
        BY <2>2, <2>10, <3>2, <4>2, <4>3 DEF AttemptsSound, FetchSound
    <3> QED
      BY <3>3, <3>4
  <2>11. rtcCall'[c] \in Retried!Call /\ AttemptsSound(c)' /\ FetchSound(c)'
    BY <2>7, <2>8, <2>9, <2>10
  <2>12. \A d \in RtcCalls \ {c} : rtcCall'[d] = rtcCall[d]
    BY <2>1, <2>2
  <2>13. rtcCall' \in [RtcCalls -> Retried!Call]
    <3>1. rtcCall' = [d \in RtcCalls |-> rtcCall'[d]]
      BY <2>1, <2>2
    <3> QED
      BY <2>2, <2>11, <2>12, <3>1
  <2>14. Retried!TypeOK'
    <3>1. \A d \in RtcCalls : Len(rtcMet'[d]) \in 0..RtcRetries
      <4>1. Len(rtcMet'[c]) \in 0..RtcRetries
        BY <2>4
      <4>2. \A d \in RtcCalls \ {c} : Len(rtcMet'[d]) \in 0..RtcRetries
        BY <1>0, <2>4 DEF Retried!TypeOK
      <4> QED
        BY <4>1, <4>2
    <3> QED
      BY <2>4, <2>13, <3>1 DEF Retried!TypeOK
  <2> QED
    BY <1>2, <2>4, <2>11, <2>12, <2>14 DEF CallsIInv
<1> QED
  BY <1>1, <1>3, <1>4 DEF Retried!Next

(* What a call that was tried again is told, for any number of attempts.   *)
THEOREM CallsToldApart ==
    ASSUME Retried!CallsAssumption PROVE Retried!Spec => []Retried!CallsInv
<1> QED
  BY CallsImply, CallsInit, CallsStep, PTL DEF Retried!Spec

-----------------------------------------------------------------------------
(* model/gossip of rl-trainer.                                             *)

(* Weights that are made of those the nodes started with and those others  *)
(* sent.                                                                   *)
Drawn(w) ==
    /\ w \in Seq(Nat) /\ \E l \in Gossip!Lists : Len(w) = Len(l)
    /\ \A i \in DOMAIN w : (\E l \in Gossip!All(i) : l <= w[i]) /\ (\E h \in Gossip!All(i) : w[i] <= h)

MessageSound(m) ==
    /\ m.to \in GspNodes
    /\ m.says = "numbers" => Drawn(m.body)
    /\ m.says \in {"words", "noise", "reset"} => m.to \in gspSpoilt

GossipIInv ==
    /\ Gossip!TypeOK /\ Gossip!EndExplained /\ \A m \in gspFlying : MessageSound(m)
    /\ \A n \in GspNodes : Drawn(gspWeights[n]) /\ Len(gspWeights[n]) <= Len(GspWeights[n])

LEMMA ListsOfNumbers ==
    ASSUME Gossip!GossipAssumption, gspMet \subseteq GspForeign
    PROVE  /\ \A l \in Gossip!Lists : l \in Seq(Nat)
           /\ \A i : \A x \in Gossip!All(i) : x \in Nat
           /\ \A l \in Gossip!Lists : \A i \in DOMAIN l : l[i] \in Gossip!All(i)
<1>1. \A l \in Gossip!Lists : l \in Seq(Nat)
  BY DEF Gossip!Lists, Gossip!GossipAssumption
<1>2. \A l \in Seq(Nat) : \A i \in DOMAIN l : l[i] \in Nat
  OBVIOUS
<1> QED
  BY <1>1, <1>2 DEF Gossip!All

(* Averages of weights that are made of those are so, too.                 *)
LEMMA MergedDrawn ==
    ASSUME Gossip!GossipAssumption, gspMet \subseteq GspForeign, NEW v, Drawn(v), NEW w, Drawn(w)
    PROVE  Drawn(Gossip!Merged(v, w)) /\ Len(Gossip!Merged(v, w)) <= Len(v)
<1> DEFINE m == Gossip!Merged(v, w)
           n == IF Len(v) <= Len(w) THEN Len(v) ELSE Len(w)
<1>1. /\ v \in Seq(Nat) /\ w \in Seq(Nat) /\ Len(v) \in Nat /\ Len(w) \in Nat
      /\ DOMAIN v = 1..Len(v) /\ DOMAIN w = 1..Len(w)
  BY DEF Drawn
<1>2. n \in Nat /\ n <= Len(v) /\ DOMAIN v \cap DOMAIN w = 1..n
  BY <1>1
<1>3. \A i \in 1..n : v[i] \in Nat /\ w[i] \in Nat /\ (v[i] + w[i]) \div 2 \in Nat
  <2>1. ASSUME NEW i \in 1..n PROVE v[i] \in Nat /\ w[i] \in Nat
    <3>1. i \in 1..Len(v) /\ i \in 1..Len(w)
      BY <1>1, <1>2
    <3> QED
      BY <1>1, <3>1
  <2>2. \A a, b \in Nat : (a + b) \div 2 \in Nat
    OBVIOUS
  <2> QED
    BY <2>1, <2>2
<1>4. m = [i \in 1..n |-> (v[i] + w[i]) \div 2]
  BY <1>2 DEF Gossip!Merged
<1> HIDE DEF n, m
<1>5. m \in Seq(Nat) /\ Len(m) = n /\ DOMAIN m = 1..n
  BY <1>2, <1>3, <1>4
<1>6. \E l \in Gossip!Lists : Len(m) = Len(l)
  BY <1>5 DEF n, Drawn
<1>7. ASSUME NEW i \in DOMAIN m
      PROVE  (\E l \in Gossip!All(i) : l <= m[i]) /\ (\E h \in Gossip!All(i) : m[i] <= h)
  <2>1. i \in 1..n /\ i \in DOMAIN v /\ i \in DOMAIN w /\ m[i] = (v[i] + w[i]) \div 2
          /\ v[i] \in Nat /\ w[i] \in Nat
    BY <1>2, <1>3, <1>4, <1>5, <1>7
  <2>2. \A x \in Gossip!All(i) : x \in Nat
    BY ListsOfNumbers
  <2>3. PICK a \in Gossip!All(i), b \in Gossip!All(i), c \in Gossip!All(i), d \in Gossip!All(i) :
          a <= v[i] /\ v[i] <= b /\ c <= w[i] /\ w[i] <= d
    BY <2>1 DEF Drawn
  <2>4. a \in Nat /\ b \in Nat /\ c \in Nat /\ d \in Nat
    BY <2>2
  <2>5. (a <= m[i] \/ c <= m[i]) /\ (m[i] <= b \/ m[i] <= d)
    BY <2>1, <2>3, <2>4
  <2> QED
    BY <2>5
<1> QED
  BY <1>2, <1>5, <1>6, <1>7 DEF Drawn, m

(* What is made of the lists there are is made of those there will be.     *)
LEMMA DrawnStays ==
    ASSUME gspMet \subseteq gspMet', NEW w, Drawn(w) PROVE Drawn(w)'
<1>1. \A l \in Gossip!Lists : l \in Gossip!Lists'
  BY DEF Gossip!Lists
<1>2. \A i : \A x \in Gossip!All(i) : x \in Gossip!All(i)'
  BY <1>1 DEF Gossip!All
<1> QED
  BY <1>1, <1>2 DEF Drawn

LEMMA WeightsStay ==
    ASSUME GossipIInv, gspMet \subseteq gspMet', UNCHANGED gspWeights
    PROVE  \A n \in GspNodes : Drawn(gspWeights[n])' /\ Len(gspWeights'[n]) <= Len(GspWeights[n])
<1>1. \A n \in GspNodes : Drawn(gspWeights[n]) /\ Len(gspWeights[n]) <= Len(GspWeights[n])
  BY DEF GossipIInv
<1>2. \A w : Drawn(w) => Drawn(w)'
  BY DrawnStays
<1>3. ASSUME NEW n \in GspNodes PROVE Drawn(gspWeights[n])'
  <2>1. PICK w : w = gspWeights[n]
    OBVIOUS
  <2>2. Drawn(w)'
    BY <1>1, <1>2, <2>1
  <2>3. gspWeights'[n] = w
    BY <2>1
  <2> QED
    BY <2>2, <2>3 DEF Drawn
<1> QED
  BY <1>1, <1>3

LEMMA MessagesStay ==
    ASSUME GossipIInv, gspMet \subseteq gspMet', gspSpoilt \subseteq gspSpoilt'
    PROVE  \A m \in gspFlying : MessageSound(m)'
<1>1. \A w : Drawn(w) => Drawn(w)'
  BY DrawnStays
<1>2. ASSUME NEW m \in gspFlying PROVE MessageSound(m)'
  <2>1. MessageSound(m)
    BY DEF GossipIInv
  <2>2. PICK w : w = m.body
    OBVIOUS
  <2>3. m.says = "numbers" => Drawn(w)'
    BY <1>1, <2>1, <2>2 DEF MessageSound
  <2> QED
    BY <2>1, <2>2, <2>3 DEF MessageSound
<1> QED
  BY <1>2

LEMMA GossipInit ==
    ASSUME Gossip!GossipAssumption PROVE Gossip!Init => GossipIInv
<1> SUFFICES ASSUME Gossip!Init PROVE GossipIInv
  OBVIOUS
<1>1. Gossip!TypeOK /\ Gossip!EndExplained /\ gspFlying = {} /\ gspWeights = GspWeights /\ gspMet = {}
  BY DEF Gossip!GossipAssumption, Gossip!Init, Gossip!TypeOK, Gossip!EndExplained
<1>2. ASSUME NEW n \in GspNodes PROVE Drawn(gspWeights[n]) /\ Len(gspWeights[n]) <= Len(GspWeights[n])
  <2>1. gspWeights[n] = GspWeights[n] /\ GspWeights[n] \in Seq(Nat) /\ Len(GspWeights[n]) \in Nat
    BY <1>1 DEF Gossip!GossipAssumption
  <2>2. GspWeights[n] \in Gossip!Lists
    BY DEF Gossip!Lists
  <2>3. \A i \in DOMAIN GspWeights[n] : GspWeights[n][i] \in Gossip!All(i) /\ GspWeights[n][i] <= GspWeights[n][i]
    BY <1>1, <2>1, <2>2, ListsOfNumbers
  <2> QED
    BY <2>1, <2>2, <2>3 DEF Drawn
<1> QED
  BY <1>1, <1>2 DEF GossipIInv

(* A connection says something: what the others said stays sound.          *)
LEMMA GossipSays ==
    ASSUME Gossip!GossipAssumption, GossipIInv, NEW m \in gspFlying, NEW what \in Gossip!Says, NEW body \in Seq(Nat),
           Gossip!Say(m, what, body), UNCHANGED <<gspWeights, gspListening, gspSent>>,
           gspMet \subseteq gspMet', gspMet' \subseteq GspForeign,
           gspSpoilt \subseteq gspSpoilt', gspSpoilt' \subseteq GspNodes,
           what = "numbers" => Drawn(body)', what \in {"words", "noise", "reset"} => m.to \in gspSpoilt'
    PROVE  GossipIInv'
<1> DEFINE new == [m EXCEPT !.says = what, !.body = body]
           R == [to : GspNodes, from : GspNodes \cup {AgtNone}, nr : 0..GspMaxSent, says : Gossip!Says, body : Seq(Nat)]
<1>0. Gossip!TypeOK /\ Gossip!EndExplained
  BY DEF GossipIInv
<1>1. m \in R
  BY <1>0 DEF Gossip!TypeOK
<1>2. new \in R /\ new.to = m.to /\ new.says = what /\ new.body = body
  BY <1>1
<1>3. gspFlying' \subseteq gspFlying \cup {new}
  BY DEF Gossip!Say
<1> HIDE DEF new
<1>4. \A o \in gspFlying' : MessageSound(o)'
  <2>1. MessageSound(new)'
    BY <1>2 DEF MessageSound
  <2> QED
    BY <1>3, <2>1, MessagesStay
<1>5. Gossip!TypeOK'
  BY <1>0, <1>2, <1>3 DEF Gossip!TypeOK
<1>6. Gossip!EndExplained'
  BY <1>0 DEF Gossip!EndExplained
<1> QED
  BY <1>4, <1>5, <1>6, WeightsStay DEF GossipIInv

LEMMA GossipStep ==
    ASSUME Gossip!GossipAssumption, GossipIInv, [Gossip!Next]_(Gossip!vars)
    PROVE  GossipIInv'
<1> USE DEF Gossip!GossipAssumption
<1>0. Gossip!TypeOK /\ Gossip!EndExplained /\ \A m \in gspFlying : MessageSound(m)
  BY DEF GossipIInv
<1>1. CASE UNCHANGED Gossip!vars
  <2>1. UNCHANGED <<gspWeights, gspListening, gspFlying, gspSent, gspSpoilt, gspMet>>
    BY <1>1 DEF Gossip!vars, Gossip!historyVars
  <2>2. Gossip!TypeOK' /\ Gossip!EndExplained'
    BY <1>0, <2>1 DEF Gossip!TypeOK, Gossip!EndExplained
  <2> QED
    BY <2>1, <2>2, WeightsStay, MessagesStay DEF GossipIInv
<1>2. ASSUME NEW n \in GspNodes, Gossip!StartServer(n) PROVE GossipIInv'
  <2>1. UNCHANGED <<gspWeights, gspFlying, gspSent, gspSpoilt, gspMet>>
    BY <1>2 DEF Gossip!StartServer, Gossip!historyVars
  <2>2. Gossip!TypeOK' /\ Gossip!EndExplained'
    BY <1>0, <1>2, <2>1 DEF Gossip!StartServer, Gossip!TypeOK, Gossip!EndExplained
  <2> QED
    BY <2>1, <2>2, WeightsStay, MessagesStay DEF GossipIInv
<1>3. ASSUME NEW to \in GspNodes, NEW from \in GspNodes \cup {AgtNone}, Gossip!Connect(from, to) PROVE GossipIInv'
  <2> DEFINE R == [to : GspNodes, from : GspNodes \cup {AgtNone}, nr : 0..GspMaxSent, says : Gossip!Says, body : Seq(Nat)]
  <2>0. PICK m : m = [to |-> to, from |-> from, nr |-> gspSent, says |-> "nothing", body |-> <<>>]
    OBVIOUS
  <2>1. gspSent' \in 0..GspMaxSent /\ gspFlying' = gspFlying \cup {m} /\ gspSent \in 0..GspMaxSent
          /\ UNCHANGED <<gspWeights, gspListening, gspSpoilt, gspMet>>
    BY <1>0, <1>3, <2>0 DEF Gossip!Connect, Gossip!TypeOK, Gossip!historyVars
  <2>2. m \in R /\ m.to = to /\ m.says = "nothing"
    BY <2>0, <2>1 DEF Gossip!Says
  <2>3. MessageSound(m)'
    BY <2>2 DEF MessageSound
  <2>4. \A o \in gspFlying' : MessageSound(o)'
    BY <2>1, <2>3, MessagesStay
  <2>5. Gossip!TypeOK' /\ Gossip!EndExplained'
    BY <1>0, <2>1, <2>2 DEF Gossip!TypeOK, Gossip!EndExplained
  <2> QED
    BY <2>1, <2>4, <2>5, WeightsStay DEF GossipIInv
<1>4. ASSUME NEW m \in gspFlying, Gossip!Gossip(m) PROVE GossipIInv'
  <2>1. /\ Gossip!Say(m, "numbers", gspWeights[m.from])
        /\ UNCHANGED <<gspWeights, gspListening, gspSent, gspSpoilt, gspMet>>
        /\ m.from \in GspNodes
    BY <1>0, <1>4 DEF Gossip!Gossip, Gossip!TypeOK, Gossip!historyVars
  <2>2. PICK body \in Seq(Nat) : body = gspWeights[m.from]
    BY <1>0, <2>1 DEF Gossip!TypeOK
  <2>3. Drawn(body)
    BY <2>1, <2>2 DEF GossipIInv
  <2>4. Drawn(body)'
    BY <2>1, <2>3, DrawnStays
  <2>5. gspMet' \subseteq GspForeign /\ gspSpoilt' \subseteq GspNodes /\ "numbers" \in Gossip!Says
    BY <1>0, <2>1 DEF Gossip!TypeOK, Gossip!Says
  <2> QED
    BY <2>1, <2>2, <2>4, <2>5, GossipSays
<1>5. ASSUME NEW m \in gspFlying, Gossip!Stranger(m) PROVE GossipIInv'
  <2>1. UNCHANGED <<gspWeights, gspListening, gspSent>> /\ m.to \in GspNodes
          /\ gspMet \subseteq GspForeign /\ gspSpoilt \subseteq GspNodes
    BY <1>0, <1>5 DEF Gossip!Stranger, Gossip!TypeOK
  <2>2. CASE \E b \in GspForeign : Gossip!Say(m, "numbers", b) /\ gspMet' = gspMet \cup {b} /\ UNCHANGED gspSpoilt
    <3>1. PICK b \in GspForeign : Gossip!Say(m, "numbers", b) /\ gspMet' = gspMet \cup {b} /\ UNCHANGED gspSpoilt
      BY <2>2
    <3>2. b \in Seq(Nat) /\ gspMet' \subseteq GspForeign /\ "numbers" \in Gossip!Says
      BY <2>1, <3>1 DEF Gossip!Says
    <3>3. b \in Gossip!Lists'
      BY <3>1 DEF Gossip!Lists
    <3>4. \A i \in DOMAIN b : b[i] \in Gossip!All(i)' /\ b[i] \in Nat
      BY <3>2, <3>3 DEF Gossip!All
    <3>5. Drawn(b)'
      BY <3>2, <3>3, <3>4 DEF Drawn
    <3> QED
      BY <2>1, <3>1, <3>2, <3>5, GossipSays
  <2>3. CASE \E what \in {"words", "noise"} :
               Gossip!Say(m, what, <<>>) /\ gspSpoilt' = gspSpoilt \cup {m.to} /\ UNCHANGED gspMet
    <3>1. PICK what \in {"words", "noise"} :
            Gossip!Say(m, what, <<>>) /\ gspSpoilt' = gspSpoilt \cup {m.to} /\ UNCHANGED gspMet
      BY <2>3
    <3>2. what \in Gossip!Says /\ what # "numbers" /\ <<>> \in Seq(Nat) /\ gspSpoilt' \subseteq GspNodes
      BY <2>1, <3>1 DEF Gossip!Says
    <3> QED
      BY <2>1, <3>1, <3>2, GossipSays
  <2> QED
    BY <1>5, <2>2, <2>3 DEF Gossip!Stranger
<1>6. ASSUME NEW m \in gspFlying, Gossip!Leave(m) PROVE GossipIInv'
  <2>1. UNCHANGED <<gspWeights, gspListening, gspSent, gspMet>> /\ m.to \in GspNodes
          /\ gspMet \subseteq GspForeign /\ gspSpoilt \subseteq GspNodes
    BY <1>0, <1>6 DEF Gossip!Leave, Gossip!TypeOK
  <2>2. "end" \in Gossip!Says /\ "reset" \in Gossip!Says /\ <<>> \in Seq(Nat)
    BY DEF Gossip!Says
  <2>3. CASE Gossip!Say(m, "end", <<>>) /\ UNCHANGED gspSpoilt
    BY <2>1, <2>2, <2>3, GossipSays
  <2>4. CASE Gossip!Say(m, "reset", <<>>) /\ gspSpoilt' = gspSpoilt \cup {m.to}
    BY <2>1, <2>2, <2>4, GossipSays
  <2> QED
    BY <1>6, <2>3, <2>4 DEF Gossip!Leave
<1>7. ASSUME NEW m \in gspFlying, Gossip!Receive(m) PROVE GossipIInv'
  <2>1. PICK whole \in BOOLEAN :
          /\ gspListening' = IF Gossip!Raises(m, whole) THEN [gspListening EXCEPT ![m.to] = "raised"] ELSE gspListening
          /\ gspWeights' = IF m.says = "numbers" /\ whole
                           THEN [gspWeights EXCEPT ![m.to] = Gossip!Merged(@, m.body)] ELSE gspWeights
          /\ gspSpoilt' = IF m.says = "numbers" /\ ~whole THEN gspSpoilt \cup {m.to} ELSE gspSpoilt
    BY <1>7 DEF Gossip!Receive
  <2>2. gspFlying' \subseteq gspFlying /\ UNCHANGED <<gspSent, gspMet>> /\ m.to \in GspNodes /\ MessageSound(m)
    BY <1>0, <1>7 DEF Gossip!Receive, MessageSound
  <2>3. gspSpoilt \subseteq gspSpoilt' /\ gspSpoilt' \subseteq GspNodes
    BY <1>0, <2>1, <2>2 DEF Gossip!TypeOK
  <2>4. \A o \in gspFlying' : MessageSound(o)'
    BY <2>2, <2>3, MessagesStay
  <2>5. Gossip!Raises(m, whole) => m.to \in gspSpoilt'
    BY <2>1, <2>2, <2>3 DEF Gossip!Raises, MessageSound
  <2>6. gspListening' \in [GspNodes -> {"no", "yes", "taken", "raised"}] /\ Gossip!EndExplained'
    BY <1>0, <2>1, <2>2, <2>3, <2>5 DEF Gossip!TypeOK, Gossip!EndExplained
  <2>7. CASE m.says = "numbers" /\ whole
    <3>1. gspWeights' = [gspWeights EXCEPT ![m.to] = Gossip!Merged(@, m.body)]
      BY <2>1, <2>7, Zenon
    <3> DEFINE w == Gossip!Merged(gspWeights[m.to], m.body)
    <3>2. Drawn(gspWeights[m.to]) /\ Len(gspWeights[m.to]) <= Len(GspWeights[m.to]) /\ gspMet \subseteq GspForeign
      BY <1>0, <2>2 DEF GossipIInv, Gossip!TypeOK
    <3>3. Drawn(w) /\ Len(w) <= Len(gspWeights[m.to])
      BY <2>2, <2>7, <3>2, MergedDrawn DEF MessageSound
    <3>4. gspWeights \in [GspNodes -> Seq(Nat)] /\ w \in Seq(Nat)
      BY <1>0, <3>3 DEF Gossip!TypeOK, Drawn
    <3>5. \A n \in GspNodes : gspWeights'[n] = IF n = m.to THEN w ELSE gspWeights[n]
      BY <3>1, <3>4
    <3>6. gspWeights' \in [GspNodes -> Seq(Nat)]
      BY <2>2, <3>1, <3>4
    <3> HIDE DEF w
    <3>7. Len(w) <= Len(GspWeights[m.to])
      BY <2>2, <3>2, <3>3, <3>4
    <3>8. \A x : Drawn(x) => Drawn(x)'
      BY <2>2, DrawnStays
    <3>9. ASSUME NEW n \in GspNodes PROVE Drawn(gspWeights[n])' /\ Len(gspWeights'[n]) <= Len(GspWeights[n])
      <4>1. PICK x : x = gspWeights'[n]
        OBVIOUS
      <4>2. Drawn(x) /\ Len(x) <= Len(GspWeights[n])
        BY <3>3, <3>5, <3>7, <4>1 DEF GossipIInv
      <4>3. Drawn(x)'
        BY <3>8, <4>2
      <4> QED
        BY <4>1, <4>2, <4>3 DEF Drawn
    <3>10. Gossip!TypeOK'
      BY <1>0, <2>2, <2>3, <2>6, <3>6 DEF Gossip!TypeOK
    <3> QED
      BY <2>4, <2>6, <3>9, <3>10 DEF GossipIInv
  <2>8. CASE ~(m.says = "numbers" /\ whole)
    <3>1. UNCHANGED gspWeights
      BY <2>1, <2>8, Zenon
    <3>2. Gossip!TypeOK'
      BY <1>0, <2>2, <2>3, <2>6, <3>1 DEF Gossip!TypeOK
    <3> QED
      BY <2>2, <2>4, <2>6, <3>1, <3>2, WeightsStay DEF GossipIInv
  <2> QED
    BY <2>7, <2>8
<1> QED
  BY <1>1, <1>2, <1>3, <1>4, <1>5, <1>6, <1>7 DEF Gossip!Next

(* Whatever the nodes start with, whatever others send and however the     *)
(* messages cross, weights stay within what they are made of, their number *)
(* is that of a list that was met, and a thread that ended has a cause.    *)
THEOREM GossipStaysWithin ==
    ASSUME Gossip!GossipAssumption PROVE Gossip!Spec => []Gossip!GossipInv
<1>1. GossipIInv => Gossip!GossipInv
  BY DEF GossipIInv, Drawn, Gossip!GossipInv, Gossip!WithinHull, Gossip!LengthTold
<1> QED
  BY <1>1, GossipInit, GossipStep, PTL DEF Gossip!Spec

-----------------------------------------------------------------------------
(* security-copilot: the pull requests of the review robot.                *)
Clean(file) == file = AgtNone \/ file.secret = FALSE

(* What is kept has no secret, and a call that began knows what it is for. *)
FilesClean ==
    /\ \A b \in RvwBases : Clean(rvwBase[b])
    /\ \A r \in Review!Branches : Clean(rvwBranch[r].file)
    /\ \A c \in RvwCalls : Clean(rvwCall[c].seen)

CallsBegun ==
    \A c \in RvwCalls : rvwCall[c].step # "idle" =>
      rvwCall[c].base \in RvwBases /\ rvwCall[c].patch \in RvwPatches

(* A file that was written stays on its branch until that is deleted.      *)
WritersSound ==
    \A v \in rvwWriters :
        /\ rvwCall[v[1]].step # "idle" /\ v[3] <= rvwCuts[v[2]]
        /\ v[3] = rvwCuts[v[2]] => rvwBranch[v[2]].cut /\ rvwBranch[v[2]].file = Review!Redacted(rvwCall[v[1]].patch)

(* A pull request that is open is of its branch as it is, and of a call    *)
(* that was told of it or lost the answer.                                 *)
PullsSound ==
    /\ \A p \in rvwPulls :
         /\ p.open => p.cut = rvwCuts[RvwBranchOf[p.base]]
         /\ rvwCall[p.by].step = "done" \/ (rvwCall[p.by].step = "failed" /\ p.by \in rvwLost)
    /\ \A c \in RvwCalls : rvwCall[c].step = "done" => \E p \in rvwPulls : p.by = c

ReviewIInv ==
    Review!TypeOK /\ FilesClean /\ CallsBegun /\ WritersSound /\ PullsSound /\ Review!OneWriter

LEMMA ReviewImplies ==
    ASSUME Review!BotAssumption, ReviewIInv PROVE Review!ReviewInv
<1>0. /\ Review!TypeOK /\ FilesClean /\ CallsBegun /\ WritersSound /\ PullsSound /\ Review!OneWriter
  BY DEF ReviewIInv
<1>1. Review!PullShowsPatch
  <2> SUFFICES ASSUME NEW p \in rvwPulls, p.open, <<p.by, RvwBranchOf[p.base], p.cut>> \in rvwWriters
               PROVE  rvwBranch[RvwBranchOf[p.base]].file = Review!Redacted(rvwCall[p.by].patch)
    BY DEF Review!PullShowsPatch
  <2>1. p.cut = rvwCuts[RvwBranchOf[p.base]]
    BY <1>0 DEF PullsSound
  <2> QED
    BY <1>0, <2>1 DEF WritersSound
<1>2. Review!ToldOfPull
  BY <1>0 DEF PullsSound, Review!ToldOfPull
<1>3. Review!NoSecretMerged
  BY <1>0 DEF FilesClean, Clean, Review!NoSecretMerged
<1> QED
  BY <1>0, <1>1, <1>2, <1>3 DEF Review!ReviewInv

LEMMA ReviewInit ==
    ASSUME Review!BotAssumption PROVE Review!Init => ReviewIInv
<1> SUFFICES ASSUME Review!Init PROVE ReviewIInv
  OBVIOUS
<1> USE DEF Review!BotAssumption, Review!Init
<1>1. Review!TypeOK
  BY DEF Review!TypeOK, Review!Call, Review!File
<1>2. FilesClean /\ CallsBegun /\ WritersSound /\ PullsSound
  BY DEF FilesClean, Clean, CallsBegun, WritersSound, PullsSound
<1>3. Review!OneWriter
  BY DEF Review!OneWriter
<1> QED
  BY <1>1, <1>2, <1>3 DEF ReviewIInv

(* A redacted patch has no secret.                                         *)
LEMMA RedactedClean ==
    ASSUME Review!BotAssumption, NEW p \in RvwPatches
    PROVE  /\ Review!Redacted(p) \in Review!File /\ Clean(Review!Redacted(p))
           /\ Review!Redacted(p) # AgtNone
BY DEF Review!BotAssumption, Review!Redacted, Review!File, Clean

(* A call that only goes on to a step before its pull request, or fails or *)
(* is refused without one, disturbs nothing but itself.                    *)
LEMMA CallMoves ==
    ASSUME Review!BotAssumption, ReviewIInv, NEW c \in RvwCalls, NEW n \in Review!Call, Clean(n.seen),
           n.step \notin {"idle", "done"}, n.base \in RvwBases, n.patch \in RvwPatches,
           rvwCall[c].step \notin {"done", "failed"},
           rvwCall[c].step # "idle" => n.patch = rvwCall[c].patch,
           rvwCall' = [rvwCall EXCEPT ![c] = n]
    PROVE  /\ rvwCall' \in [RvwCalls -> Review!Call] /\ CallsBegun'
           /\ \A d \in RvwCalls : Clean(rvwCall'[d].seen)
           /\ UNCHANGED <<rvwWriters, rvwBranch, rvwCuts>> => WritersSound'
           /\ rvwLost \subseteq rvwLost' /\ UNCHANGED <<rvwPulls, rvwCuts>> => PullsSound'
<1>0. /\ Review!TypeOK /\ FilesClean /\ CallsBegun /\ WritersSound /\ PullsSound
      /\ rvwCall \in [RvwCalls -> Review!Call]
  BY DEF ReviewIInv, Review!TypeOK
<1>1. \A d \in RvwCalls : rvwCall'[d] = IF d = c THEN n ELSE rvwCall[d]
  BY <1>0
<1>2. rvwCall' \in [RvwCalls -> Review!Call]
  BY <1>0
<1>3. CallsBegun'
  BY <1>0, <1>1 DEF CallsBegun
<1>4. \A d \in RvwCalls : Clean(rvwCall'[d].seen)
  BY <1>0, <1>1 DEF FilesClean
<1>5. \A v \in rvwWriters : /\ v[1] \in RvwCalls
                            /\ rvwCall'[v[1]].step # "idle"
                            /\ rvwCall'[v[1]].patch = rvwCall[v[1]].patch
  BY <1>0, <1>1 DEF Review!TypeOK, WritersSound
<1>6. UNCHANGED <<rvwWriters, rvwBranch, rvwCuts>> => WritersSound'
  BY <1>0, <1>5 DEF WritersSound
<1>7. rvwLost \subseteq rvwLost' /\ UNCHANGED <<rvwPulls, rvwCuts>> => PullsSound'
  <2>1. \A p \in rvwPulls : p.by \in RvwCalls /\ p.by # c
    BY <1>0 DEF Review!TypeOK, PullsSound
  <2> QED
    BY <1>0, <1>1, <2>1 DEF PullsSound
<1> QED
  BY <1>2, <1>3, <1>4, <1>6, <1>7

LEMMA ReviewStep ==
    ASSUME Review!BotAssumption, ReviewIInv, [Review!Next]_(Review!vars)
    PROVE  ReviewIInv'
<1>0. /\ Review!TypeOK /\ FilesClean /\ CallsBegun /\ WritersSound /\ PullsSound /\ Review!OneWriter
  BY DEF ReviewIInv
<1>t. /\ rvwCall \in [RvwCalls -> Review!Call] /\ rvwBase \in [RvwBases -> Review!File]
      /\ rvwBranch \in [Review!Branches -> [cut : BOOLEAN, file : Review!File]]
      /\ rvwCuts \in [Review!Branches -> 0..RvwMaxDeletes] /\ RvwMaxDeletes \in Nat
      /\ rvwPulls \subseteq [by : RvwCalls, base : RvwBases, cut : 0..RvwMaxDeletes, open : BOOLEAN]
      /\ rvwLost \subseteq RvwCalls
      /\ rvwWriters \subseteq RvwCalls \X Review!Branches \X (0..RvwMaxDeletes)
      /\ \A b \in RvwBases : RvwBranchOf[b] \in Review!Branches
  BY <1>0 DEF Review!TypeOK, Review!BotAssumption, Review!Branches
<1>1. CASE UNCHANGED Review!vars
  BY <1>0, <1>1 DEF Review!vars, ReviewIInv, Review!TypeOK, FilesClean, CallsBegun, WritersSound, PullsSound,
     Review!OneWriter
<1>2. ASSUME NEW c \in RvwCalls, Review!CreatePr(c) PROVE ReviewIInv'
  <2>1. PICK b \in RvwBases, p \in RvwPatches, step \in {"base", "refused"} :
          rvwCall' = [rvwCall EXCEPT ![c] = [@ EXCEPT !.base = b, !.patch = p, !.step = step]]
    BY <1>2 DEF Review!CreatePr
  <2>2. rvwCall[c].step = "idle"
          /\ UNCHANGED <<rvwBase, rvwBranch, rvwCuts, rvwPulls, rvwLost, rvwWriters>>
    BY <1>2 DEF Review!CreatePr
  <2> DEFINE n == [rvwCall[c] EXCEPT !.base = b, !.patch = p, !.step = step]
  <2>3. n \in Review!Call /\ n.base = b /\ n.patch = p /\ n.step = step /\ n.seen = rvwCall[c].seen
    <3>1. rvwCall[c] \in Review!Call
      BY <1>t
    <3> QED
      BY <3>1 DEF Review!Call
  <2> HIDE DEF n
  <2>4. rvwCall' = [rvwCall EXCEPT ![c] = n]
    BY <2>1 DEF n
  <2>5. /\ rvwCall' \in [RvwCalls -> Review!Call] /\ CallsBegun' /\ WritersSound' /\ PullsSound'
        /\ \A d \in RvwCalls : Clean(rvwCall'[d].seen)
    BY <1>0, <2>2, <2>3, <2>4, CallMoves DEF FilesClean
  <2>6. Review!TypeOK' /\ FilesClean' /\ Review!OneWriter'
    BY <1>0, <2>2, <2>5 DEF Review!TypeOK, FilesClean, Review!OneWriter
  <2> QED
    BY <2>5, <2>6 DEF ReviewIInv
<1>3. ASSUME NEW c \in RvwCalls, NEW step \in {"ref", "file", "pull", "failed"},
             NEW seen \in Review!File, Clean(seen),
             rvwCall[c].step \in {"base", "ref", "file", "pull"},
             rvwCall' = [rvwCall EXCEPT ![c] = [@ EXCEPT !.step = step, !.seen = seen]]
      PROVE  /\ rvwCall' \in [RvwCalls -> Review!Call] /\ CallsBegun'
             /\ \A d \in RvwCalls : Clean(rvwCall'[d].seen)
             /\ UNCHANGED <<rvwWriters, rvwBranch, rvwCuts>> => WritersSound'
             /\ rvwLost \subseteq rvwLost' /\ UNCHANGED <<rvwPulls, rvwCuts>> => PullsSound'
  <2> DEFINE n == [rvwCall[c] EXCEPT !.step = step, !.seen = seen]
  <2>1. rvwCall[c] \in Review!Call /\ rvwCall[c].base \in RvwBases /\ rvwCall[c].patch \in RvwPatches
    BY <1>0, <1>t, <1>3 DEF CallsBegun
  <2>2. n \in Review!Call /\ n.base = rvwCall[c].base /\ n.patch = rvwCall[c].patch /\ n.step = step
          /\ n.seen = seen
    BY <2>1 DEF Review!Call
  <2> HIDE DEF n
  <2>3. rvwCall' = [rvwCall EXCEPT ![c] = n]
    BY <1>3 DEF n
  <2> QED
    BY <1>3, <2>1, <2>2, <2>3, CallMoves
<1>4. ASSUME NEW c \in RvwCalls, NEW step \in {"ref", "file", "pull", "failed"}, Review!Go(c, step),
             rvwCall[c].step \in {"base", "ref", "file", "pull"}
      PROVE  /\ rvwCall' \in [RvwCalls -> Review!Call] /\ CallsBegun'
             /\ \A d \in RvwCalls : Clean(rvwCall'[d].seen)
             /\ UNCHANGED <<rvwWriters, rvwBranch, rvwCuts>> => WritersSound'
             /\ rvwLost \subseteq rvwLost' /\ UNCHANGED <<rvwPulls, rvwCuts>> => PullsSound'
  <2>1. rvwCall[c] \in Review!Call /\ rvwCall[c].seen \in Review!File /\ Clean(rvwCall[c].seen)
    BY <1>0, <1>t DEF FilesClean, Review!Call
  <2>2. [rvwCall[c] EXCEPT !.step = step] = [rvwCall[c] EXCEPT !.step = step, !.seen = rvwCall[c].seen]
    BY <2>1 DEF Review!Call
  <2>3. rvwCall' = [rvwCall EXCEPT ![c] = [rvwCall[c] EXCEPT !.step = step]]
    BY <1>4, <1>t DEF Review!Go
  <2>4. rvwCall' = [rvwCall EXCEPT ![c] = [rvwCall[c] EXCEPT !.step = step, !.seen = rvwCall[c].seen]]
    BY <2>2, <2>3
  <2> QED
    BY <1>3, <1>4, <2>1, <2>4
<1>5. ASSUME NEW c \in RvwCalls, Review!GetBranch(c) PROVE ReviewIInv'
  <2>1. /\ rvwCall[c].step = "base"
        /\ UNCHANGED <<rvwBase, rvwBranch, rvwCuts, rvwPulls, rvwLost, rvwWriters>>
        /\ rvwCall' = [rvwCall EXCEPT ![c].seen = rvwBase[rvwCall[c].base], ![c].step = "ref"]
    BY <1>5 DEF Review!GetBranch
  <2> DEFINE seen == rvwBase[rvwCall[c].base]
  <2>2. seen \in Review!File /\ Clean(seen)
    BY <1>0, <1>t, <2>1 DEF CallsBegun, FilesClean
  <2>3. rvwCall' = [rvwCall EXCEPT ![c] = [@ EXCEPT !.step = "ref", !.seen = seen]]
    <3>1. rvwCall[c] \in Review!Call
      BY <1>t
    <3>2. [[rvwCall[c] EXCEPT !.seen = seen] EXCEPT !.step = "ref"] = [rvwCall[c] EXCEPT !.step = "ref", !.seen = seen]
      BY <3>1 DEF Review!Call
    <3> QED
      BY <1>t, <2>1, <3>2
  <2> HIDE DEF seen
  <2>4. /\ rvwCall' \in [RvwCalls -> Review!Call] /\ CallsBegun'
        /\ \A d \in RvwCalls : Clean(rvwCall'[d].seen)
        /\ WritersSound' /\ PullsSound'
    BY <1>3, <2>1, <2>2, <2>3
  <2>5. Review!TypeOK' /\ FilesClean' /\ Review!OneWriter'
    BY <1>0, <2>1, <2>4 DEF Review!TypeOK, FilesClean, Review!OneWriter
  <2> QED
    BY <2>4, <2>5 DEF ReviewIInv
<1>6. ASSUME NEW c \in RvwCalls, Review!CreateRef(c) PROVE ReviewIInv'
  <2>1. /\ rvwCall[c].step = "ref" /\ Review!Go(c, "file")
        /\ UNCHANGED <<rvwBase, rvwCuts, rvwPulls, rvwLost, rvwWriters>>
    BY <1>6 DEF Review!CreateRef
  <2>2. /\ rvwCall' \in [RvwCalls -> Review!Call] /\ CallsBegun'
        /\ \A d \in RvwCalls : Clean(rvwCall'[d].seen)
        /\ UNCHANGED <<rvwWriters, rvwBranch, rvwCuts>> => WritersSound'
        /\ PullsSound'
    BY <1>4, <2>1
  <2>3. CASE UNCHANGED rvwBranch
    BY <1>0, <2>1, <2>2, <2>3 DEF ReviewIInv, Review!TypeOK, FilesClean, Review!OneWriter
  <2>4. CASE ~rvwBranch[Review!Mine(c)].cut
               /\ rvwBranch' = [rvwBranch EXCEPT ![Review!Mine(c)] = [cut |-> TRUE, file |-> rvwCall[c].seen]]
    <3> DEFINE r == Review!Mine(c)
               n == [cut |-> TRUE, file |-> rvwCall[c].seen]
    <3>1. r \in Review!Branches
      BY <1>0, <1>t, <2>1 DEF CallsBegun, Review!Mine
    <3>2. n \in [cut : BOOLEAN, file : Review!File] /\ Clean(n.file)
      <4>1. rvwCall[c].seen \in Review!File /\ Clean(rvwCall[c].seen)
        BY <1>0, <1>t DEF FilesClean, Review!Call
      <4> QED
        BY <4>1
    <3>a. ~rvwBranch[r].cut
      BY <2>4
    <3> HIDE DEF r, n
    <3>3. /\ rvwBranch' \in [Review!Branches -> [cut : BOOLEAN, file : Review!File]]
          /\ \A x \in Review!Branches : rvwBranch'[x] = IF x = r THEN n ELSE rvwBranch[x]
      BY <1>t, <2>4, <3>1, <3>2 DEF r, n
    <3>4. \A v \in rvwWriters : v[2] \in Review!Branches /\ (v[3] = rvwCuts[v[2]] => v[2] # r)
      BY <1>0, <1>t, <3>a DEF WritersSound
    <3>5. WritersSound'
      <4> SUFFICES ASSUME NEW v \in rvwWriters
                   PROVE  /\ rvwCall'[v[1]].step # "idle" /\ v[3] <= rvwCuts[v[2]]
                          /\ v[3] = rvwCuts[v[2]] =>
                               rvwBranch'[v[2]].cut /\ rvwBranch'[v[2]].file = Review!Redacted(rvwCall'[v[1]].patch)
        BY <2>1 DEF WritersSound
      <4>1. v[1] \in RvwCalls /\ rvwCall[v[1]].step # "idle"
        BY <1>0, <1>t DEF WritersSound
      <4>2. rvwCall'[v[1]].patch = rvwCall[v[1]].patch /\ rvwCall'[v[1]].step # "idle"
        <5>1. \A d \in RvwCalls : rvwCall[d] \in Review!Call
          BY <1>t
        <5> QED
          BY <1>t, <2>1, <4>1, <5>1 DEF Review!Go, Review!Call
      <4> QED
        BY <1>0, <3>3, <3>4, <4>2 DEF WritersSound
    <3>6. FilesClean'
      BY <1>0, <2>1, <2>2, <3>2, <3>3 DEF FilesClean
    <3> QED
      BY <1>0, <2>1, <2>2, <3>3, <3>5, <3>6 DEF ReviewIInv, Review!TypeOK, Review!OneWriter
  <2> QED
    BY <1>6, <2>3, <2>4 DEF Review!CreateRef
<1>7. ASSUME NEW c \in RvwCalls, Review!CreateFile(c) PROVE ReviewIInv'
  <2> DEFINE r == Review!Mine(c)
             file == Review!Redacted(rvwCall[c].patch)
             w == <<c, r, rvwCuts[r]>>
  <2>1. /\ rvwCall[c].step = "file" /\ Review!Free(c)
        /\ rvwBranch' = [rvwBranch EXCEPT ![r].file = file] /\ rvwWriters' = rvwWriters \cup {w}
        /\ rvwLost \subseteq rvwLost' /\ rvwLost' \subseteq rvwLost \cup {c}
        /\ UNCHANGED <<rvwBase, rvwCuts, rvwPulls>>
    BY <1>7 DEF Review!CreateFile
  <2>2. PICK step \in {"pull", "failed"} : Review!Go(c, step)
    BY <1>7 DEF Review!CreateFile
  <2>3. rvwCall[c].base \in RvwBases /\ rvwCall[c].patch \in RvwPatches /\ r \in Review!Branches
    BY <1>0, <1>t, <2>1 DEF CallsBegun, Review!Mine
  <2>4. file \in Review!File /\ Clean(file) /\ file # AgtNone
    BY <2>3, RedactedClean
  <2>5. rvwBranch[r].cut /\ rvwBranch[r].file = AgtNone
    BY <2>1 DEF Review!Free
  <2>6. w \in RvwCalls \X Review!Branches \X (0..RvwMaxDeletes) /\ w[1] = c /\ w[2] = r
          /\ w[3] = rvwCuts[r]
    BY <1>t, <2>3
  <2>7. /\ rvwCall' \in [RvwCalls -> Review!Call] /\ CallsBegun'
        /\ (\A d \in RvwCalls : Clean(rvwCall'[d].seen))
        /\ PullsSound'
    BY <1>4, <2>1, <2>2
  <2>8. \A d \in RvwCalls : rvwCall'[d].patch = rvwCall[d].patch /\ (rvwCall[d].step # "idle" => rvwCall'[d].step # "idle")
    <3>1. \A d \in RvwCalls : rvwCall[d] \in Review!Call
      BY <1>t
    <3> QED
      BY <1>t, <2>1, <2>2, <3>1 DEF Review!Go, Review!Call
  <2>9. /\ rvwBranch' \in [Review!Branches -> [cut : BOOLEAN, file : Review!File]]
        /\ rvwBranch'[r].cut /\ rvwBranch'[r].file = file
        /\ \A x \in Review!Branches \ {r} : rvwBranch'[x] = rvwBranch[x]
    <3>1. rvwBranch[r] \in [cut : BOOLEAN, file : Review!File]
      BY <1>t, <2>3
    <3> HIDE DEF r, file
    <3>2. [rvwBranch[r] EXCEPT !.file = file] \in [cut : BOOLEAN, file : Review!File]
      BY <2>4, <3>1
    <3> QED
      BY <1>t, <2>1, <2>3, <2>5, <3>1, <3>2
  <2>10. \A v \in rvwWriters : v[2] = r => v[3] # rvwCuts[r]
    <3> SUFFICES ASSUME NEW v \in rvwWriters, v[2] = r, v[3] = rvwCuts[r] PROVE FALSE
      OBVIOUS
    <3>1. v[1] \in RvwCalls /\ rvwCall[v[1]].step # "idle"
            /\ rvwBranch[r].file = Review!Redacted(rvwCall[v[1]].patch)
      BY <1>0, <1>t DEF WritersSound
    <3>2. rvwCall[v[1]].patch \in RvwPatches
      BY <1>0, <3>1 DEF CallsBegun
    <3> QED
      BY <2>5, <3>1, <3>2, RedactedClean
  <2>11. rvwCall[c].step # "idle" /\ rvwCuts[r] \in Nat
    BY <1>t, <2>1, <2>3
  <2> HIDE DEF r, w
  <2>12. WritersSound'
    <3> SUFFICES ASSUME NEW v \in rvwWriters'
                 PROVE  /\ rvwCall'[v[1]].step # "idle" /\ v[3] <= rvwCuts[v[2]]
                        /\ v[3] = rvwCuts[v[2]] =>
                             rvwBranch'[v[2]].cut /\ rvwBranch'[v[2]].file = Review!Redacted(rvwCall'[v[1]].patch)
      BY <2>1 DEF WritersSound
    <3>1. CASE v = w
      BY <2>6, <2>8, <2>9, <2>11, <3>1
    <3>2. CASE v \in rvwWriters
      BY <1>0, <1>t, <2>8, <2>9, <2>10, <3>2 DEF WritersSound
    <3> QED
      BY <2>1, <3>1, <3>2
  <2>13. Review!OneWriter'
    BY <1>0, <2>1, <2>6, <2>10 DEF Review!OneWriter
  <2>14. FilesClean'
    BY <1>0, <2>1, <2>4, <2>7, <2>9 DEF FilesClean
  <2>15. Review!TypeOK'
    BY <1>t, <2>1, <2>6, <2>7, <2>9 DEF Review!TypeOK
  <2> QED
    BY <2>7, <2>12, <2>13, <2>14, <2>15 DEF ReviewIInv
<1>8. ASSUME NEW c \in RvwCalls, Review!CreatePull(c) PROVE ReviewIInv'
  <2> DEFINE r == Review!Mine(c)
             p == [by |-> c, base |-> rvwCall[c].base, cut |-> rvwCuts[r], open |-> TRUE]
  <2>1. /\ rvwCall[c].step = "pull" /\ rvwPulls' = rvwPulls \cup {p}
        /\ UNCHANGED <<rvwBase, rvwBranch, rvwCuts, rvwWriters>>
    BY <1>8 DEF Review!CreatePull
  <2>2. PICK step \in {"done", "failed"} : /\ Review!Go(c, step)
                                           /\ step = "done" => rvwLost' = rvwLost
                                           /\ step = "failed" => rvwLost' = rvwLost \cup {c}
    BY <1>8 DEF Review!CreatePull
  <2>3. rvwCall[c].base \in RvwBases /\ rvwCall[c].patch \in RvwPatches /\ r \in Review!Branches
          /\ rvwCall[c] \in Review!Call
    BY <1>0, <1>t, <2>1 DEF CallsBegun, Review!Mine
  <2>4. /\ p \in [by : RvwCalls, base : RvwBases, cut : 0..RvwMaxDeletes, open : BOOLEAN]
        /\ p.by = c /\ p.cut = rvwCuts[RvwBranchOf[p.base]]
    BY <1>t, <2>3 DEF Review!Mine
  <2> HIDE DEF p, r
  <2>5. rvwCall' = [rvwCall EXCEPT ![c] = [rvwCall[c] EXCEPT !.step = step]]
    BY <1>t, <2>2 DEF Review!Go
  <2> DEFINE n == [rvwCall[c] EXCEPT !.step = step]
  <2>6. n \in Review!Call /\ n.step = step /\ n.patch = rvwCall[c].patch /\ n.base = rvwCall[c].base
          /\ n.seen = rvwCall[c].seen
    BY <2>3 DEF Review!Call
  <2> HIDE DEF n
  <2>7. rvwCall' \in [RvwCalls -> Review!Call]
          /\ \A d \in RvwCalls : rvwCall'[d] = IF d = c THEN n ELSE rvwCall[d]
    BY <1>t, <2>5, <2>6 DEF n
  <2>8. Review!TypeOK'
    BY <1>t, <2>1, <2>2, <2>4, <2>7 DEF Review!TypeOK
  <2>9. FilesClean' /\ CallsBegun' /\ Review!OneWriter'
    BY <1>0, <2>1, <2>3, <2>6, <2>7 DEF FilesClean, CallsBegun, Review!OneWriter
  <2>10. WritersSound'
    <3>1. \A v \in rvwWriters : v[1] \in RvwCalls
      BY <1>t
    <3> QED
      BY <1>0, <2>1, <2>6, <2>7, <3>1 DEF WritersSound
  <2>11. PullsSound'
    <3>1. \A q \in rvwPulls : q.by \in RvwCalls /\ q.by # c
      BY <1>0, <1>t, <2>1 DEF PullsSound
    <3>2. \A q \in rvwPulls' :
            /\ q.open => q.cut = rvwCuts'[RvwBranchOf[q.base]]
            /\ rvwCall'[q.by].step = "done" \/ (rvwCall'[q.by].step = "failed" /\ q.by \in rvwLost')
      BY <1>0, <2>1, <2>2, <2>4, <2>6, <2>7, <3>1 DEF PullsSound
    <3>3. \A d \in RvwCalls : rvwCall'[d].step = "done" => \E q \in rvwPulls' : q.by = d
      BY <1>0, <2>1, <2>4, <2>7 DEF PullsSound
    <3> QED
      BY <3>2, <3>3 DEF PullsSound
  <2> QED
    BY <2>8, <2>9, <2>10, <2>11 DEF ReviewIInv
<1>9. ASSUME NEW c \in RvwCalls, Review!Fail(c) PROVE ReviewIInv'
  <2>1. /\ rvwCall[c].step \in {"base", "ref", "file", "pull"} /\ Review!Go(c, "failed")
        /\ UNCHANGED <<rvwBase, rvwBranch, rvwCuts, rvwPulls, rvwLost, rvwWriters>>
    BY <1>9 DEF Review!Fail
  <2>2. /\ rvwCall' \in [RvwCalls -> Review!Call] /\ CallsBegun'
        /\ (\A d \in RvwCalls : Clean(rvwCall'[d].seen))
        /\ WritersSound' /\ PullsSound'
    BY <1>4, <2>1
  <2> QED
    BY <1>0, <2>1, <2>2 DEF ReviewIInv, Review!TypeOK, FilesClean, Review!OneWriter
<1>10. ASSUME NEW ps \in SUBSET rvwPulls, rvwPulls' = Review!Ended(ps), rvwCall' = rvwCall,
              rvwLost' = rvwLost,
              \A p \in rvwPulls \ ps : p.open => p.cut = rvwCuts'[RvwBranchOf[p.base]]
       PROVE  /\ rvwPulls' \subseteq [by : RvwCalls, base : RvwBases, cut : 0..RvwMaxDeletes, open : BOOLEAN]
              /\ PullsSound'
  <2>1. \A p \in ps : /\ [p EXCEPT !.open = FALSE] \in [by : RvwCalls, base : RvwBases, cut : 0..RvwMaxDeletes, open : BOOLEAN]
                      /\ [p EXCEPT !.open = FALSE].by = p.by /\ [p EXCEPT !.open = FALSE].open = FALSE
    <3> TAKE p \in ps
    <3>1. p \in [by : RvwCalls, base : RvwBases, cut : 0..RvwMaxDeletes, open : BOOLEAN]
      BY <1>t
    <3> QED
      BY <3>1
  <2>2. \A q \in rvwPulls' :
          \/ q \in rvwPulls \ ps
          \/ /\ q \in [by : RvwCalls, base : RvwBases, cut : 0..RvwMaxDeletes, open : BOOLEAN]
             /\ ~q.open /\ \E p \in rvwPulls : q.by = p.by
    BY <1>10, <2>1 DEF Review!Ended
  <2>3. \A p \in rvwPulls : \E q \in rvwPulls' : q.by = p.by
    BY <1>10, <2>1 DEF Review!Ended
  <2>4. rvwPulls' \subseteq [by : RvwCalls, base : RvwBases, cut : 0..RvwMaxDeletes, open : BOOLEAN]
    BY <1>t, <2>2
  <2>5. \A q \in rvwPulls' :
          /\ q.open => q.cut = rvwCuts'[RvwBranchOf[q.base]]
          /\ rvwCall[q.by].step = "done" \/ (rvwCall[q.by].step = "failed" /\ q.by \in rvwLost)
    BY <1>0, <1>10, <2>2 DEF PullsSound
  <2>6. \A c \in RvwCalls : rvwCall[c].step = "done" => \E q \in rvwPulls' : q.by = c
    BY <1>0, <2>3 DEF PullsSound
  <2>7. PullsSound'
    BY <1>10, <2>5, <2>6 DEF PullsSound
  <2> QED
    BY <2>4, <2>7
<1>11. CASE Review!Merge
  <2>1. PICK p \in rvwPulls : /\ rvwBase' = [rvwBase EXCEPT ![p.base] = rvwBranch[RvwBranchOf[p.base]].file]
                              /\ rvwPulls' = Review!Ended({p})
    BY <1>11 DEF Review!Merge
  <2>2. UNCHANGED <<rvwBranch, rvwCuts, rvwCall, rvwLost, rvwWriters>>
    BY <1>11 DEF Review!Merge
  <2> DEFINE file == rvwBranch[RvwBranchOf[p.base]].file
  <2>3. p.base \in RvwBases /\ file \in Review!File /\ Clean(file)
    BY <1>0, <1>t DEF FilesClean
  <2> HIDE DEF file
  <2>4. /\ rvwBase' \in [RvwBases -> Review!File]
        /\ \A b \in RvwBases : rvwBase'[b] = IF b = p.base THEN file ELSE rvwBase[b]
    BY <1>t, <2>1, <2>3 DEF file
  <2>5. /\ rvwPulls' \subseteq [by : RvwCalls, base : RvwBases, cut : 0..RvwMaxDeletes, open : BOOLEAN]
        /\ PullsSound'
    BY <1>0, <1>10, <2>1, <2>2 DEF PullsSound
  <2>6. Review!TypeOK'
    BY <1>t, <2>2, <2>4, <2>5 DEF Review!TypeOK
  <2>7. FilesClean' /\ CallsBegun' /\ WritersSound' /\ Review!OneWriter'
    BY <1>0, <2>2, <2>3, <2>4 DEF FilesClean, CallsBegun, WritersSound, Review!OneWriter
  <2> QED
    BY <2>5, <2>6, <2>7 DEF ReviewIInv
<1>12. CASE Review!Delete
  <2>1. PICK r \in Review!Branches :
          /\ rvwCuts[r] < RvwMaxDeletes /\ rvwCuts' = [rvwCuts EXCEPT ![r] = @ + 1]
          /\ rvwBranch' = [rvwBranch EXCEPT ![r] = [cut |-> FALSE, file |-> AgtNone]]
          /\ rvwPulls' = Review!Ended({p \in rvwPulls : RvwBranchOf[p.base] = r})
    BY <1>12 DEF Review!Delete
  <2>2. UNCHANGED <<rvwBase, rvwCall, rvwLost, rvwWriters>>
    BY <1>12 DEF Review!Delete
  <2>3. /\ rvwCuts' \in [Review!Branches -> 0..RvwMaxDeletes]
        /\ \A x \in Review!Branches : rvwCuts'[x] = (IF x = r THEN rvwCuts[r] + 1 ELSE rvwCuts[x]) /\ rvwCuts[x] \in Nat
    BY <1>t, <2>1
  <2> DEFINE n == [cut |-> FALSE, file |-> AgtNone]
  <2>4. n \in [cut : BOOLEAN, file : Review!File] /\ n.file = AgtNone
    BY DEF Review!File
  <2> HIDE DEF n
  <2>5. /\ rvwBranch' \in [Review!Branches -> [cut : BOOLEAN, file : Review!File]]
        /\ \A x \in Review!Branches : rvwBranch'[x] = IF x = r THEN n ELSE rvwBranch[x]
    BY <1>t, <2>1, <2>4 DEF n
  <2>6. \A p \in rvwPulls \ {q \in rvwPulls : RvwBranchOf[q.base] = r} :
           p.open => p.cut = rvwCuts'[RvwBranchOf[p.base]]
    BY <1>0, <1>t, <2>3 DEF PullsSound
  <2>7. /\ rvwPulls' \subseteq [by : RvwCalls, base : RvwBases, cut : 0..RvwMaxDeletes, open : BOOLEAN]
        /\ PullsSound'
    BY <1>10, <2>1, <2>2, <2>6
  <2>8. Review!TypeOK'
    BY <1>t, <2>2, <2>3, <2>5, <2>7 DEF Review!TypeOK
  <2>9. FilesClean' /\ CallsBegun' /\ Review!OneWriter'
    BY <1>0, <2>2, <2>4, <2>5 DEF FilesClean, Clean, CallsBegun, Review!OneWriter
  <2>10. WritersSound'
    <3> SUFFICES ASSUME NEW v \in rvwWriters
                 PROVE  /\ rvwCall[v[1]].step # "idle" /\ v[3] <= rvwCuts'[v[2]]
                        /\ v[3] = rvwCuts'[v[2]] =>
                             rvwBranch'[v[2]].cut /\ rvwBranch'[v[2]].file = Review!Redacted(rvwCall[v[1]].patch)
      BY <2>2 DEF WritersSound
    <3>1. v[2] \in Review!Branches /\ v[3] \in Nat
      BY <1>t
    <3> QED
      BY <1>0, <2>3, <2>5, <3>1 DEF WritersSound
  <2> QED
    BY <2>7, <2>8, <2>9, <2>10 DEF ReviewIInv
<1> QED
  BY <1>1, <1>2, <1>5, <1>6, <1>7, <1>8, <1>9, <1>11, <1>12 DEF Review!Next

(* However many calls share a branch and whatever fails or loses its       *)
(* answer, the pull requests carry the patches of their calls.             *)
THEOREM PullsCarryPatches ==
    ASSUME Review!BotAssumption PROVE Review!Spec => []Review!ReviewInv
<1> QED
  BY ReviewImplies, ReviewInit, ReviewStep, PTL DEF Review!Spec

-----------------------------------------------------------------------------
(* auth-service, billing-service and platform-core.                        *)
LEMMA TenantsCount ==
    \A S : (Tenants!IsFiniteSet(S) <=> IsFiniteSet(S)) /\ Tenants!Cardinality(S) = Cardinality(S)
BY DEF Tenants!IsFiniteSet, IsFiniteSet, Tenants!Cardinality, Cardinality

LostUsers == Tenants!Stops("auth") > 0
Owned(p) == {r \in tntDeployed : tntRequest[r].by = p}
Queued(p) == {r \in Tenants!Requests : tntRequest[r].by = p /\ tntRequest[r].plain /\ tntRequest[r].step = "queued"}

(* Two people of one address of whom one hashes met.                       *)
MeetingsTold ==
    \A p, q \in TntPeople :
        p # q /\ TntEmail[p] = TntEmail[q] /\ tntPerson[p] = "hash" /\ tntPerson[q] \in {"hash", "told", "in"} =>
            TntEmail[p] \in tntRaced \/ LostUsers

UserOfTold ==
    \A p \in TntPeople : tntPerson[p] \in {"told", "in"} /\ ~LostUsers =>
        \E q \in TntPeople : TntEmail[q] = TntEmail[p] /\ tntPerson[q] \in {"told", "in"} /\ tntUsers[TntEmail[p]] = q

(* What each step of a request has behind it.                              *)
RequestsPlanned ==
    \A r \in Tenants!Requests :
        /\ tntRequest[r].step # "idle" => tntRequest[r].by \in TntPeople
        /\ tntRequest[r].step = "count" => tntRequest[r].limit <= Tenants!Bought(tntRequest[r].by)
        /\ tntRequest[r].step \in {"insert", "push"} => tntRequest[r].plain /\ r \in tntEvents
        /\ tntRequest[r].step = "insert" => tntPooled
        /\ tntRequest[r].step = "push" /\ tntPooled => r \in tntRows
        /\ r \in tntDeployed => tntRequest[r].plain

(* A request past the count is as good as a deployment; a deployment that  *)
(* was forgotten is one of as many as a plan allows.                       *)
CountsWithin ==
    \A p \in TntPeople \ tntCrossed :
        /\ Cardinality(Owned(p)) + Cardinality(Tenants!Between(p)) <= Tenants!Bought(p)
        /\ Cardinality(Queued(p)) <= Tenants!Bought(p) * Tenants!Stops("core") + Cardinality(Owned(p))

TenantsIInv ==
    /\ Tenants!TypeOK /\ Tenants!ToldIsUser /\ MeetingsTold /\ UserOfTold
    /\ Tenants!PlanPaid /\ Tenants!QueuedIsSent /\ RequestsPlanned /\ CountsWithin

LEMMA StopsCounted ==
    ASSUME tntStops \in Seq(Tenants!Services), NEW s
    PROVE  /\ Tenants!Stops(s) \in Nat
           /\ \A x \in Tenants!Services : tntStops' = Append(tntStops, x) =>
                Tenants!Stops(s)' = IF x = s THEN Tenants!Stops(s) + 1 ELSE Tenants!Stops(s)
<1> DEFINE S == {i \in DOMAIN tntStops : tntStops[i] = s}
           T == {i \in DOMAIN tntStops' : tntStops'[i] = s}
           n == Len(tntStops)
<1>1. n \in Nat /\ DOMAIN tntStops = 1..n
  OBVIOUS
<1>2. S \in SUBSET (1..n) /\ IsFiniteSet(1..n) /\ n + 1 \notin S
  BY <1>1, FS_Interval
<1>3. IsFiniteSet(S) /\ Cardinality(S) \in Nat
  <2> HIDE DEF S
  <2> QED
    BY <1>2, FS_Subset, FS_CardinalityType
<1>4. Tenants!Stops(s) = Cardinality(S) /\ Tenants!Stops(s)' = Cardinality(T)
  BY TenantsCount DEF Tenants!Stops
<1>5. ASSUME NEW x \in Tenants!Services, tntStops' = Append(tntStops, x)
      PROVE  T = IF x = s THEN S \cup {n + 1} ELSE S
  <2>1. /\ DOMAIN tntStops' = 1..(n + 1) /\ tntStops'[n + 1] = x
        /\ \A i \in 1..n : tntStops'[i] = tntStops[i]
    BY <1>1, <1>5
  <2>2. \A i : i \in 1..(n + 1) <=> i \in 1..n \/ i = n + 1
    BY <1>1
  <2> HIDE DEF n
  <2> QED
    BY <1>1, <2>1, <2>2
<1> HIDE DEF S, T
<1>6. Cardinality(S \cup {n + 1}) = Cardinality(S) + 1
  BY <1>2, <1>3, FS_AddElement
<1> QED
  BY <1>3, <1>4, <1>5, <1>6

LEMMA RequestsFinite ==
    ASSUME Tenants!TenantsAssumption PROVE IsFiniteSet(Tenants!Requests)
<1>1. 1 \in Int /\ TntMaxRequests \in Int
  BY DEF Tenants!TenantsAssumption
<1>2. IsFiniteSet(1..TntMaxRequests)
  BY <1>1, FS_Interval
<1> QED
  BY <1>2 DEF Tenants!Requests

LEMMA SetsFinite ==
    ASSUME Tenants!TenantsAssumption, TenantsIInv, NEW p
    PROVE  /\ IsFiniteSet(Owned(p)) /\ IsFiniteSet(Tenants!Between(p)) /\ IsFiniteSet(Queued(p))
           /\ Cardinality(Owned(p)) \in Nat /\ Cardinality(Tenants!Between(p)) \in Nat
           /\ Cardinality(Queued(p)) \in Nat
<1>1. /\ Owned(p) \in SUBSET Tenants!Requests /\ Queued(p) \in SUBSET Tenants!Requests
      /\ Tenants!Between(p) \in SUBSET Tenants!Requests
  BY DEF TenantsIInv, Tenants!TypeOK, Tenants!Between, Owned, Queued
<1> QED
  BY <1>1, RequestsFinite, FS_Subset, FS_CardinalityType

LEMMA TenantsImply ==
    ASSUME Tenants!TenantsAssumption, TenantsIInv PROVE Tenants!TenantsInv
<1>0. /\ Tenants!TypeOK /\ Tenants!ToldIsUser /\ MeetingsTold /\ UserOfTold
      /\ Tenants!PlanPaid /\ Tenants!QueuedIsSent /\ RequestsPlanned /\ CountsWithin
  BY DEF TenantsIInv
<1>s. \A s : Tenants!Stops(s) \in Nat
  BY <1>0, StopsCounted DEF Tenants!TypeOK
<1>1. Tenants!OneOfTold
  <2> SUFFICES ASSUME NEW e \in Tenants!Emails
               PROVE  LET told == {p \in TntPeople : TntEmail[p] = e /\ tntPerson[p] \in {"told", "in"}}
                      IN /\ Tenants!Stops("auth") = 0 /\ told # {} => tntUsers[e] \in told
                         /\ Tenants!Cardinality(told) > 1 => e \in tntRaced \/ Tenants!Stops("auth") > 0
    BY DEF Tenants!OneOfTold
  <2> DEFINE told == {p \in TntPeople : TntEmail[p] = e /\ tntPerson[p] \in {"told", "in"}}
  <2>1. Tenants!Stops("auth") = 0 /\ told # {} => tntUsers[e] \in told
    BY <1>0, <1>s DEF UserOfTold, LostUsers
  <2>2. ASSUME e \notin tntRaced, ~(Tenants!Stops("auth") > 0) PROVE ~(Cardinality(told) > 1)
    <3>1. told \in SUBSET {tntUsers[e]}
      BY <1>0, <2>2 DEF Tenants!ToldIsUser
    <3>2. IsFiniteSet({tntUsers[e]}) /\ Cardinality({tntUsers[e]}) = 1
      BY FS_Singleton
    <3> HIDE DEF told
    <3>3. Cardinality(told) <= 1 /\ Cardinality(told) \in Nat
      BY <3>1, <3>2, FS_Subset, FS_CardinalityType
    <3> QED
      BY <3>3
  <2> HIDE DEF told
  <2>3. Tenants!Cardinality(told) = Cardinality(told)
    BY TenantsCount
  <2> QED
    BY <2>1, <2>2, <2>3 DEF told
<1>2. Tenants!WithinPlan
  <2> SUFFICES ASSUME NEW p \in TntPeople \ tntCrossed
               PROVE  /\ Cardinality(Owned(p)) <= Tenants!Bought(p)
                      /\ Cardinality(Queued(p)) <= Tenants!Bought(p) * (1 + Tenants!Stops("core"))
    BY TenantsCount DEF Tenants!WithinPlan, Tenants!Deployments, Owned, Queued
  <2> DEFINE b == Tenants!Bought(p)
             s == Tenants!Stops("core")
  <2>1. b \in Nat /\ s \in Nat
    BY <1>s DEF Tenants!Bought, Tenants!TenantsAssumption
  <2>2. /\ Owned(p) \in SUBSET Tenants!Requests /\ Queued(p) \in SUBSET Tenants!Requests
        /\ Tenants!Between(p) \in SUBSET Tenants!Requests /\ IsFiniteSet(Tenants!Requests)
    BY <1>0, RequestsFinite DEF Tenants!TypeOK, Tenants!Between, Owned, Queued
  <2>3. Cardinality(Owned(p)) \in Nat /\ Cardinality(Queued(p)) \in Nat
          /\ Cardinality(Tenants!Between(p)) \in Nat
    BY <2>2, FS_Subset, FS_CardinalityType
  <2>4. /\ Cardinality(Owned(p)) + Cardinality(Tenants!Between(p)) <= b
        /\ Cardinality(Queued(p)) <= b * s + Cardinality(Owned(p))
    BY <1>0 DEF CountsWithin
  <2> HIDE DEF b, s
  <2>5. b * s \in Nat /\ b * (1 + s) = b * s + b
    BY <2>1
  <2>6. Cardinality(Owned(p)) <= b /\ Cardinality(Queued(p)) <= b * (1 + s)
    BY <2>1, <2>3, <2>4, <2>5
  <2> QED
    BY <2>6 DEF b, s
<1> QED
  BY <1>0, <1>1, <1>2 DEF Tenants!TenantsInv

LEMMA TenantsInit ==
    ASSUME Tenants!TenantsAssumption PROVE Tenants!Init => TenantsIInv
<1> SUFFICES ASSUME Tenants!Init PROVE TenantsIInv
  OBVIOUS
<1> USE DEF Tenants!TenantsAssumption, Tenants!Init
<1>1. Tenants!TypeOK
  BY DEF Tenants!TypeOK, Tenants!Request, Tenants!Services, Tenants!Requests
<1>2. Tenants!ToldIsUser /\ MeetingsTold /\ UserOfTold /\ Tenants!PlanPaid /\ Tenants!QueuedIsSent
        /\ RequestsPlanned
  BY DEF Tenants!ToldIsUser, MeetingsTold, UserOfTold, Tenants!PlanPaid, Tenants!QueuedIsSent, RequestsPlanned
<1>3. CountsWithin
  <2> SUFFICES ASSUME NEW p \in TntPeople
               PROVE  /\ Cardinality(Owned(p)) + Cardinality(Tenants!Between(p)) <= Tenants!Bought(p)
                      /\ Cardinality(Queued(p)) <= Tenants!Bought(p) * Tenants!Stops("core") + Cardinality(Owned(p))
    BY DEF CountsWithin
  <2>1. Owned(p) = {} /\ Tenants!Between(p) = {} /\ Queued(p) = {}
    BY DEF Owned, Tenants!Between, Queued
  <2>2. Cardinality({}) = 0
    BY FS_EmptySet
  <2>3. Tenants!Bought(p) \in Nat /\ Tenants!Stops("core") \in Nat
    BY <1>1, StopsCounted DEF Tenants!Bought, Tenants!TypeOK
  <2>4. Tenants!Bought(p) * Tenants!Stops("core") \in Nat
    BY <2>3
  <2> QED
    BY <2>1, <2>2, <2>3, <2>4
<1> QED
  BY <1>1, <1>2, <1>3 DEF TenantsIInv

(* The counts are as they were.                                            *)
LEMMA CountsStay ==
    ASSUME Tenants!TenantsAssumption, TenantsIInv, UNCHANGED tntStops, tntPaid \subseteq tntPaid',
           tntCrossed \subseteq tntCrossed',
           \A p \in TntPeople : Owned(p)' = Owned(p) /\ Tenants!Between(p)' = Tenants!Between(p) /\ Queued(p)' = Queued(p)
    PROVE  CountsWithin'
<1> SUFFICES ASSUME NEW p \in TntPeople, p \notin tntCrossed
             PROVE  /\ Cardinality(Owned(p)) + Cardinality(Tenants!Between(p)) <= Tenants!Bought(p)'
                    /\ Cardinality(Queued(p)) <= Tenants!Bought(p)' * Tenants!Stops("core") + Cardinality(Owned(p))
  <2>1. Tenants!Stops("core")' = Tenants!Stops("core")
    BY DEF Tenants!Stops
  <2> QED
    BY <2>1 DEF CountsWithin
<1> DEFINE b == Tenants!Bought(p)
           c == Tenants!Bought(p)'
           s == Tenants!Stops("core")
<1>1. b \in Nat /\ c \in Nat /\ b <= c
  BY DEF Tenants!Bought, Tenants!TenantsAssumption
<1>2. s \in Nat
  BY StopsCounted DEF TenantsIInv, Tenants!TypeOK
<1>3. /\ Cardinality(Owned(p)) + Cardinality(Tenants!Between(p)) <= b
      /\ Cardinality(Queued(p)) <= b * s + Cardinality(Owned(p))
  BY DEF TenantsIInv, CountsWithin
<1>4. /\ Cardinality(Owned(p)) \in Nat /\ Cardinality(Tenants!Between(p)) \in Nat
      /\ Cardinality(Queued(p)) \in Nat
  BY SetsFinite
<1> HIDE DEF b, c, s
<1>5. b * s \in Nat /\ c * s \in Nat /\ b * s <= c * s
  BY <1>1, <1>2, TimesGrows
<1>6. /\ Cardinality(Owned(p)) + Cardinality(Tenants!Between(p)) <= c
      /\ Cardinality(Queued(p)) <= c * s + Cardinality(Owned(p))
  BY <1>1, <1>3, <1>4, <1>5
<1> QED
  BY <1>6 DEF c, s

(* What a step of a request leaves for the others, and what it takes.      *)
LEMMA RequestMoves ==
    ASSUME Tenants!TenantsAssumption, TenantsIInv, NEW r \in Tenants!Requests,
           NEW n \in Tenants!Request,
           tntRequest' = [tntRequest EXCEPT ![r] = n]
    PROVE  /\ tntRequest' \in [Tenants!Requests -> Tenants!Request]
           /\ \A q \in Tenants!Requests : tntRequest'[q] = IF q = r THEN n ELSE tntRequest[q]
BY DEF TenantsIInv, Tenants!TypeOK

TablesStay == UNCHANGED <<tntUp, tntPooled, tntStops, tntUsers, tntPerson, tntRaced, tntPro, tntPaid>>

(* Steps of requests leave the other two services alone.                   *)
LEMMA OthersStay ==
    ASSUME TenantsIInv, TablesStay
    PROVE  Tenants!ToldIsUser' /\ MeetingsTold' /\ UserOfTold' /\ Tenants!PlanPaid'
BY DEF TenantsIInv, TablesStay, Tenants!ToldIsUser, MeetingsTold, UserOfTold, Tenants!PlanPaid, LostUsers, Tenants!Stops

(* A step at which no request begins or ceases to count.                   *)
LEMMA MovesAside ==
    ASSUME Tenants!TenantsAssumption, TenantsIInv, NEW r \in Tenants!Requests,
           NEW n \in Tenants!Request,
           tntRequest' = [tntRequest EXCEPT ![r] = n], UNCHANGED <<tntDeployed,
                                                                   tntCrossed>>, TablesStay,
           tntRequest[r].step = "idle" \/ (n.by = tntRequest[r].by /\ n.plain = tntRequest[r].plain),
           r \notin tntDeployed, tntRequest[r].step # "queued", n.step = "queued" => ~n.plain,
           n.plain /\ n.step \in {"send", "insert", "push"} <=>
             tntRequest[r].plain /\ tntRequest[r].step \in {"send", "insert", "push"}
    PROVE  CountsWithin'
<1>1. \A q \in Tenants!Requests : tntRequest'[q] = IF q = r THEN n ELSE tntRequest[q]
  BY RequestMoves
<1>0. tntDeployed \subseteq Tenants!Requests
  BY DEF TenantsIInv, Tenants!TypeOK
<1>2. ASSUME NEW p \in TntPeople
      PROVE  Owned(p)' = Owned(p) /\ Tenants!Between(p)' = Tenants!Between(p) /\ Queued(p)' = Queued(p)
  <2>1. Owned(p)' = Owned(p)
    BY <1>0, <1>1 DEF Owned
  <2>2. Tenants!Between(p)' = Tenants!Between(p)
    BY <1>1 DEF Tenants!Between
  <2>3. Queued(p)' = Queued(p)
    BY <1>1 DEF Queued
  <2> QED
    BY <2>1, <2>2, <2>3
<1> QED
  BY <1>2, CountsStay DEF TablesStay

(* Nothing of platform-core moves, and nobody pays less.                   *)
LEMMA CoreStays ==
    ASSUME Tenants!TenantsAssumption, TenantsIInv,
           UNCHANGED <<tntStops, tntPooled, Tenants!coreVars>>, tntPaid \subseteq tntPaid'
    PROVE  Tenants!QueuedIsSent' /\ RequestsPlanned' /\ CountsWithin'
<1>1. UNCHANGED <<tntDeployed, tntRequest, tntEvents, tntRows, tntCrossed>>
  BY DEF Tenants!coreVars
<1>2. Tenants!QueuedIsSent'
  BY <1>1 DEF TenantsIInv, Tenants!QueuedIsSent
<1>3. \A p : Tenants!Bought(p) \in Nat /\ Tenants!Bought(p)' \in Nat /\ Tenants!Bought(p) <= Tenants!Bought(p)'
  BY DEF Tenants!Bought, Tenants!TenantsAssumption
<1>4. RequestsPlanned'
  <2> SUFFICES ASSUME NEW r \in Tenants!Requests, tntRequest[r].step = "count"
               PROVE  tntRequest[r].limit <= Tenants!Bought(tntRequest[r].by)'
    BY <1>1 DEF TenantsIInv, RequestsPlanned
  <2>1. tntRequest[r].limit \in Nat
    BY DEF TenantsIInv, Tenants!TypeOK, Tenants!Request
  <2>2. tntRequest[r].limit <= Tenants!Bought(tntRequest[r].by)
    BY DEF TenantsIInv, RequestsPlanned
  <2>3. Tenants!Bought(tntRequest[r].by) <= Tenants!Bought(tntRequest[r].by)'
    BY <1>1 DEF Tenants!Bought, Tenants!TenantsAssumption
  <2>4. Tenants!Bought(tntRequest[r].by) \in Nat /\ Tenants!Bought(tntRequest[r].by)' \in Nat
    BY <1>1 DEF Tenants!Bought, Tenants!TenantsAssumption
  <2> QED
    BY <2>1, <2>2, <2>3, <2>4
<1>5. CountsWithin'
  <2>1. \A p \in TntPeople : Owned(p)' = Owned(p) /\ Tenants!Between(p)' = Tenants!Between(p) /\ Queued(p)' = Queued(p)
    BY <1>1 DEF Owned, Tenants!Between, Queued
  <2> QED
    BY <1>1, <2>1, CountsStay
<1> QED
  BY <1>2, <1>4, <1>5

LEMMA PersonStep ==
    ASSUME Tenants!TenantsAssumption, TenantsIInv, NEW p \in TntPeople,
           Tenants!Register(p) \/ Tenants!Registered(p) \/ Tenants!Login(p) \/ Tenants!Webhook(p)
    PROVE  TenantsIInv'
<1>0. /\ Tenants!TypeOK /\ Tenants!ToldIsUser /\ MeetingsTold /\ UserOfTold /\ Tenants!PlanPaid
  BY DEF TenantsIInv
<1>1. UNCHANGED <<tntStops, tntPooled, tntUp, Tenants!coreVars>> /\ tntPaid \subseteq tntPaid'
  BY DEF Tenants!Register, Tenants!Registered, Tenants!Login, Tenants!Webhook, Tenants!billingVars, Tenants!authVars
<1>2. Tenants!QueuedIsSent' /\ RequestsPlanned' /\ CountsWithin'
  BY <1>1, CoreStays
<1>3. /\ \A s : Tenants!Stops(s)' = Tenants!Stops(s)
      /\ LostUsers' <=> LostUsers
  BY <1>1 DEF Tenants!Stops, LostUsers
<1>4. \A e \in TntPeople : TntEmail[e] \in Tenants!Emails
  BY DEF Tenants!Emails
<1>c. Tenants!TypeOK' <=>
        /\ tntUsers' \in [Tenants!Emails -> TntPeople \cup {AgtNone}] /\ tntPro' \subseteq TntPeople
        /\ tntPerson' \in [TntPeople -> {"new", "hash", "told", "refused", "in"}]
        /\ tntRaced' \subseteq Tenants!Emails /\ tntPaid' \subseteq TntPeople
  BY <1>0, <1>1 DEF Tenants!TypeOK, Tenants!coreVars
<1>5. ASSUME Tenants!Register(p)
      PROVE  Tenants!TypeOK' /\ Tenants!ToldIsUser' /\ MeetingsTold' /\ UserOfTold' /\ Tenants!PlanPaid'
  <2>1. UNCHANGED <<tntUsers, tntPro, tntPaid>> /\ tntPerson[p] = "new"
    BY <1>5 DEF Tenants!Register, Tenants!billingVars
  <2>2. CASE /\ tntUsers[TntEmail[p]] # AgtNone /\ UNCHANGED tntRaced
             /\ tntPerson' = [tntPerson EXCEPT ![p] = "refused"]
    <3>1. \A q \in TntPeople : tntPerson'[q] = IF q = p THEN "refused" ELSE tntPerson[q]
      BY <1>0, <2>2 DEF Tenants!TypeOK
    <3>2. Tenants!TypeOK'
      BY <1>0, <1>c, <2>1, <2>2 DEF Tenants!TypeOK
    <3>3. Tenants!ToldIsUser' /\ Tenants!PlanPaid'
      BY <1>0, <1>3, <2>1, <2>2, <3>1 DEF Tenants!ToldIsUser, Tenants!PlanPaid
    <3>4. MeetingsTold' /\ UserOfTold'
      BY <1>0, <1>3, <2>1, <2>2, <3>1 DEF MeetingsTold, UserOfTold
    <3> QED
      BY <3>2, <3>3, <3>4
  <2>3. CASE /\ tntUsers[TntEmail[p]] = AgtNone /\ tntPerson' = [tntPerson EXCEPT ![p] = "hash"]
             /\ tntRaced' = IF \E q \in TntPeople : tntPerson[q] = "hash" /\ TntEmail[q] = TntEmail[p]
                            THEN tntRaced \cup {TntEmail[p]} ELSE tntRaced
    <3>1. \A q \in TntPeople : tntPerson'[q] = IF q = p THEN "hash" ELSE tntPerson[q]
      BY <1>0, <2>3 DEF Tenants!TypeOK
    <3>2. Tenants!TypeOK'
      <4>1. tntRaced' \subseteq Tenants!Emails
        BY <1>0, <1>4, <2>3 DEF Tenants!TypeOK
      <4> QED
        BY <1>0, <1>c, <2>1, <2>3, <4>1 DEF Tenants!TypeOK
    <3>r. tntRaced \subseteq tntRaced'
      BY <2>3
    <3>3. Tenants!ToldIsUser' /\ Tenants!PlanPaid'
      BY <1>0, <1>3, <2>1, <3>r, <3>1 DEF Tenants!ToldIsUser, Tenants!PlanPaid
    <3>4. UserOfTold'
      BY <1>0, <1>3, <2>1, <3>1 DEF UserOfTold
    <3>5. \A q \in TntPeople : TntEmail[q] = TntEmail[p] /\ tntPerson[q] = "hash" =>
            TntEmail[p] \in tntRaced'
      BY <2>3
    <3>6. \A q \in TntPeople : TntEmail[q] = TntEmail[p] /\ tntPerson[q] \in {"told", "in"} => LostUsers
      BY <1>0, <2>3 DEF UserOfTold, Tenants!TenantsAssumption
    <3>7. MeetingsTold'
      BY <1>0, <1>3, <2>1, <3>1, <3>r, <3>5, <3>6 DEF MeetingsTold
    <3> QED
      BY <3>2, <3>3, <3>4, <3>7
  <2> QED
    BY <1>5, <2>2, <2>3 DEF Tenants!Register, Tenants!Person
<1>6. ASSUME Tenants!Registered(p)
      PROVE  Tenants!TypeOK' /\ Tenants!ToldIsUser' /\ MeetingsTold' /\ UserOfTold' /\ Tenants!PlanPaid'
  <2>1. /\ UNCHANGED <<tntRaced, tntPro, tntPaid>> /\ tntPerson[p] = "hash"
        /\ tntUsers' = [tntUsers EXCEPT ![TntEmail[p]] = p]
        /\ tntPerson' = [tntPerson EXCEPT ![p] = "told"]
    BY <1>6 DEF Tenants!Registered, Tenants!billingVars, Tenants!Store, Tenants!Person
  <2>2. \A q \in TntPeople : tntPerson'[q] = IF q = p THEN "told" ELSE tntPerson[q]
    BY <1>0, <2>1 DEF Tenants!TypeOK
  <2>3. \A q \in TntPeople : tntUsers'[TntEmail[q]] = IF TntEmail[q] = TntEmail[p] THEN p ELSE tntUsers[TntEmail[q]]
    BY <1>0, <1>4, <2>1 DEF Tenants!TypeOK
  <2>4. Tenants!TypeOK'
    BY <1>0, <1>c, <1>4, <2>1 DEF Tenants!TypeOK
  <2>5. MeetingsTold'
    BY <1>0, <1>3, <2>1, <2>2 DEF MeetingsTold
  <2>6. \A q \in TntPeople : q # p /\ TntEmail[q] = TntEmail[p] /\ tntPerson[q] \in {"told", "in"} =>
           TntEmail[q] \in tntRaced \/ LostUsers
    BY <1>0, <2>1 DEF MeetingsTold
  <2>7. Tenants!ToldIsUser'
    BY <1>0, <1>3, <2>1, <2>2, <2>3, <2>6 DEF Tenants!ToldIsUser, LostUsers
  <2>8. UserOfTold'
    BY <1>0, <1>3, <2>2, <2>3 DEF UserOfTold
  <2>9. Tenants!PlanPaid'
    BY <1>0, <1>3, <2>1 DEF Tenants!PlanPaid
  <2> QED
    BY <2>4, <2>5, <2>7, <2>8, <2>9
<1>7. ASSUME Tenants!Login(p)
      PROVE  Tenants!TypeOK' /\ Tenants!ToldIsUser' /\ MeetingsTold' /\ UserOfTold' /\ Tenants!PlanPaid'
  <2>1. /\ UNCHANGED <<tntRaced, tntPro, tntPaid, tntUsers>> /\ tntPerson[p] = "told"
        /\ tntPerson' = [tntPerson EXCEPT ![p] = "in"]
    BY <1>7 DEF Tenants!Login, Tenants!billingVars, Tenants!Person
  <2>2. \A q \in TntPeople : tntPerson'[q] = IF q = p THEN "in" ELSE tntPerson[q]
    BY <1>0, <2>1 DEF Tenants!TypeOK
  <2>3. Tenants!TypeOK'
    BY <1>0, <1>c, <2>1 DEF Tenants!TypeOK
  <2>4. MeetingsTold' /\ UserOfTold'
    BY <1>0, <1>3, <2>1, <2>2 DEF MeetingsTold, UserOfTold
  <2>5. Tenants!ToldIsUser' /\ Tenants!PlanPaid'
    BY <1>0, <1>3, <2>1, <2>2 DEF Tenants!ToldIsUser, Tenants!PlanPaid
  <2> QED
    BY <2>3, <2>4, <2>5
<1>8. ASSUME Tenants!Webhook(p)
      PROVE  Tenants!TypeOK' /\ Tenants!ToldIsUser' /\ MeetingsTold' /\ UserOfTold' /\ Tenants!PlanPaid'
  <2>1. /\ UNCHANGED <<tntRaced, tntPerson, tntUsers>> /\ tntPro' = tntPro \cup {p}
        /\ tntPaid' = tntPaid \cup {p}
    BY <1>8 DEF Tenants!Webhook, Tenants!authVars
  <2>2. Tenants!TypeOK'
    BY <1>0, <1>c, <2>1 DEF Tenants!TypeOK
  <2>3. MeetingsTold' /\ UserOfTold' /\ Tenants!ToldIsUser' /\ Tenants!PlanPaid'
    BY <1>0, <1>3, <2>1 DEF MeetingsTold, UserOfTold, Tenants!ToldIsUser, Tenants!PlanPaid
  <2> QED
    BY <2>2, <2>3
<1> QED
  BY <1>2, <1>5, <1>6, <1>7, <1>8 DEF TenantsIInv

(* What is left to show of a request that takes a step.                    *)
LEMMA RequestSteps ==
    ASSUME Tenants!TenantsAssumption, TenantsIInv, NEW r \in Tenants!Requests,
           NEW n \in Tenants!Request,
           tntRequest' = [tntRequest EXCEPT ![r] = n], TablesStay, tntRequest[r].step # "queued", tntRequest[r].step # "lost",
           tntDeployed \subseteq tntDeployed', tntDeployed' \subseteq tntDeployed \cup {r}, tntCrossed' \subseteq TntPeople,
           tntEvents \subseteq tntEvents', tntEvents' \subseteq tntEvents \cup {r},
           tntRows \subseteq tntRows', tntRows' \subseteq tntRows \cup {r},
           n.by \in TntPeople, n.step # "idle", n.step = "count" => n.limit <= Tenants!Bought(n.by),
           n.step \in {"insert", "push"} => n.plain /\ r \in tntEvents', n.step = "insert" => tntPooled,
           n.step = "push" /\ tntPooled => r \in tntRows', r \in tntDeployed' =>
             n.plain /\ n.step = "queued",
           n.step = "queued" => r \in tntEvents' /\ (tntPooled /\ n.plain => r \in tntRows'),
           r \in tntEvents' => n.step \in {"insert", "push", "queued", "lost"}, r \in tntRows' =>
             r \in tntEvents' /\ tntPooled
    PROVE  /\ Tenants!TypeOK' /\ Tenants!ToldIsUser' /\ MeetingsTold' /\ UserOfTold'
           /\ Tenants!PlanPaid'
           /\ Tenants!QueuedIsSent' /\ RequestsPlanned'
<1>0. Tenants!TypeOK /\ Tenants!QueuedIsSent /\ RequestsPlanned
  BY DEF TenantsIInv
<1>1. /\ tntRequest' \in [Tenants!Requests -> Tenants!Request]
      /\ \A q \in Tenants!Requests : tntRequest'[q] = IF q = r THEN n ELSE tntRequest[q]
  BY RequestMoves
<1>2. Tenants!TypeOK'
  BY <1>0, <1>1 DEF Tenants!TypeOK, TablesStay
<1>3. tntPooled' = tntPooled /\ \A p : Tenants!Bought(p)' = Tenants!Bought(p)
  BY DEF TablesStay, Tenants!Bought
<1>4. Tenants!QueuedIsSent'
  <2> SUFFICES ASSUME NEW q \in Tenants!Requests
               PROVE  /\ tntRequest'[q].step = "queued" =>
                           q \in tntEvents' /\ (tntPooled' /\ tntRequest'[q].plain => q \in tntRows')
                      /\ q \in tntEvents' => tntRequest'[q].step \in {"insert", "push", "queued", "lost"}
                      /\ q \in tntRows' => q \in tntEvents' /\ tntPooled'
                      /\ q \in tntDeployed' => tntRequest'[q].step = "queued"
    BY DEF Tenants!QueuedIsSent
  <2>1. CASE q = r
    BY <1>1, <1>3, <2>1
  <2>2. CASE q # r
    <3>1. tntRequest'[q] = tntRequest[q] /\ (q \in tntEvents' <=> q \in tntEvents) /\ (q \in tntRows' <=> q \in tntRows)
          /\ (q \in tntDeployed' <=> q \in tntDeployed)
      BY <1>1, <2>2
    <3> QED
      BY <1>0, <1>3, <3>1 DEF Tenants!QueuedIsSent
  <2> QED
    BY <2>1, <2>2
<1>5. RequestsPlanned'
  <2> SUFFICES ASSUME NEW q \in Tenants!Requests
               PROVE  /\ tntRequest'[q].step # "idle" => tntRequest'[q].by \in TntPeople
                      /\ tntRequest'[q].step = "count" =>
                           tntRequest'[q].limit <= Tenants!Bought(tntRequest'[q].by)
                      /\ tntRequest'[q].step \in {"insert", "push"} =>
                           tntRequest'[q].plain /\ q \in tntEvents'
                      /\ tntRequest'[q].step = "insert" => tntPooled'
                      /\ tntRequest'[q].step = "push" /\ tntPooled' => q \in tntRows'
                      /\ q \in tntDeployed' => tntRequest'[q].plain
    <3>1. \A q \in Tenants!Requests : Tenants!Bought(tntRequest[q].by)' = Tenants!Bought(tntRequest'[q].by)
      BY DEF TablesStay, Tenants!Bought
    <3> QED
      BY <3>1 DEF RequestsPlanned
  <2>1. CASE q = r
    BY <1>1, <1>3, <2>1
  <2>2. CASE q # r
    <3>1. tntRequest'[q] = tntRequest[q] /\ (q \in tntEvents' <=> q \in tntEvents) /\ (q \in tntRows' <=> q \in tntRows)
          /\ (q \in tntDeployed' <=> q \in tntDeployed)
      BY <1>1, <2>2
    <3> QED
      BY <1>0, <1>3, <3>1 DEF RequestsPlanned
  <2> QED
    BY <2>1, <2>2
<1> QED
  BY <1>2, <1>4, <1>5, OthersStay

(* A step that leaves the counts alone, with all the rest of it.           *)
LEMMA RequestStep ==
    ASSUME Tenants!TenantsAssumption, TenantsIInv, NEW r \in Tenants!Requests,
           Tenants!Deploy(r) \/ Tenants!Plan(r) \/ Tenants!Send(r) \/ Tenants!Insert(r)
    PROVE  TenantsIInv'
<1>0. /\ Tenants!TypeOK /\ Tenants!QueuedIsSent /\ RequestsPlanned
      /\ tntRequest \in [Tenants!Requests -> Tenants!Request]
      /\ tntCrossed \subseteq TntPeople
  BY DEF TenantsIInv, Tenants!TypeOK
<1>t. TablesStay /\ UNCHANGED <<tntDeployed, tntCrossed>>
  BY DEF TablesStay, Tenants!Deploy, Tenants!Plan, Tenants!Send, Tenants!Insert, Tenants!authVars, Tenants!billingVars
<1>d. tntRequest[r].step # "queued" => r \notin tntDeployed
  BY <1>0 DEF Tenants!QueuedIsSent
<1>1. CASE Tenants!Deploy(r)
  <2>1. PICK p \in TntPeople, plain \in BOOLEAN :
           tntRequest' = [tntRequest EXCEPT ![r] = [step |-> IF plain THEN "plan" ELSE "send", by |-> p, limit |-> 0, plain |-> plain]]
    BY <1>1 DEF Tenants!Deploy
  <2> DEFINE n == [step |-> IF plain THEN "plan" ELSE "send", by |-> p, limit |-> 0, plain |-> plain]
  <2>2. n \in Tenants!Request
    BY DEF Tenants!Request
  <2>3. /\ tntRequest[r].step = "idle" /\ UNCHANGED <<tntEvents, tntRows>> /\ r \notin tntEvents
        /\ r \notin tntRows
        /\ r \notin tntDeployed
    BY <1>0, <1>1 DEF Tenants!Deploy, Tenants!QueuedIsSent
  <2>4. /\ n.by = p /\ n.step \in {"plan", "send"} /\ n.limit = 0 /\ n.plain = plain /\ (plain <=> n.step = "plan")
    OBVIOUS
  <2>5. tntRequest' = [tntRequest EXCEPT ![r] = n]
    BY <2>1
  <2> HIDE DEF n
  <2>6. CountsWithin'
    BY <1>t, <2>2, <2>3, <2>4, <2>5, MovesAside
  <2>7. /\ Tenants!TypeOK' /\ Tenants!ToldIsUser' /\ MeetingsTold' /\ UserOfTold' /\ Tenants!PlanPaid'
        /\ Tenants!QueuedIsSent' /\ RequestsPlanned'
    BY <1>0, <1>t, <2>2, <2>3, <2>4, <2>5, RequestSteps
  <2> QED
    BY <2>6, <2>7 DEF TenantsIInv
<1>2. CASE Tenants!Plan(r)
  <2> DEFINE n == [tntRequest[r] EXCEPT !.step = "count", !.limit = Tenants!Bought(tntRequest[r].by)]
             m == [tntRequest[r] EXCEPT !.step = "count", !.limit = TntFreeLimit]
  <2>1. /\ tntRequest[r].step = "plan" /\ UNCHANGED <<tntEvents, tntRows>> /\ r \notin tntEvents
        /\ r \notin tntRows
        /\ r \notin tntDeployed
    BY <1>0, <1>2 DEF Tenants!Plan, Tenants!QueuedIsSent
  <2> DEFINE q == [tntRequest[r] EXCEPT !.step = "count", !.limit = IF tntRequest[r].by \in tntPro THEN TntProLimit ELSE TntFreeLimit]
  <2>2. tntRequest' = [tntRequest EXCEPT ![r] = q]
    BY <1>0, <1>2 DEF Tenants!Plan
  <2>3. q \in Tenants!Request
    BY <1>0 DEF Tenants!Request, Tenants!TenantsAssumption
  <2>4. /\ q.step = "count" /\ q.by = tntRequest[r].by /\ q.plain = tntRequest[r].plain
        /\ q.limit = IF tntRequest[r].by \in tntPro THEN TntProLimit ELSE TntFreeLimit
    BY <1>0 DEF Tenants!Request
  <2>5. q.limit <= Tenants!Bought(q.by)
    BY <2>4 DEF Tenants!Bought, Tenants!TenantsAssumption, TenantsIInv, Tenants!PlanPaid
  <2>6. q.by \in TntPeople
    BY <1>0, <2>1, <2>4 DEF RequestsPlanned
  <2> HIDE DEF q
  <2>7. CountsWithin'
    BY <1>t, <2>1, <2>2, <2>3, <2>4, MovesAside
  <2>8. /\ Tenants!TypeOK' /\ Tenants!ToldIsUser' /\ MeetingsTold' /\ UserOfTold' /\ Tenants!PlanPaid'
        /\ Tenants!QueuedIsSent' /\ RequestsPlanned'
    BY <1>0, <1>t, <2>1, <2>2, <2>3, <2>4, <2>5, <2>6, RequestSteps
  <2> QED
    BY <2>7, <2>8 DEF TenantsIInv
<1>3. CASE Tenants!Send(r)
  <2> DEFINE n == [tntRequest[r] EXCEPT !.step = IF ~tntRequest[r].plain THEN "queued" ELSE IF tntPooled THEN "insert" ELSE "push"]
  <2>1. /\ tntRequest[r].step = "send" /\ UNCHANGED tntRows /\ tntEvents' = tntEvents \cup {r}
        /\ r \notin tntRows
        /\ r \notin tntDeployed
    BY <1>0, <1>3 DEF Tenants!Send, Tenants!QueuedIsSent
  <2>2. tntRequest' = [tntRequest EXCEPT ![r] = n]
    BY <1>0, <1>3 DEF Tenants!Send, Tenants!Step
  <2>3. n \in Tenants!Request
    BY <1>0 DEF Tenants!Request
  <2>4. /\ n.by = tntRequest[r].by /\ n.plain = tntRequest[r].plain
        /\ n.step \in {"queued", "insert", "push"}
        /\ n.step = "queued" <=> ~n.plain
        /\ n.step = "insert" => tntPooled
        /\ n.step = "push" => ~tntPooled
    BY <1>0 DEF Tenants!Request
  <2>6. n.by \in TntPeople
    BY <1>0, <2>1, <2>4 DEF RequestsPlanned
  <2> HIDE DEF n
  <2>7. CountsWithin'
    BY <1>t, <2>1, <2>2, <2>3, <2>4, MovesAside
  <2>8. /\ Tenants!TypeOK' /\ Tenants!ToldIsUser' /\ MeetingsTold' /\ UserOfTold' /\ Tenants!PlanPaid'
        /\ Tenants!QueuedIsSent' /\ RequestsPlanned'
    BY <1>0, <1>t, <2>1, <2>2, <2>3, <2>4, <2>6, RequestSteps
  <2> QED
    BY <2>7, <2>8 DEF TenantsIInv
<1>4. CASE Tenants!Insert(r)
  <2> DEFINE n == [tntRequest[r] EXCEPT !.step = "push"]
  <2>1. /\ tntRequest[r].step = "insert" /\ UNCHANGED tntEvents /\ tntRows' = tntRows \cup {r}
        /\ r \notin tntDeployed
    BY <1>0, <1>4 DEF Tenants!Insert, Tenants!QueuedIsSent
  <2>2. tntRequest' = [tntRequest EXCEPT ![r] = n]
    BY <1>0, <1>4 DEF Tenants!Insert, Tenants!Step
  <2>3. n \in Tenants!Request
    BY <1>0 DEF Tenants!Request
  <2>4. n.by = tntRequest[r].by /\ n.plain = tntRequest[r].plain /\ n.step = "push"
    BY <1>0 DEF Tenants!Request
  <2>6. n.by \in TntPeople /\ r \in tntEvents /\ n.plain /\ tntPooled
    BY <1>0, <2>1, <2>4 DEF RequestsPlanned
  <2> HIDE DEF n
  <2>7. CountsWithin'
    BY <1>t, <2>1, <2>2, <2>3, <2>4, <2>6, MovesAside
  <2>8. /\ Tenants!TypeOK' /\ Tenants!ToldIsUser' /\ MeetingsTold' /\ UserOfTold' /\ Tenants!PlanPaid'
        /\ Tenants!QueuedIsSent' /\ RequestsPlanned'
    BY <1>0, <1>t, <2>1, <2>2, <2>3, <2>4, <2>6, RequestSteps
  <2> QED
    BY <2>7, <2>8 DEF TenantsIInv
<1> QED
  BY <1>1, <1>2, <1>3, <1>4

(* Past the count: one more between the count and the table, or one that   *)
(* was not alone there.                                                    *)
LEMMA CountStep ==
    ASSUME Tenants!TenantsAssumption, TenantsIInv, NEW r \in Tenants!Requests, Tenants!Count(r)
    PROVE  TenantsIInv'
<1>0. /\ Tenants!TypeOK /\ Tenants!QueuedIsSent /\ RequestsPlanned
      /\ tntRequest \in [Tenants!Requests -> Tenants!Request]
      /\ tntCrossed \subseteq TntPeople /\ CountsWithin /\ tntDeployed \subseteq Tenants!Requests
  BY DEF TenantsIInv, Tenants!TypeOK
<1> DEFINE n(step) == [tntRequest[r] EXCEPT !.step = step]
<1>1. /\ TablesStay /\ UNCHANGED <<tntDeployed, tntEvents, tntRows>> /\ tntRequest[r].step = "count"
      /\ r \notin tntDeployed /\ r \notin tntEvents /\ r \notin tntRows
  BY <1>0 DEF TablesStay, Tenants!Count, Tenants!authVars, Tenants!billingVars, Tenants!QueuedIsSent
<1>2. PICK p \in TntPeople : p = tntRequest[r].by /\ tntRequest[r].limit <= Tenants!Bought(p)
  BY <1>0, <1>1 DEF RequestsPlanned
<1>3. \A step \in {"send", "refused"} : n(step) \in Tenants!Request /\ n(step).step = step /\ n(step).by = p
        /\ n(step).plain = tntRequest[r].plain
  BY <1>0, <1>2 DEF Tenants!Request
<1> HIDE DEF n
<1>4. CASE ~Tenants!MayDeploy(r)
  <2>1. tntRequest' = [tntRequest EXCEPT ![r] = n("refused")] /\ UNCHANGED tntCrossed
    BY <1>4 DEF Tenants!Count, Tenants!Step, n
  <2>2. CountsWithin'
    BY <1>2, <1>0, <1>1, <1>3, <2>1, MovesAside
  <2>3. /\ Tenants!TypeOK' /\ Tenants!ToldIsUser' /\ MeetingsTold' /\ UserOfTold' /\ Tenants!PlanPaid'
        /\ Tenants!QueuedIsSent' /\ RequestsPlanned'
    BY <1>0, <1>1, <1>2, <1>3, <2>1, RequestSteps
  <2> QED
    BY <2>2, <2>3 DEF TenantsIInv
<1>5. CASE Tenants!MayDeploy(r)
  <2>1. tntRequest' = [tntRequest EXCEPT ![r] = n("send")]
    BY <1>5 DEF Tenants!Count, Tenants!Step, n
  <2>2. tntCrossed' = IF Tenants!Between(p) # {} THEN tntCrossed \cup {p} ELSE tntCrossed
    BY <1>2, <1>5 DEF Tenants!Count
  <2>3. tntCrossed' \subseteq TntPeople
    BY <1>0, <1>2, <2>2
  <2>4. /\ Tenants!TypeOK' /\ Tenants!ToldIsUser' /\ MeetingsTold' /\ UserOfTold' /\ Tenants!PlanPaid'
        /\ Tenants!QueuedIsSent' /\ RequestsPlanned'
    BY <1>0, <1>1, <1>2, <1>3, <2>1, <2>3, RequestSteps
  <2>5. \A q \in Tenants!Requests : tntRequest'[q] = IF q = r THEN n("send") ELSE tntRequest[q]
    BY <1>3, <2>1, RequestMoves
  <2>6. \A o \in TntPeople : Owned(o)' = Owned(o)
    BY <1>2, <1>0, <1>1, <1>3, <2>5 DEF Owned
  <2>7. \A o \in TntPeople : Queued(o)' = Queued(o)
    BY <1>1, <1>3, <2>5 DEF Queued
  <2>8. \A o \in TntPeople \ {p} : Tenants!Between(o)' = Tenants!Between(o)
    BY <1>2, <1>1, <1>3, <2>5 DEF Tenants!Between
  <2>9. Tenants!Between(p)' \subseteq Tenants!Between(p) \cup {r}
    BY <1>1, <1>3, <2>5 DEF Tenants!Between
  <2>10. \A o : Tenants!Bought(o)' = Tenants!Bought(o) /\ Tenants!Stops("core")' = Tenants!Stops("core")
    BY <1>1 DEF TablesStay, Tenants!Bought, Tenants!Stops
  <2>11. CountsWithin'
    <3> SUFFICES ASSUME NEW o \in TntPeople, o \notin tntCrossed'
                 PROVE  /\ Cardinality(Owned(o)') + Cardinality(Tenants!Between(o)') <= Tenants!Bought(o)
                        /\ Cardinality(Queued(o)') <= Tenants!Bought(o) * Tenants!Stops("core") + Cardinality(Owned(o)')
      BY <2>10 DEF CountsWithin
    <3>1. o \notin tntCrossed
      BY <2>2
    <3>2. CASE o # p
      BY <1>0, <2>6, <2>7, <2>8, <3>1, <3>2 DEF CountsWithin
    <3>3. CASE o = p
      <4>1. Tenants!Between(p) = {}
        BY <2>2, <3>3
      <4>2. Cardinality(Owned(p)) < tntRequest[r].limit
        BY <1>2, <1>5, TenantsCount DEF Tenants!MayDeploy, Tenants!Deployments, Owned
      <4>3. Tenants!Between(p)' \in SUBSET {r} /\ IsFiniteSet({r}) /\ Cardinality({r}) = 1
        BY <2>9, <4>1, FS_Singleton
      <4>4. IsFiniteSet(Tenants!Between(p)') /\ Cardinality(Tenants!Between(p)') <= 1
              /\ Cardinality(Tenants!Between(p)') \in Nat
        BY <4>3, FS_Subset, FS_CardinalityType
      <4>5. tntRequest[r].limit \in Nat /\ Tenants!Bought(p) \in Nat
        BY <1>0 DEF Tenants!Request, Tenants!Bought, Tenants!TenantsAssumption
      <4>6. Cardinality(Owned(p)) \in Nat
        BY SetsFinite
      <4>7. Cardinality(Owned(p)') + Cardinality(Tenants!Between(p)') <= Tenants!Bought(p)
        BY <1>2, <2>6, <4>2, <4>4, <4>5, <4>6
      <4>8. Cardinality(Queued(p)') <= Tenants!Bought(p) * Tenants!Stops("core") + Cardinality(Owned(p)')
        BY <1>0, <1>2, <2>6, <2>7, <3>1, <3>3 DEF CountsWithin
      <4> QED
        BY <3>3, <4>7, <4>8
    <3> QED
      BY <3>2, <3>3
  <2> QED
    BY <2>4, <2>11 DEF TenantsIInv
<1> QED
  BY <1>4, <1>5

(* Into the table and out of what is between: the sum is what it was.      *)
LEMMA PushStep ==
    ASSUME Tenants!TenantsAssumption, TenantsIInv, NEW r \in Tenants!Requests, Tenants!Push(r)
    PROVE  TenantsIInv'
<1>0. /\ Tenants!TypeOK /\ Tenants!QueuedIsSent /\ RequestsPlanned
      /\ tntRequest \in [Tenants!Requests -> Tenants!Request]
      /\ tntCrossed \subseteq TntPeople /\ CountsWithin /\ tntDeployed \subseteq Tenants!Requests
  BY DEF TenantsIInv, Tenants!TypeOK
<1> DEFINE n == [tntRequest[r] EXCEPT !.step = "queued"]
<1>1. /\ TablesStay /\ UNCHANGED <<tntEvents, tntRows, tntCrossed>> /\ tntRequest[r].step = "push"
      /\ r \notin tntDeployed /\ tntDeployed' = tntDeployed \cup {r}
      /\ tntRequest' = [tntRequest EXCEPT ![r] = n]
  BY <1>0 DEF TablesStay, Tenants!Push, Tenants!authVars, Tenants!billingVars, Tenants!QueuedIsSent, Tenants!Step
<1>2. PICK p \in TntPeople : p = tntRequest[r].by /\ tntRequest[r].plain /\ r \in tntEvents /\ (tntPooled => r \in tntRows)
  BY <1>0, <1>1 DEF RequestsPlanned
<1>3. n \in Tenants!Request /\ n.step = "queued" /\ n.by = p /\ n.plain = tntRequest[r].plain
  BY <1>0, <1>2 DEF Tenants!Request
<1>r. r \in tntRows => tntPooled
  BY <1>0 DEF Tenants!QueuedIsSent
<1> HIDE DEF n
<1>4. /\ Tenants!TypeOK' /\ Tenants!ToldIsUser' /\ MeetingsTold' /\ UserOfTold' /\ Tenants!PlanPaid'
      /\ Tenants!QueuedIsSent' /\ RequestsPlanned'
  BY <1>0, <1>1, <1>2, <1>3, <1>r, RequestSteps
<1>5. \A q \in Tenants!Requests : tntRequest'[q] = IF q = r THEN n ELSE tntRequest[q]
  BY <1>1, <1>3, RequestMoves
<1>6. \A o \in TntPeople \ {p} : Owned(o)' = Owned(o) /\ Queued(o)' = Queued(o) /\ Tenants!Between(o)' = Tenants!Between(o)
  <2> SUFFICES ASSUME NEW o \in TntPeople \ {p}
               PROVE  Owned(o)' = Owned(o) /\ Queued(o)' = Queued(o)
                        /\ Tenants!Between(o)' = Tenants!Between(o)
    OBVIOUS
  <2>1. Owned(o)' = Owned(o)
    BY <1>0, <1>1, <1>3, <1>5 DEF Owned
  <2>2. Queued(o)' = Queued(o)
    BY <1>1, <1>3, <1>5 DEF Queued
  <2>3. Tenants!Between(o)' = Tenants!Between(o)
    BY <1>2, <1>1, <1>5, <1>3 DEF Tenants!Between
  <2> QED
    BY <2>1, <2>2, <2>3
<1>7. Owned(p)' = Owned(p) \cup {r} /\ r \notin Owned(p)
  BY <1>0, <1>1, <1>3, <1>5 DEF Owned
<1>8. Queued(p)' = Queued(p) \cup {r} /\ r \notin Queued(p)
  <2>1. r \notin Queued(p)
    BY <1>1 DEF Queued
  <2>2. \A q \in Tenants!Requests \ {r} : q \in Queued(p)' <=> q \in Queued(p)
    BY <1>5 DEF Queued
  <2>3. r \in Queued(p)'
    BY <1>2, <1>3, <1>5 DEF Queued
  <2>4. \A q : (q \in Queued(p) => q \in Tenants!Requests) /\ (q \in Queued(p)' => q \in Tenants!Requests)
    BY DEF Queued
  <2> QED
    BY <2>1, <2>2, <2>3, <2>4
<1>9. Tenants!Between(p)' = Tenants!Between(p) \ {r} /\ r \in Tenants!Between(p)
  BY <1>1, <1>2, <1>3, <1>5 DEF Tenants!Between
<1>10. \A o : Tenants!Bought(o)' = Tenants!Bought(o) /\ Tenants!Stops("core")' = Tenants!Stops("core")
  BY <1>1 DEF TablesStay, Tenants!Bought, Tenants!Stops
<1>11. CountsWithin'
  <2> SUFFICES ASSUME NEW o \in TntPeople, o \notin tntCrossed
               PROVE  /\ Cardinality(Owned(o)') + Cardinality(Tenants!Between(o)') <= Tenants!Bought(o)
                      /\ Cardinality(Queued(o)') <= Tenants!Bought(o) * Tenants!Stops("core") + Cardinality(Owned(o)')
    BY <1>1, <1>10 DEF CountsWithin
  <2>2. CASE o # p
    BY <1>0, <1>6, <2>2 DEF CountsWithin
  <2>3. CASE o = p
    <3>1. /\ IsFiniteSet(Owned(p)) /\ IsFiniteSet(Tenants!Between(p)) /\ IsFiniteSet(Queued(p))
          /\ Cardinality(Owned(p)) \in Nat /\ Cardinality(Tenants!Between(p)) \in Nat
          /\ Cardinality(Queued(p)) \in Nat
      BY SetsFinite
    <3>2. /\ Cardinality(Owned(p)') = Cardinality(Owned(p)) + 1
          /\ Cardinality(Queued(p)') = Cardinality(Queued(p)) + 1
          /\ Cardinality(Tenants!Between(p)') = Cardinality(Tenants!Between(p)) - 1
      <4>1. Cardinality(Owned(p)') = Cardinality(Owned(p)) + 1
        BY <1>7, <3>1, FS_AddElement
      <4>2. Cardinality(Queued(p)') = Cardinality(Queued(p)) + 1
        BY <1>8, <3>1, FS_AddElement
      <4>3. Cardinality(Tenants!Between(p)') = Cardinality(Tenants!Between(p)) - 1
        BY <1>9, <3>1, FS_RemoveElement
      <4> QED
        BY <4>1, <4>2, <4>3
    <3>3. /\ Cardinality(Owned(p)) + Cardinality(Tenants!Between(p)) <= Tenants!Bought(p)
          /\ Cardinality(Queued(p)) <= Tenants!Bought(p) * Tenants!Stops("core") + Cardinality(Owned(p))
      BY <1>0, <1>2, <2>3 DEF CountsWithin
    <3>4. Tenants!Bought(p) \in Nat /\ Tenants!Stops("core") \in Nat
      BY <1>0, StopsCounted DEF Tenants!Bought, Tenants!TenantsAssumption, Tenants!TypeOK
    <3>5. Tenants!Bought(p) * Tenants!Stops("core") \in Nat
      BY <3>4
    <3> QED
      BY <2>3, <3>1, <3>2, <3>3, <3>4, <3>5
  <2> QED
    BY <2>2, <2>3
<1> QED
  BY <1>4, <1>11 DEF TenantsIInv

(* A service ends.                                                         *)
LEMMA ServiceStops ==
    ASSUME Tenants!TenantsAssumption, TenantsIInv, NEW s \in Tenants!Services, Tenants!Stop(s)
    PROVE  TenantsIInv'
<1>0. /\ Tenants!TypeOK /\ Tenants!ToldIsUser /\ MeetingsTold /\ UserOfTold
      /\ Tenants!PlanPaid /\ Tenants!QueuedIsSent /\ RequestsPlanned /\ CountsWithin
      /\ tntRequest \in [Tenants!Requests -> Tenants!Request] /\ tntDeployed \subseteq Tenants!Requests
      /\ tntStops \in Seq(Tenants!Services)
  BY DEF TenantsIInv, Tenants!TypeOK
<1>1. tntStops' = Append(tntStops, s)
        /\ UNCHANGED <<tntPooled, tntRaced, tntPaid, tntEvents, tntRows, tntCrossed>>
  BY DEF Tenants!Stop
<1>2. \A x : /\ Tenants!Stops(x) \in Nat
             /\ Tenants!Stops(x)' = IF x = s THEN Tenants!Stops(x) + 1 ELSE Tenants!Stops(x)
  BY <1>0, <1>1, StopsCounted
<1>3. LostUsers' <=> (LostUsers \/ s = "auth")
  <2>1. Tenants!Stops("auth") \in Nat
          /\ Tenants!Stops("auth")' = IF "auth" = s THEN Tenants!Stops("auth") + 1 ELSE Tenants!Stops("auth")
    BY <1>2
  <2> HIDE DEF Tenants!Stops
  <2> QED
    BY <2>1 DEF LostUsers
<1>4. s # "auth" => UNCHANGED <<tntUsers, tntPerson>>
  BY DEF Tenants!Stop
<1>5. Tenants!ToldIsUser' /\ MeetingsTold' /\ UserOfTold'
  <2>1. CASE s = "auth"
    BY <1>3, <2>1 DEF Tenants!ToldIsUser, MeetingsTold, UserOfTold, LostUsers
  <2>2. CASE s # "auth"
    BY <1>0, <1>1, <1>3, <1>4, <2>2 DEF Tenants!ToldIsUser, MeetingsTold, UserOfTold, LostUsers
  <2> QED
    BY <2>1, <2>2
<1>6. Tenants!PlanPaid'
  <2>1. Tenants!Stops("billing") \in Nat
          /\ Tenants!Stops("billing")' = IF "billing" = s THEN Tenants!Stops("billing") + 1 ELSE Tenants!Stops("billing")
    BY <1>2
  <2>2. tntPro' = IF s = "billing" THEN {} ELSE tntPro
    BY DEF Tenants!Stop
  <2> HIDE DEF Tenants!Stops
  <2> QED
    BY <1>0, <1>1, <2>1, <2>2 DEF Tenants!PlanPaid
<1> DEFINE lost(r) == tntRequest[r].step \in {"plan", "count", "send", "insert", "push"}
<1>7. /\ tntRequest' \in [Tenants!Requests -> Tenants!Request]
      /\ \A r \in Tenants!Requests :
           /\ tntRequest'[r].by = tntRequest[r].by /\ tntRequest'[r].plain = tntRequest[r].plain
           /\ tntRequest'[r].limit = tntRequest[r].limit
           /\ tntRequest'[r].step = IF s = "core" /\ lost(r) THEN "lost" ELSE tntRequest[r].step
  <2>1. CASE s = "core"
    <3>1. tntRequest' = [r \in Tenants!Requests |-> IF lost(r) THEN [tntRequest[r] EXCEPT !.step = "lost"] ELSE tntRequest[r]]
      BY <2>1 DEF Tenants!Stop
    <3>2. \A r \in Tenants!Requests : LET n == [tntRequest[r] EXCEPT !.step = "lost"]
             IN n \in Tenants!Request /\ n.step = "lost" /\ n.by = tntRequest[r].by /\ n.plain = tntRequest[r].plain
                /\ n.limit = tntRequest[r].limit
      BY <1>0 DEF Tenants!Request
    <3> HIDE DEF lost
    <3> QED
      BY <1>0, <2>1, <3>1, <3>2
  <2>2. CASE s # "core"
    BY <1>0, <2>2 DEF Tenants!Stop
  <2> QED
    BY <2>1, <2>2
<1>8. tntDeployed' = IF s = "core" THEN {} ELSE tntDeployed
  BY DEF Tenants!Stop
<1>9. Tenants!TypeOK'
  <2>1. tntStops' \in Seq(Tenants!Services) /\ Len(tntStops') = Len(tntStops) + 1
    BY <1>0, <1>1
  <2>2. Len(tntStops') <= TntMaxStops
    <3>1. Len(tntStops) < TntMaxStops /\ Len(tntStops) \in Nat /\ TntMaxStops \in Nat
      BY <1>0 DEF Tenants!Stop, Tenants!TenantsAssumption
    <3> QED
      BY <2>1, <3>1
  <2>3. /\ tntUsers' \in [Tenants!Emails -> TntPeople \cup {AgtNone}] /\ tntPro' \subseteq TntPeople
        /\ tntUp' \subseteq Tenants!Services
        /\ tntPerson' \in [TntPeople -> {"new", "hash", "told", "refused", "in"}]
    BY <1>0 DEF Tenants!Stop, Tenants!TypeOK
  <2> QED
    BY <1>0, <1>1, <1>7, <1>8, <2>1, <2>2, <2>3 DEF Tenants!TypeOK
<1> HIDE DEF lost
<1>10. Tenants!QueuedIsSent'
  <2> SUFFICES ASSUME NEW r \in Tenants!Requests
               PROVE  /\ tntRequest'[r].step = "queued" =>
                           r \in tntEvents /\ (tntPooled /\ tntRequest'[r].plain => r \in tntRows)
                      /\ r \in tntEvents => tntRequest'[r].step \in {"insert", "push", "queued", "lost"}
                      /\ r \in tntRows => r \in tntEvents /\ tntPooled
                      /\ r \in tntDeployed' => tntRequest'[r].step = "queued"
    BY <1>1 DEF Tenants!QueuedIsSent
  <2> QED
    BY <1>0, <1>7, <1>8 DEF Tenants!QueuedIsSent, lost
<1>11. RequestsPlanned'
  <2> SUFFICES ASSUME NEW r \in Tenants!Requests
               PROVE  /\ tntRequest'[r].step # "idle" => tntRequest'[r].by \in TntPeople
                      /\ tntRequest'[r].step = "count" =>
                           tntRequest'[r].limit <= Tenants!Bought(tntRequest'[r].by)
                      /\ tntRequest'[r].step \in {"insert", "push"} =>
                           tntRequest'[r].plain /\ r \in tntEvents
                      /\ tntRequest'[r].step = "insert" => tntPooled
                      /\ tntRequest'[r].step = "push" /\ tntPooled => r \in tntRows
                      /\ r \in tntDeployed' => tntRequest'[r].plain
    <3>1. \A q \in Tenants!Requests : Tenants!Bought(tntRequest[q].by)' = Tenants!Bought(tntRequest'[q].by)
      BY <1>1 DEF Tenants!Bought
    <3> QED
      BY <1>1, <3>1 DEF RequestsPlanned
  <2> QED
    BY <1>0, <1>7, <1>8 DEF RequestsPlanned, lost
<1>12. CountsWithin'
  <2>1. CASE s # "core"
    <3>1. UNCHANGED <<tntRequest, tntDeployed>>
      BY <2>1 DEF Tenants!Stop
    <3>2. \A o : Owned(o)' = Owned(o) /\ Tenants!Between(o)' = Tenants!Between(o) /\ Queued(o)' = Queued(o)
                 /\ Tenants!Bought(o)' = Tenants!Bought(o)
      BY <1>1, <3>1 DEF Owned, Tenants!Between, Queued, Tenants!Bought
    <3>3. Tenants!Stops("core")' = Tenants!Stops("core")
      BY <1>2, <2>1
    <3> QED
      BY <1>0, <1>1, <3>2, <3>3 DEF CountsWithin
  <2>2. CASE s = "core"
    <3> SUFFICES ASSUME NEW p \in TntPeople, p \notin tntCrossed
                 PROVE  /\ Cardinality(Owned(p)') + Cardinality(Tenants!Between(p)') <= Tenants!Bought(p)'
                        /\ Cardinality(Queued(p)') <= Tenants!Bought(p)' * Tenants!Stops("core")' + Cardinality(Owned(p)')
      BY <1>1 DEF CountsWithin
    <3> DEFINE b == Tenants!Bought(p)
               n == Tenants!Stops("core")
    <3>1. Owned(p)' = {}
      BY <1>8, <2>2 DEF Owned
    <3>2. Tenants!Between(p)' = {}
      BY <1>7, <2>2 DEF Tenants!Between, lost
    <3>3. Queued(p)' = Queued(p)
      BY <1>7, <2>2 DEF Queued, lost
    <3>4. /\ Cardinality(Owned(p)) + Cardinality(Tenants!Between(p)) <= b
          /\ Cardinality(Queued(p)) <= b * n + Cardinality(Owned(p))
      BY <1>0 DEF CountsWithin
    <3>5. Cardinality(Owned(p)) \in Nat /\ Cardinality(Tenants!Between(p)) \in Nat
            /\ Cardinality(Queued(p)) \in Nat
      BY SetsFinite
    <3>6. b \in Nat /\ n \in Nat /\ Tenants!Bought(p)' = b /\ Tenants!Stops("core")' = n + 1
      BY <1>1, <1>2, <2>2 DEF Tenants!Bought, Tenants!TenantsAssumption
    <3> HIDE DEF b, n
    <3>7. b * n \in Nat /\ b * (n + 1) = b * n + b
      BY <3>6
    <3>8. Cardinality({}) = 0
      BY FS_EmptySet
    <3> QED
      BY <3>1, <3>2, <3>3, <3>4, <3>5, <3>6, <3>7, <3>8
  <2> QED
    BY <2>1, <2>2
<1> QED
  BY <1>5, <1>6, <1>9, <1>10, <1>11, <1>12 DEF TenantsIInv

LEMMA TenantsStep ==
    ASSUME Tenants!TenantsAssumption PROVE TenantsIInv /\ [Tenants!Next]_(Tenants!vars) => TenantsIInv'
<1> SUFFICES ASSUME TenantsIInv, [Tenants!Next]_(Tenants!vars) PROVE TenantsIInv'
  OBVIOUS
<1>1. ASSUME UNCHANGED <<tntPooled,
                         tntStops, Tenants!authVars, Tenants!billingVars, Tenants!coreVars>>, tntUp' \subseteq Tenants!Services
      PROVE  TenantsIInv'
  <2>1. UNCHANGED <<tntPooled, tntStops, tntUsers, tntPerson, tntRaced, tntPro, tntPaid>>
    BY <1>1 DEF Tenants!authVars, Tenants!billingVars
  <2>2. Tenants!ToldIsUser' /\ MeetingsTold' /\ UserOfTold' /\ Tenants!PlanPaid'
    BY <2>1 DEF TenantsIInv, Tenants!ToldIsUser, MeetingsTold, UserOfTold, Tenants!PlanPaid, LostUsers, Tenants!Stops
  <2>3. Tenants!QueuedIsSent' /\ RequestsPlanned' /\ CountsWithin'
    BY <1>1, <2>1, CoreStays
  <2>4. Tenants!TypeOK'
    BY <1>1, <2>1 DEF TenantsIInv, Tenants!TypeOK, Tenants!coreVars
  <2> QED
    BY <2>2, <2>3, <2>4 DEF TenantsIInv
<1>2. ASSUME NEW s \in Tenants!Services, Tenants!Start(s) PROVE TenantsIInv'
  BY <1>1, <1>2 DEF Tenants!Start, TenantsIInv, Tenants!TypeOK
<1>3. CASE UNCHANGED Tenants!vars
  BY <1>1, <1>3 DEF Tenants!vars, TenantsIInv, Tenants!TypeOK
<1>4. CASE Tenants!Next
  BY <1>2, <1>4, PersonStep, RequestStep, CountStep, PushStep, ServiceStops DEF Tenants!Next
<1> QED
  BY <1>3, <1>4

(* auth-service, billing-service, platform-core: however their handlers    *)
(* interleave and however often one of them loses its table, whoever was   *)
(* told of a registration is the user of the address, unless two of them   *)
(* met; the deployments of a tenant stay within its plan unless two of its *)
(* requests were past the count together; and what is queued has its event *)
(* and its row.                                                            *)
THEOREM TenantsHeldTo ==
    ASSUME Tenants!TenantsAssumption PROVE Tenants!Spec => []Tenants!TenantsInv
<1>1. Tenants!Init => TenantsIInv
  BY TenantsInit
<1>2. TenantsIInv /\ [Tenants!Next]_(Tenants!vars) => TenantsIInv'
  BY TenantsStep
<1>3. TenantsIInv => Tenants!TenantsInv
  BY TenantsImply
<1> QED
  BY <1>1, <1>2, <1>3, PTL DEF Tenants!Spec

-----------------------------------------------------------------------------
(* The loop of rl-trainer.                                                 *)
TrainerTop == IF trnTrainer.step = "update" THEN trnFetched - 1 ELSE trnFetched

(* What a process learned is a run of the topic that ends where it reads.  *)
LearnedRun ==
    trnTrainer.step # "down" =>
        \E i \in 1..(TrainerTop + 1) : trnTrainer.learned = {k \in i..TrainerTop : TrnRecords[k].sound}

(* What each step of the process has in hand.                              *)
InHand ==
    /\ trnTrainer.step \in {"down", "poll"} => trnTrainer.record = 0
    /\ trnTrainer.step \in {"update", "replicate", "open"} =>
         trnTrainer.record = trnFetched /\ trnFetched > 0
    /\ trnTrainer.step \in {"replicate", "open"} =>
         trnTrainer.record \in trnEverLearned \cap trnTrainer.learned
    /\ trnTrainer.step # "down" => trnTrainer.setting \in TrnSettings /\ trnCommitted <= trnFetched
    /\ trnTrainer.step = "down" => trnTrainer = Trainer!Down
    /\ trnTrainer.step = "replicate" =>
         trnTrainer.worker = Trainer!Assigned(TrnRecords[trnTrainer.record].demand)

AllAccounted ==
    \A k \in 1..(IF trnTrainer.step = "down" THEN trnCommitted ELSE trnFetched) :
        k \in trnEverLearned \cup trnDropped \cup {trnTrainer.record}

TrainerIInv ==
    /\ Trainer!TypeOK /\ Trainer!PolicyWhole /\ Trainer!SuccessRuns
    /\ LearnedRun /\ InHand /\ AllAccounted

(* A better bid is better than what that one is better than.               *)
LEMMA RatioOrder ==
    ASSUME NEW a \in Nat, NEW b \in Nat \ {0}, NEW c \in Nat, NEW d \in Nat \ {0}, NEW e \in Nat,
           NEW f \in Nat \ {0},
           a * d >= c * b, c * f >= e * d
    PROVE  /\ a * f >= e * b
           /\ a * d > c * b \/ c * f > e * d => a * f > e * b
<1>1. a * d \in Nat /\ c * b \in Nat /\ c * f \in Nat /\ e * d \in Nat /\ a * f \in Nat /\ e * b \in Nat
  OBVIOUS
<1>2. \A x, y \in Nat, z \in Nat \ {0} : (x >= y => x * z >= y * z) /\ (x > y => x * z > y * z)
  <2> SUFFICES ASSUME NEW x \in Nat, NEW y \in Nat, NEW z \in Nat \ {0}
               PROVE  (x >= y => x * z >= y * z) /\ (x > y => x * z > y * z)
    OBVIOUS
  <2>1. ASSUME x >= y PROVE x * z >= y * z /\ (x > y => x * z > y * z)
    <3>1. PICK n \in Nat : x = y + n
      <4>1. x - y \in Nat /\ x = y + (x - y)
        BY <2>1
      <4> QED
        BY <4>1
    <3>2. (y + n) * z = y * z + n * z /\ n * z \in Nat /\ y * z \in Nat
      OBVIOUS
    <3>3. n > 0 => n * z > 0
      OBVIOUS
    <3> QED
      BY <3>1, <3>2, <3>3
  <2> QED
    BY <2>1
<1>3. /\ (a * d) * f >= (c * b) * f /\ (a * d > c * b => (a * d) * f > (c * b) * f)
      /\ (c * f) * b >= (e * d) * b /\ (c * f > e * d => (c * f) * b > (e * d) * b)
  BY <1>1, <1>2
<1>4. (a * d) * f = (a * f) * d /\ (c * b) * f = (c * f) * b /\ (e * d) * b = (e * b) * d
  OBVIOUS
<1>5. /\ (a * f) * d >= (e * b) * d
      /\ a * d > c * b \/ c * f > e * d => (a * f) * d > (e * b) * d
  <2>1. (a * f) * d \in Nat /\ (c * f) * b \in Nat /\ (e * b) * d \in Nat
    BY <1>1
  <2> QED
    BY <1>3, <1>4, <2>1
<1>6. \A x, y \in Nat, z \in Nat \ {0} : (x * z >= y * z => x >= y) /\ (x * z > y * z => x > y)
  <2> SUFFICES ASSUME NEW x \in Nat, NEW y \in Nat, NEW z \in Nat \ {0}
               PROVE  (x * z >= y * z => x >= y) /\ (x * z > y * z => x > y)
    OBVIOUS
  <2>1. (y > x => y * z > x * z) /\ (y >= x => y * z >= x * z) /\ x * z \in Nat /\ y * z \in Nat
    BY <1>2
  <2> QED
    BY <2>1
<1> QED
  BY <1>1, <1>5, <1>6

(* The market has a best bid wherever it has one.                          *)
LEMMA BestBid ==
    ASSUME Trainer!TrainerAssumption, NEW demand, Trainer!Bids(demand) # {}
    PROVE  \E i \in Trainer!Bids(demand) : \A j \in Trainer!Bids(demand) : Trainer!Beats(i, j)
<1> DEFINE D == DOMAIN TrnWorkers
           cap(i) == TrnWorkers[i].capacity
           price(i) == TrnWorkers[i].price
           S == Trainer!Bids(demand)
           Better(i, j) == \/ cap(i) * price(j) > cap(j) * price(i)
                           \/ /\ cap(i) * price(j) = cap(j) * price(i)
                              /\ price(i) < price(j) \/ (price(i) = price(j) /\ i < j)
           R == {p \in S \X S : Better(p[1], p[2])}
<1>1. D = 1..Len(TrnWorkers) /\ Len(TrnWorkers) \in Nat /\ S \in SUBSET D /\ S \subseteq Int
  BY DEF Trainer!TrainerAssumption, Trainer!Bids
<1>2. IsFiniteSet(D)
  BY <1>1, FS_Interval
<1>3. IsFiniteSet(S)
  <2> HIDE DEF S, D
  <2> QED
    BY <1>1, <1>2, FS_Subset
<1>4. \A i \in S : cap(i) \in Nat /\ price(i) \in Nat \ {0}
  BY DEF Trainer!Bids, Trainer!TrainerAssumption, Trainer!Nodes
<1>e. S # {} /\ \A i, j \in S : Trainer!Beats(i, j) <=> Better(i, j) \/ i = j
  <2> SUFFICES ASSUME NEW i \in S, NEW j \in S PROVE Trainer!Beats(i, j) <=> Better(i, j) \/ i = j
    OBVIOUS
  <2>1. i \in Int /\ j \in Int
    BY <1>1
  <2>2. i <= j <=> i < j \/ i = j
    BY <2>1
  <2>3. cap(i) * price(j) = cap(i) * price(j)
    OBVIOUS
  <2> QED
    BY <2>1, <2>2 DEF Trainer!Beats
<1> HIDE DEF S, D, cap, price
<1>5. \A i, j \in S : <<i, j>> \in R <=> Better(i, j)
  OBVIOUS
<1>6. \A i \in S : ~Better(i, i)
  BY <1>1, <1>4
<1>7. ASSUME NEW i \in S, NEW j \in S, NEW k \in S, Better(i, j), Better(j, k) PROVE Better(i, k)
  <2>1. /\ cap(i) \in Nat /\ cap(j) \in Nat /\ cap(k) \in Nat
        /\ price(i) \in Nat \ {0} /\ price(j) \in Nat \ {0} /\ price(k) \in Nat \ {0}
        /\ i \in Int /\ j \in Int /\ k \in Int
    BY <1>1, <1>4
  <2>2. /\ cap(i) * price(j) \in Nat /\ cap(j) * price(i) \in Nat /\ cap(j) * price(k) \in Nat
        /\ cap(k) * price(j) \in Nat /\ cap(i) * price(k) \in Nat /\ cap(k) * price(i) \in Nat
    BY <2>1
  <2>3. cap(i) * price(j) >= cap(j) * price(i) /\ cap(j) * price(k) >= cap(k) * price(j)
    BY <1>7, <2>2
  <2>4. /\ cap(i) * price(k) >= cap(k) * price(i)
        /\ cap(i) * price(j) > cap(j) * price(i) \/ cap(j) * price(k) > cap(k) * price(j) =>
             cap(i) * price(k) > cap(k) * price(i)
    BY <2>1, <2>3, RatioOrder
  <2>5. CASE cap(i) * price(k) > cap(k) * price(i)
    BY <2>5
  <2>6. CASE ~(cap(i) * price(k) > cap(k) * price(i))
    <3>1. cap(i) * price(k) = cap(k) * price(i)
      BY <2>2, <2>4, <2>6
    <3>2. /\ price(i) < price(j) \/ (price(i) = price(j) /\ i < j)
          /\ price(j) < price(k) \/ (price(j) = price(k) /\ j < k)
      BY <1>7, <2>4, <2>6
    <3>3. price(i) < price(k) \/ (price(i) = price(k) /\ i < k)
      BY <2>1, <3>2
    <3> QED
      BY <3>1, <3>3
  <2> QED
    BY <2>5, <2>6
<1>8. ASSUME NEW i \in S, NEW j \in S, i # j PROVE Better(i, j) \/ Better(j, i)
  <2>1. /\ cap(i) * price(j) \in Nat /\ cap(j) * price(i) \in Nat /\ price(i) \in Nat
        /\ price(j) \in Nat
        /\ i \in Int /\ j \in Int
    BY <1>1, <1>4
  <2>2. i < j \/ j < i
    BY <1>8, <2>1
  <2>3. price(i) < price(j) \/ price(j) < price(i) \/ price(i) = price(j)
    BY <2>1
  <2>4. \/ cap(i) * price(j) > cap(j) * price(i) \/ cap(j) * price(i) > cap(i) * price(j)
        \/ cap(i) * price(j) = cap(j) * price(i)
    BY <2>1
  <2> QED
    BY <2>2, <2>3, <2>4
<1> HIDE DEF Better
<1>9. /\ \A x \in S : <<x, x>> \notin R
      /\ \A x, y, z \in S : <<x, y>> \in R /\ <<y, z>> \in R => <<x, z>> \in R
  BY <1>5, <1>6, <1>7
<1> HIDE DEF R
<1>10. PICK i \in S : \A j \in S : <<j, i>> \notin R
  BY <1>3, <1>9, <1>e, FirstOf
<1>11. \A j \in S : Better(i, j) \/ i = j
  BY <1>5, <1>8, <1>10
<1> QED
  BY <1>11, <1>e DEF S

LEMMA AssignedAble ==
    ASSUME Trainer!TrainerAssumption, NEW demand \in Nat
    PROVE  /\ Trainer!Assigned(demand) \in {w.id : w \in Trainer!Nodes} \cup {AgtNone}
           /\ Trainer!Assigned(demand) = AgtNone <=> Trainer!Bids(demand) = {}
           /\ \A i \in Trainer!Bids(demand) : TrnWorkers[i].id = Trainer!Assigned(demand) =>
                ~\E j \in Trainer!Bids(demand) :
                    TrnWorkers[j].capacity >= TrnWorkers[i].capacity
                      /\ TrnWorkers[j].price < TrnWorkers[i].price
<1>1. CASE Trainer!Bids(demand) = {}
  BY <1>1 DEF Trainer!Assigned
<1>2. CASE Trainer!Bids(demand) # {}
  <2> DEFINE b == CHOOSE i \in Trainer!Bids(demand) : \A j \in Trainer!Bids(demand) : Trainer!Beats(i, j)
  <2>1. b \in Trainer!Bids(demand) /\ \A j \in Trainer!Bids(demand) : Trainer!Beats(b, j)
    BY <1>2, BestBid
  <2>2. Trainer!Assigned(demand) = TrnWorkers[b].id
    BY <1>2 DEF Trainer!Assigned
  <2> HIDE DEF b
  <2>3. b \in DOMAIN TrnWorkers /\ TrnWorkers[b] \in Trainer!Nodes
    BY <2>1 DEF Trainer!Bids, Trainer!Nodes
  <2>4. TrnWorkers[b].id # AgtNone
    BY <2>3 DEF Trainer!TrainerAssumption
  <2>5. ASSUME NEW i \in Trainer!Bids(demand), TrnWorkers[i].id = TrnWorkers[b].id,
               NEW j \in Trainer!Bids(demand),
               TrnWorkers[j].capacity >= TrnWorkers[i].capacity, TrnWorkers[j].price < TrnWorkers[i].price
        PROVE  FALSE
    <3>1. i = b
      BY <2>3, <2>5 DEF Trainer!Bids, Trainer!TrainerAssumption
    <3>2. PICK v, w : v = TrnWorkers[b] /\ w = TrnWorkers[j]
      OBVIOUS
    <3>3. v.capacity \in Nat /\ v.price \in Nat \ {0} /\ w.capacity \in Nat /\ w.price \in Nat \ {0}
      BY <2>1, <2>5, <3>2 DEF Trainer!Bids, Trainer!TrainerAssumption, Trainer!Nodes
    <3>4. \/ v.capacity * w.price > w.capacity * v.price
          \/ v.capacity * w.price = w.capacity * v.price /\ v.price <= w.price
      BY <2>1, <3>2, <3>3 DEF Trainer!Beats
    <3>5. w.capacity >= v.capacity /\ w.price < v.price
      BY <2>5, <3>1, <3>2
    <3>6. v.capacity * w.price <= w.capacity * w.price /\ v.capacity * w.price \in Nat
            /\ w.capacity * w.price \in Nat
      BY <3>3, <3>5, TimesGrows
    <3>7. w.price * w.capacity <= v.price * w.capacity /\ v.price * w.capacity \in Nat
      BY <3>3, <3>5, TimesGrows
    <3>8. w.price * w.capacity = w.capacity * w.price /\ v.price * w.capacity = w.capacity * v.price
      BY <3>3
    <3> QED
      BY <3>3, <3>4, <3>5, <3>6, <3>7, <3>8
  <2> QED
    BY <1>2, <2>2, <2>3, <2>4, <2>5
<1> QED
  BY <1>1, <1>2

LEMMA RecordsCounted ==
    ASSUME Trainer!TrainerAssumption
    PROVE  /\ Len(TrnRecords) \in Nat /\ DOMAIN TrnRecords = 1..Len(TrnRecords)
           /\ Len(TrnTargets) \in Nat /\ DOMAIN TrnTargets = 1..Len(TrnTargets)
           /\ \A i \in DOMAIN TrnTargets : TrnTargets[i] \in Trainer!Places
           /\ \A k \in DOMAIN TrnRecords : TrnRecords[k].sound \in BOOLEAN /\ TrnRecords[k].demand \in Nat
<1>1. TrnRecords \in Seq([sound : BOOLEAN, demand : Nat]) /\ TrnTargets \in Seq(Trainer!Places)
  BY DEF Trainer!TrainerAssumption
<1>2. /\ Len(TrnTargets) \in Nat /\ DOMAIN TrnTargets = 1..Len(TrnTargets)
      /\ \A i \in DOMAIN TrnTargets : TrnTargets[i] \in Trainer!Places
  BY <1>1, OfSequence
<1>3. /\ Len(TrnRecords) \in Nat /\ DOMAIN TrnRecords = 1..Len(TrnRecords)
      /\ \A k \in DOMAIN TrnRecords : TrnRecords[k] \in [sound : BOOLEAN, demand : Nat]
  BY <1>1, OfSequence
<1> QED
  BY <1>2, <1>3

LEMMA TrainerImply ==
    ASSUME Trainer!TrainerAssumption, TrainerIInv PROVE Trainer!TrainerInv
<1>1. Trainer!NothingSkipped
  <2>1. trnCommitted \in Nat /\ trnFetched \in Nat
    BY RecordsCounted DEF TrainerIInv, Trainer!TypeOK
  <2>2. trnTrainer.step # "down" => trnCommitted <= trnFetched
    BY DEF TrainerIInv, InHand
  <2>3. \A k \in 1..trnCommitted : k \in 1..(IF trnTrainer.step = "down" THEN trnCommitted ELSE trnFetched)
    BY <2>1, <2>2
  <2> QED
    BY <2>3 DEF TrainerIInv, AllAccounted, Trainer!NothingSkipped
<1>2. Trainer!WorkerAble
  <2> SUFFICES ASSUME trnTrainer.step = "replicate"
               PROVE  LET able == Trainer!Bids(TrnRecords[trnTrainer.record].demand)
                      IN /\ trnTrainer.worker = AgtNone <=> able = {}
                         /\ \A i \in able : TrnWorkers[i].id = trnTrainer.worker =>
                              ~\E j \in able : TrnWorkers[j].capacity >= TrnWorkers[i].capacity
                                               /\ TrnWorkers[j].price < TrnWorkers[i].price
    BY DEF Trainer!WorkerAble, Trainer!Bids
  <2>1. /\ trnTrainer.record \in DOMAIN TrnRecords
        /\ trnTrainer.worker = Trainer!Assigned(TrnRecords[trnTrainer.record].demand)
    BY RecordsCounted DEF TrainerIInv, InHand, Trainer!TypeOK
  <2>2. TrnRecords[trnTrainer.record].demand \in Nat
    BY <2>1, RecordsCounted
  <2> QED
    BY <2>1, <2>2, AssignedAble
<1> QED
  BY <1>1, <1>2 DEF TrainerIInv, Trainer!TrainerInv

LEMMA TrainerInit ==
    ASSUME Trainer!TrainerAssumption PROVE Trainer!Init => TrainerIInv
<1> SUFFICES ASSUME Trainer!Init PROVE TrainerIInv
  OBVIOUS
<1> USE DEF Trainer!Init, Trainer!Down
<1>1. Trainer!TypeOK
  <2>1. 0 \in 0..Len(TrnRecords) /\ 0 \in 0..TrnMaxStarts /\ Len(<<>>) <= Len(TrnTargets)
    BY RecordsCounted DEF Trainer!TrainerAssumption
  <2>2. trnTrainer \in Trainer!Process
    BY <2>1 DEF Trainer!Process
  <2> QED
    BY <2>1, <2>2 DEF Trainer!TypeOK
<1>2. Trainer!PolicyWhole
  BY DEF Trainer!PolicyWhole, Trainer!TrainerAssumption
<1>3. Trainer!SuccessRuns
  BY DEF Trainer!SuccessRuns
<1>4. LearnedRun /\ InHand /\ AllAccounted
  BY DEF LearnedRun, InHand, AllAccounted
<1> QED
  BY <1>1, <1>2, <1>3, <1>4 DEF TrainerIInv

(* A command names an image.                                               *)
LEMMA ImagesNamed ==
    ASSUME NEW t \in Trainer!Places, NEW s \in TrnSettings
    PROVE  /\ Trainer!Named(t, s.image) \in Trainer!Images
           /\ Trainer!Named(t, s.image) = IF t.runtime = "k8s" THEN s.image ELSE TrnCompose[t]
BY DEF Trainer!Named, Trainer!Images

(* One step of the process record.                                         *)
LEMMA TrainerStart ==
    ASSUME Trainer!TrainerAssumption, TrainerIInv, Trainer!Start PROVE TrainerIInv'
<1>0. /\ Trainer!TypeOK /\ Trainer!PolicyWhole /\ Trainer!SuccessRuns /\ LearnedRun /\ InHand
      /\ AllAccounted
      /\ trnFetched \in Nat /\ trnCommitted \in Nat /\ trnCommitted <= Len(TrnRecords)
      /\ Len(TrnRecords) \in Nat
  BY RecordsCounted DEF TrainerIInv, Trainer!TypeOK
<1>1. /\ trnTrainer.step = "down" /\ trnStarts < TrnMaxStarts /\ trnStarts' = trnStarts + 1
      /\ UNCHANGED <<trnCommitted,
                     trnPolicy, trnImage, trnLate, trnOvertaken, trnEverLearned, trnDropped>>
  BY DEF Trainer!Start, Trainer!fieldVars, Trainer!historyVars
<1>2. trnStarts' \in 0..TrnMaxStarts
  BY <1>0, <1>1 DEF Trainer!TypeOK, Trainer!TrainerAssumption
<1>3. CASE UNCHANGED <<trnTrainer, trnFetched>>
  <2>1. Trainer!TypeOK'
    BY <1>0, <1>1, <1>2, <1>3 DEF Trainer!TypeOK
  <2>2. Trainer!PolicyWhole' /\ Trainer!SuccessRuns'
    BY <1>0, <1>1, <1>3 DEF Trainer!PolicyWhole, Trainer!SuccessRuns
  <2>3. LearnedRun' /\ InHand' /\ AllAccounted'
    BY <1>0, <1>1, <1>3 DEF LearnedRun, TrainerTop, InHand, AllAccounted
  <2> QED
    BY <2>1, <2>2, <2>3 DEF TrainerIInv
<1>4. CASE ~UNCHANGED <<trnTrainer, trnFetched>>
  <2>1. PICK s \in TrnSettings : trnTrainer' = [Trainer!Down EXCEPT !.step = "poll", !.setting = s] /\ trnFetched' = trnCommitted
    <3>1. PICK s \in TrnSettings :
             IF s.targets = "malformed" THEN UNCHANGED <<trnTrainer, trnFetched>>
             ELSE trnTrainer' = [Trainer!Down EXCEPT !.step = "poll", !.setting = s] /\ trnFetched' = trnCommitted
      BY Zenon DEF Trainer!Start, Trainer!Resume
    <3> QED
      BY <1>4, <3>1, Zenon
  <2>2. /\ trnTrainer'.step = "poll" /\ trnTrainer'.setting = s /\ trnTrainer'.record = 0
        /\ trnTrainer'.learned = {}
        /\ trnTrainer'.worker = AgtNone /\ trnTrainer'.results = <<>>
    BY <2>1 DEF Trainer!Down
  <2>3. trnTrainer' \in Trainer!Process /\ Len(trnTrainer'.results) <= Len(TrnTargets)
    <3>1. Len(<<>>) <= Len(TrnTargets) /\ 0 \in 0..Len(TrnRecords)
      BY RecordsCounted
    <3>2. trnTrainer' = [step |-> "poll", setting |-> s, record |-> 0, learned |-> {}, worker |-> AgtNone, results |-> <<>>]
      BY <2>1 DEF Trainer!Down
    <3>3. <<>> \in Seq({0, 1, 124, 255})
      OBVIOUS
    <3> QED
      BY <2>2, <3>1, <3>2, <3>3 DEF Trainer!Process
  <2>4. Trainer!TypeOK'
    BY <1>0, <1>1, <1>2, <2>1, <2>3 DEF Trainer!TypeOK
  <2>5. Trainer!PolicyWhole'
    BY <1>0, <1>1, <2>2 DEF Trainer!PolicyWhole
  <2>6. Trainer!SuccessRuns'
    BY <2>2 DEF Trainer!SuccessRuns
  <2>7. LearnedRun'
    <3>1. TrainerTop' = trnCommitted
      BY <2>1, <2>2 DEF TrainerTop
    <3>2. {k \in (trnCommitted + 1)..trnCommitted : TrnRecords[k].sound} = {} /\ trnCommitted + 1 \in 1..(trnCommitted + 1)
      BY <1>0
    <3>3. \E i \in 1..(TrainerTop' + 1) : trnTrainer'.learned = {k \in i..TrainerTop' : TrnRecords[k].sound}
      BY <2>2, <3>1, <3>2
    <3> QED
      BY <3>3 DEF LearnedRun
  <2>8. InHand'
    BY <1>0, <1>1, <2>1, <2>2 DEF InHand
  <2>9. AllAccounted'
    <3>1. trnTrainer.record = 0
            /\ \A k \in 1..trnCommitted : k \in trnEverLearned \cup trnDropped \cup {trnTrainer.record}
      BY <1>0, <1>1 DEF InHand, AllAccounted
    <3> QED
      BY <1>1, <2>1, <2>2, <3>1 DEF AllAccounted
  <2> QED
    BY <2>4, <2>5, <2>6, <2>7, <2>8, <2>9 DEF TrainerIInv
<1> QED
  BY <1>3, <1>4

(* The process ends.                                                       *)
LEMMA TrainerEnds ==
    ASSUME Trainer!TrainerAssumption, TrainerIInv, Trainer!End, trnTrainer.step # "down",
           trnLate' \subseteq [target : Trainer!Places, image : Trainer!Images]
    PROVE  TrainerIInv'
<1>0. /\ Trainer!TypeOK /\ Trainer!PolicyWhole /\ Trainer!SuccessRuns /\ LearnedRun /\ InHand
      /\ AllAccounted
      /\ trnFetched \in Nat /\ trnCommitted \in Nat /\ Len(TrnRecords) \in Nat
  BY RecordsCounted DEF TrainerIInv, Trainer!TypeOK
<1>1. /\ trnTrainer' = Trainer!Down
      /\ trnDropped' = IF trnTrainer.record = 0 THEN trnDropped ELSE trnDropped \cup {trnTrainer.record}
      /\ UNCHANGED <<trnFetched,
                     trnCommitted, trnPolicy, trnStarts, trnImage, trnOvertaken, trnEverLearned>>
  BY DEF Trainer!End
<1>2. trnTrainer.record \in 0..Len(TrnRecords)
  BY <1>0 DEF Trainer!TypeOK, Trainer!Process
<1>3. /\ trnTrainer'.step = "down" /\ trnTrainer'.learned = {} /\ trnTrainer'.results = <<>>
      /\ trnTrainer'.record = 0
      /\ trnTrainer' \in Trainer!Process /\ Len(trnTrainer'.results) <= Len(TrnTargets)
  <2>1. Len(<<>>) <= Len(TrnTargets) /\ 0 \in 0..Len(TrnRecords)
    BY RecordsCounted
  <2> QED
    BY <1>1, <2>1 DEF Trainer!Process, Trainer!Down
<1>4. Trainer!TypeOK'
  <2>1. trnDropped' \subseteq DOMAIN TrnRecords
    BY <1>0, <1>1, <1>2, RecordsCounted DEF Trainer!TypeOK
  <2> QED
    BY <1>0, <1>1, <1>3, <2>1 DEF Trainer!TypeOK
<1>5. Trainer!PolicyWhole'
  <2>1. ASSUME trnPolicy = AgtTorn PROVE trnDropped' # {}
    <3>1. CASE trnTrainer.record = 0
      <4>1. trnTrainer.step # "open"
        BY <1>0, <3>1 DEF InHand
      <4> QED
        BY <1>0, <1>1, <2>1, <3>1, <4>1 DEF Trainer!PolicyWhole
    <3>2. CASE trnTrainer.record # 0
      BY <1>1, <3>2
    <3> QED
      BY <3>1, <3>2
  <2> QED
    BY <1>0, <1>1, <1>3, <2>1 DEF Trainer!PolicyWhole
<1>6. Trainer!SuccessRuns'
  BY <1>3 DEF Trainer!SuccessRuns
<1>7. LearnedRun' /\ InHand'
  BY <1>1, <1>3 DEF LearnedRun, InHand
<1>8. AllAccounted'
  <2>1. trnCommitted <= trnFetched
          /\ \A k \in 1..trnFetched : k \in trnEverLearned \cup trnDropped \cup {trnTrainer.record}
    BY <1>0 DEF InHand, AllAccounted
  <2>2. \A k \in 1..trnCommitted : k \in 1..trnFetched /\ k # 0
    BY <1>0, <2>1
  <2> QED
    BY <1>1, <1>3, <2>1, <2>2 DEF AllAccounted
<1> QED
  BY <1>4, <1>5, <1>6, <1>7, <1>8 DEF TrainerIInv

(* A step of a process that goes on: what its new record must be.          *)
LEMMA TrainerPoll ==
    ASSUME Trainer!TrainerAssumption, TrainerIInv, Trainer!Poll PROVE TrainerIInv'
<1>0. /\ Trainer!TypeOK /\ Trainer!PolicyWhole /\ Trainer!SuccessRuns /\ LearnedRun /\ InHand
      /\ AllAccounted
      /\ trnFetched \in Nat /\ trnCommitted \in Nat /\ Len(TrnRecords) \in Nat
      /\ trnTrainer \in Trainer!Process
  BY RecordsCounted DEF TrainerIInv, Trainer!TypeOK
<1>1. /\ trnTrainer.step = "poll" /\ trnFetched < Len(TrnRecords) /\ trnFetched' = trnFetched + 1
      /\ trnTrainer' = [trnTrainer EXCEPT !.step = "update", !.record = trnFetched', !.results = <<>>]
      /\ UNCHANGED <<trnCommitted,
                     trnPolicy, trnStarts, trnImage, trnLate, trnOvertaken, trnEverLearned, trnDropped>>
  BY DEF Trainer!Poll, Trainer!fieldVars, Trainer!historyVars
<1>2. /\ trnTrainer'.step = "update" /\ trnTrainer'.record = trnFetched + 1
      /\ trnTrainer'.results = <<>>
      /\ trnTrainer'.learned = trnTrainer.learned /\ trnTrainer'.setting = trnTrainer.setting
  BY <1>0, <1>1 DEF Trainer!Process
<1>3. trnFetched' \in 0..Len(TrnRecords) /\ trnFetched' \in Nat
  BY <1>0, <1>1
<1>4. trnTrainer' \in Trainer!Process /\ Len(trnTrainer'.results) <= Len(TrnTargets)
  <2>1. <<>> \in Seq({0, 1, 124, 255}) /\ Len(<<>>) <= Len(TrnTargets)
    BY RecordsCounted
  <2> QED
    BY <1>0, <1>1, <1>2, <1>3, <2>1 DEF Trainer!Process
<1>5. Trainer!TypeOK'
  BY <1>0, <1>1, <1>3, <1>4 DEF Trainer!TypeOK
<1>6. Trainer!PolicyWhole'
  BY <1>0, <1>1, <1>2 DEF Trainer!PolicyWhole
<1>7. Trainer!SuccessRuns'
  BY <1>2 DEF Trainer!SuccessRuns
<1>8. LearnedRun'
  <2>1. TrainerTop' = trnFetched /\ TrainerTop = trnFetched
    BY <1>0, <1>1, <1>2 DEF TrainerTop
  <2>2. \E i \in 1..(TrainerTop' + 1) : trnTrainer'.learned = {k \in i..TrainerTop' : TrnRecords[k].sound}
    BY <1>0, <1>1, <1>2, <2>1 DEF LearnedRun
  <2> QED
    BY <2>2 DEF LearnedRun
<1>9. InHand'
  BY <1>0, <1>1, <1>2 DEF InHand
<1>10. AllAccounted'
  <2>1. trnTrainer.record = 0
          /\ \A k \in 1..trnFetched : k \in trnEverLearned \cup trnDropped \cup {trnTrainer.record}
    BY <1>0, <1>1 DEF InHand, AllAccounted
  <2>2. \A k \in 1..(trnFetched + 1) : k = trnFetched + 1 \/ (k \in 1..trnFetched /\ k # 0)
    BY <1>0
  <2>3. \A k \in 1..trnFetched' : k \in trnEverLearned \cup trnDropped \cup {trnTrainer'.record}
    BY <1>1, <1>2, <2>1, <2>2
  <2> QED
    BY <1>1, <1>2, <2>3 DEF AllAccounted
<1> QED
  BY <1>5, <1>6, <1>7, <1>8, <1>9, <1>10 DEF TrainerIInv

LEMMA TrainerUpdate ==
    ASSUME Trainer!TrainerAssumption, TrainerIInv, Trainer!Update PROVE TrainerIInv'
<1>0. /\ Trainer!TypeOK /\ Trainer!PolicyWhole /\ Trainer!SuccessRuns /\ LearnedRun /\ InHand
      /\ AllAccounted
      /\ trnFetched \in Nat /\ trnCommitted \in Nat /\ Len(TrnRecords) \in Nat
      /\ trnTrainer \in Trainer!Process
      /\ trnTrainer.step = "update" /\ trnFetched <= Len(TrnRecords)
      /\ trnTrainer.learned \subseteq DOMAIN TrnRecords
  BY RecordsCounted DEF TrainerIInv, Trainer!TypeOK, Trainer!Update, Trainer!Process
<1>1. /\ trnTrainer.record = trnFetched /\ trnFetched > 0 /\ trnFetched \in DOMAIN TrnRecords
      /\ TrnRecords[trnFetched].demand \in Nat
  BY <1>0, RecordsCounted DEF InHand
<1>2. CASE ~TrnRecords[trnTrainer.record].sound
  <2>1. Trainer!End /\ trnLate' \subseteq [target : Trainer!Places, image : Trainer!Images]
    BY <1>0, <1>2 DEF Trainer!Update, Trainer!TypeOK
  <2> QED
    BY <1>0, <2>1, TrainerEnds
<1>3. CASE TrnRecords[trnTrainer.record].sound
  <2> DEFINE w == Trainer!Assigned(TrnRecords[trnFetched].demand)
  <2>1. /\ trnTrainer' = [trnTrainer EXCEPT !.step = "replicate", !.learned = trnTrainer.learned \cup {trnFetched}, !.worker = w]
        /\ trnEverLearned' = trnEverLearned \cup {trnFetched}
        /\ UNCHANGED <<trnFetched,
                       trnCommitted, trnPolicy, trnStarts, trnImage, trnLate, trnOvertaken, trnDropped>>
    BY <1>1, <1>3 DEF Trainer!Update, Trainer!fieldVars
  <2>2. w \in {n.id : n \in Trainer!Nodes} \cup {AgtNone}
    BY <1>1, AssignedAble
  <2> HIDE DEF w
  <2>3. /\ trnTrainer'.step = "replicate" /\ trnTrainer'.record = trnFetched
        /\ trnTrainer'.results = trnTrainer.results
        /\ trnTrainer'.learned = trnTrainer.learned \cup {trnFetched}
        /\ trnTrainer'.setting = trnTrainer.setting
        /\ trnTrainer'.worker = w
    BY <1>0, <1>1, <2>1 DEF Trainer!Process
  <2>4. trnTrainer' \in Trainer!Process
    BY <1>0, <1>1, <2>1, <2>2 DEF Trainer!Process
  <2>5. Trainer!TypeOK'
    BY <1>0, <1>1, <2>1, <2>3, <2>4 DEF Trainer!TypeOK
  <2>6. Trainer!PolicyWhole'
    BY <1>0, <2>1, <2>3 DEF Trainer!PolicyWhole
  <2>7. Trainer!SuccessRuns'
    BY <1>0, <2>1, <2>3 DEF Trainer!SuccessRuns
  <2>8. LearnedRun'
    <3>1. TrainerTop = trnFetched - 1 /\ TrainerTop' = trnFetched
      BY <1>0, <2>1, <2>3 DEF TrainerTop
    <3>2. PICK i \in 1..trnFetched : trnTrainer.learned = {k \in i..(trnFetched - 1) : TrnRecords[k].sound}
      <4>1. (trnFetched - 1) + 1 = trnFetched
        BY <1>0
      <4> QED
        BY <1>0, <3>1, <4>1 DEF LearnedRun
    <3>3. i \in 1..(trnFetched + 1) /\ \A k : k \in i..trnFetched <=> k \in i..(trnFetched - 1) \/ k = trnFetched
      BY <1>0, <1>1
    <3>4. trnTrainer'.learned = {k \in i..trnFetched : TrnRecords[k].sound}
      BY <1>1, <1>3, <2>3, <3>2, <3>3
    <3> QED
      BY <3>1, <3>3, <3>4 DEF LearnedRun
  <2>9. InHand'
    BY <1>0, <1>1, <2>1, <2>3 DEF InHand, w
  <2>10. AllAccounted'
    <3>1. \A k \in 1..trnFetched : k \in trnEverLearned' \cup trnDropped \cup {trnTrainer'.record}
      BY <1>0, <1>1, <2>1, <2>3 DEF AllAccounted
    <3> QED
      BY <2>1, <2>3, <3>1 DEF AllAccounted
  <2> QED
    BY <2>5, <2>6, <2>7, <2>8, <2>9, <2>10 DEF TrainerIInv
<1> QED
  BY <1>2, <1>3

LEMMA TrainerDeploy ==
    ASSUME Trainer!TrainerAssumption, TrainerIInv, Trainer!Deploy PROVE TrainerIInv'
<1>0. /\ Trainer!TypeOK /\ Trainer!PolicyWhole /\ Trainer!SuccessRuns /\ LearnedRun /\ InHand
      /\ AllAccounted
      /\ trnTrainer \in Trainer!Process /\ trnTrainer.step = "replicate"
      /\ Len(trnTrainer.results) < Len(TrnTargets)
      /\ trnTrainer.results \in Seq({0, 1, 124, 255})
      /\ trnImage \in [Trainer!Places -> Trainer!Images \cup {AgtNone}]
      /\ trnLate \subseteq [target : Trainer!Places, image : Trainer!Images] /\ trnOvertaken \subseteq Trainer!Places
      /\ trnTrainer.setting \in TrnSettings
  BY DEF TrainerIInv, Trainer!TypeOK, Trainer!Deploy, Trainer!Deploying, Trainer!Process, InHand
<1> DEFINE n == Len(trnTrainer.results)
           h == TrnTargets[n + 1]
           m == Trainer!Named(h, trnTrainer.setting.image)
<1>1. PICK outcome \in {"done", "failed", "lost", "abandoned"} :
        /\ trnTrainer' = [trnTrainer EXCEPT !.results = Append(trnTrainer.results, Trainer!Code(outcome))]
        /\ trnLate' = IF outcome \in {"lost", "abandoned"} THEN trnLate \cup {[target |-> h, image |-> m]} ELSE trnLate
        /\ \/ outcome \in {"done", "failed"} /\ trnImage' = [trnImage EXCEPT ![h] = m]
           \/ outcome # "done" /\ UNCHANGED trnImage
        /\ trnOvertaken' = IF outcome = "done" THEN trnOvertaken \ {h} ELSE trnOvertaken
  BY DEF Trainer!Deploy, Trainer!Target, Trainer!Command
<1>2. UNCHANGED <<trnFetched, trnCommitted, trnPolicy, trnStarts, trnEverLearned, trnDropped>>
  BY DEF Trainer!Deploy, Trainer!historyVars
<1>3. n \in Nat /\ n + 1 \in DOMAIN TrnTargets /\ h \in Trainer!Places /\ m \in Trainer!Images
  <2>1. n \in Nat
    BY <1>0, OfSequence
  <2>2. n + 1 \in 1..Len(TrnTargets)
    BY <1>0, <2>1, RecordsCounted
  <2>3. h \in Trainer!Places
    BY <2>2, RecordsCounted
  <2>4. m \in Trainer!Images
    BY <1>0, <2>3, ImagesNamed
  <2> QED
    BY <2>1, <2>2, <2>3, <2>4, RecordsCounted
<1>4. Trainer!Code(outcome) \in {0, 1, 124, 255} /\ (Trainer!Code(outcome) = 0 <=> outcome = "done")
  <2>1. CASE outcome = "done"
    BY <2>1 DEF Trainer!Code
  <2>2. CASE outcome = "failed"
    BY <2>2 DEF Trainer!Code
  <2>3. CASE outcome = "abandoned"
    BY <2>3 DEF Trainer!Code
  <2>4. CASE outcome = "lost"
    BY <2>4 DEF Trainer!Code
  <2> QED
    BY <2>1, <2>2, <2>3, <2>4
<1> DEFINE c == Trainer!Code(outcome)
           results == Append(trnTrainer.results, c)
<1>5. /\ results \in Seq({0, 1, 124, 255}) /\ Len(results) = n + 1 /\ DOMAIN results = 1..(n + 1)
      /\ results[n + 1] = c /\ \A i \in 1..n : results[i] = trnTrainer.results[i]
      /\ DOMAIN trnTrainer.results = 1..n
  <2> HIDE DEF c
  <2>1. c \in {0, 1, 124, 255}
    BY <1>4 DEF c
  <2> DEFINE S == {0, 1, 124, 255}
  <2>2. c \in S /\ trnTrainer.results \in Seq(S)
    BY <1>0, <2>1
  <2> HIDE DEF S
  <2>3. /\ results \in Seq(S) /\ Len(results) = n + 1 /\ results[n + 1] = c
        /\ \A i \in 1..n : results[i] = trnTrainer.results[i]
    BY <2>2
  <2>4. DOMAIN results = 1..(n + 1) /\ DOMAIN trnTrainer.results = 1..n
    BY <2>2, <2>3, OfSequence
  <2> QED
    BY <2>3, <2>4 DEF S
<1> HIDE DEF c, results, h, m, n
<1>h. h = TrnTargets[n + 1] /\ n < Len(TrnTargets)
  BY <1>0 DEF h, n
<1>6. /\ trnTrainer'.results = results /\ trnTrainer'.step = "replicate"
      /\ trnTrainer'.record = trnTrainer.record
      /\ trnTrainer'.learned = trnTrainer.learned /\ trnTrainer'.setting = trnTrainer.setting
      /\ trnTrainer'.worker = trnTrainer.worker
  BY <1>0, <1>1 DEF Trainer!Process, results, c
<1>7. trnTrainer' \in Trainer!Process
  <2>1. trnTrainer' = [trnTrainer EXCEPT !.results = results]
    BY <1>1 DEF results, c
  <2> QED
    BY <1>0, <1>5, <2>1 DEF Trainer!Process
<1>8. Trainer!TypeOK'
  <2>1. Len(trnTrainer'.results) <= Len(TrnTargets)
    BY <1>3, <1>5, <1>6, <1>h, RecordsCounted
  <2>2. trnImage' \in [Trainer!Places -> Trainer!Images \cup {AgtNone}]
    BY <1>0, <1>1, <1>3
  <2>3. trnLate' \subseteq [target : Trainer!Places, image : Trainer!Images]
    BY <1>0, <1>1, <1>3
  <2>4. trnOvertaken' \subseteq Trainer!Places
    BY <1>0, <1>1, <1>3
  <2> QED
    BY <1>0, <1>2, <1>7, <2>1, <2>2, <2>3, <2>4 DEF Trainer!TypeOK
<1>9. Trainer!PolicyWhole'
  BY <1>0, <1>2, <1>6 DEF Trainer!PolicyWhole
<1>10. Trainer!SuccessRuns'
  <2> SUFFICES ASSUME NEW i \in 1..(n + 1), results[i] = 0
               PROVE  \/ trnImage'[TrnTargets[i]] = Trainer!Named(TrnTargets[i], trnTrainer.setting.image)
                      \/ TrnTargets[i] \in trnOvertaken'
    BY <1>5, <1>6 DEF Trainer!SuccessRuns, Trainer!Named
  <2>1. i \in DOMAIN TrnTargets /\ TrnTargets[i] \in Trainer!Places
    <3>1. i \in 1..Len(TrnTargets)
      BY <1>3, <1>h, RecordsCounted
    <3> QED
      BY <3>1, RecordsCounted
  <2>2. CASE i = n + 1
    <3>1. outcome = "done"
      BY <1>4, <1>5, <2>2 DEF c
    <3>2. trnImage' = [trnImage EXCEPT ![h] = m]
      BY <1>1, <3>1
    <3>3. m = Trainer!Named(TrnTargets[i], trnTrainer.setting.image)
      BY <1>h, <2>2 DEF m
    <3> QED
      BY <1>0, <1>3, <1>h, <2>2, <3>2, <3>3
  <2>3. CASE i # n + 1
    <3>1. i \in 1..n /\ trnTrainer.results[i] = 0
      BY <1>3, <1>5, <2>3
    <3>2. \/ trnImage[TrnTargets[i]] = Trainer!Named(TrnTargets[i], trnTrainer.setting.image)
          \/ TrnTargets[i] \in trnOvertaken
      BY <1>0, <1>5, <3>1 DEF Trainer!SuccessRuns, Trainer!Named
    <3>3. TrnTargets[i] = h => Trainer!Named(TrnTargets[i], trnTrainer.setting.image) = m
      BY DEF m
    <3> QED
      BY <1>0, <1>1, <1>3, <2>1, <3>2, <3>3
  <2> QED
    BY <2>2, <2>3
<1>11. LearnedRun' /\ AllAccounted'
  BY <1>0, <1>2, <1>6 DEF LearnedRun, TrainerTop, AllAccounted
<1>12. InHand'
  BY <1>0, <1>2, <1>6 DEF InHand
<1> QED
  BY <1>8, <1>9, <1>10, <1>11, <1>12 DEF TrainerIInv

(* The policy file is opened and written.                                  *)
LEMMA TrainerWrites ==
    ASSUME Trainer!TrainerAssumption, TrainerIInv, Trainer!Open \/ Trainer!Write PROVE TrainerIInv'
<1>0. /\ Trainer!TypeOK /\ Trainer!PolicyWhole /\ Trainer!SuccessRuns /\ LearnedRun /\ InHand
      /\ AllAccounted
      /\ trnFetched \in Nat /\ trnCommitted \in Nat /\ Len(TrnRecords) \in Nat
      /\ trnTrainer \in Trainer!Process
      /\ trnTrainer.learned \subseteq DOMAIN TrnRecords /\ trnFetched <= Len(TrnRecords)
  BY RecordsCounted DEF TrainerIInv, Trainer!TypeOK, Trainer!Process
<1>s. UNCHANGED <<trnFetched,
                  trnCommitted, trnStarts, trnImage, trnLate, trnOvertaken, trnEverLearned, trnDropped>>
  BY DEF Trainer!Open, Trainer!Write, Trainer!fieldVars, Trainer!historyVars
<1>1. CASE Trainer!Open
  <2>1. trnTrainer.step = "replicate" /\ trnTrainer' = [trnTrainer EXCEPT !.step = "open"]
          /\ trnPolicy' = AgtTorn
    BY <1>1 DEF Trainer!Open
  <2>2. /\ trnTrainer'.step = "open" /\ trnTrainer'.record = trnTrainer.record
        /\ trnTrainer'.results = trnTrainer.results
        /\ trnTrainer'.learned = trnTrainer.learned /\ trnTrainer'.setting = trnTrainer.setting
    BY <1>0, <2>1 DEF Trainer!Process
  <2>3. trnTrainer' \in Trainer!Process
    BY <1>0, <2>1 DEF Trainer!Process
  <2>4. Trainer!TypeOK'
    BY <1>0, <1>s, <2>1, <2>2, <2>3 DEF Trainer!TypeOK
  <2>5. Trainer!PolicyWhole'
    BY <2>1, <2>2 DEF Trainer!PolicyWhole
  <2>6. Trainer!SuccessRuns'
    BY <1>0, <1>s, <2>2 DEF Trainer!SuccessRuns
  <2>7. LearnedRun' /\ AllAccounted'
    BY <1>0, <1>s, <2>1, <2>2 DEF LearnedRun, TrainerTop, AllAccounted
  <2>8. InHand'
    BY <1>0, <1>s, <2>1, <2>2 DEF InHand
  <2> QED
    BY <2>4, <2>5, <2>6, <2>7, <2>8 DEF TrainerIInv
<1>2. CASE Trainer!Write
  <2>1. /\ trnTrainer.step = "open" /\ trnPolicy' = trnTrainer.learned
        /\ trnTrainer' = [trnTrainer EXCEPT !.step = "poll", !.record = 0]
    BY <1>2 DEF Trainer!Write
  <2>2. /\ trnTrainer'.step = "poll" /\ trnTrainer'.record = 0
        /\ trnTrainer'.results = trnTrainer.results
        /\ trnTrainer'.learned = trnTrainer.learned /\ trnTrainer'.setting = trnTrainer.setting
    BY <1>0, <2>1 DEF Trainer!Process
  <2>3. trnTrainer' \in Trainer!Process
    <3>1. 0 \in 0..Len(TrnRecords)
      BY <1>0
    <3> QED
      BY <1>0, <2>1, <3>1 DEF Trainer!Process
  <2>4. Trainer!TypeOK'
    BY <1>0, <1>s, <2>1, <2>2, <2>3 DEF Trainer!TypeOK
  <2>5. PICK i \in 1..(trnFetched + 1) : trnTrainer.learned = {k \in i..trnFetched : TrnRecords[k].sound}
    BY <1>0, <2>1 DEF LearnedRun, TrainerTop
  <2>6. \E a, b \in DOMAIN TrnRecords : trnTrainer.learned = {k \in a..b : TrnRecords[k].sound}
    <3>1. /\ trnFetched > 0 /\ trnFetched \in DOMAIN TrnRecords
          /\ trnTrainer.record = trnFetched
      BY <1>0, <2>1, RecordsCounted DEF InHand
    <3>2. trnFetched \in trnTrainer.learned
      BY <1>0, <2>1, <3>1 DEF InHand
    <3>3. trnFetched \in i..trnFetched
      BY <2>5, <3>2
    <3>4. i \in 1..Len(TrnRecords)
      BY <1>0, <3>3
    <3> QED
      BY <2>5, <3>1, <3>4, RecordsCounted
  <2>7. Trainer!PolicyWhole'
    BY <1>0, <2>1, <2>2, <2>6 DEF Trainer!PolicyWhole, Trainer!TrainerAssumption
  <2>8. Trainer!SuccessRuns'
    BY <1>0, <1>s, <2>2 DEF Trainer!SuccessRuns
  <2>9. LearnedRun'
    <3>1. TrainerTop' = trnFetched
      BY <1>s, <2>2 DEF TrainerTop
    <3> QED
      BY <2>2, <2>5, <3>1 DEF LearnedRun
  <2>10. InHand'
    BY <1>0, <1>s, <2>1, <2>2 DEF InHand
  <2>11. AllAccounted'
    <3>1. \A k \in 1..trnFetched : k \in trnEverLearned \cup trnDropped
      BY <1>0, <2>1 DEF AllAccounted, InHand
    <3> QED
      BY <1>s, <2>2, <3>1 DEF AllAccounted
  <2> QED
    BY <2>4, <2>7, <2>8, <2>9, <2>10, <2>11 DEF TrainerIInv
<1> QED
  BY <1>1, <1>2

LEMMA TrainerAside ==
    ASSUME Trainer!TrainerAssumption, TrainerIInv, Trainer!Commit \/ Trainer!Late \/ UNCHANGED Trainer!vars
    PROVE  TrainerIInv'
<1>0. /\ Trainer!TypeOK /\ Trainer!PolicyWhole /\ Trainer!SuccessRuns /\ LearnedRun /\ InHand
      /\ AllAccounted
      /\ trnFetched \in Nat /\ trnCommitted \in Nat /\ Len(TrnRecords) \in Nat
      /\ trnTrainer \in Trainer!Process
  BY RecordsCounted DEF TrainerIInv, Trainer!TypeOK
<1>1. UNCHANGED <<trnFetched, trnTrainer, trnPolicy, trnStarts, trnEverLearned, trnDropped>>
  BY DEF Trainer!Commit, Trainer!Late, Trainer!historyVars, Trainer!vars
<1>2. CASE UNCHANGED <<trnImage, trnLate,
                       trnOvertaken>> /\ (trnCommitted' = trnCommitted \/ (trnTrainer.step # "down" /\ trnCommitted' = trnFetched))
  <2>1. Trainer!TypeOK'
    BY <1>0, <1>1, <1>2 DEF Trainer!TypeOK
  <2>2. Trainer!PolicyWhole' /\ Trainer!SuccessRuns'
    BY <1>0, <1>1, <1>2 DEF Trainer!PolicyWhole, Trainer!SuccessRuns
  <2>3. LearnedRun' /\ InHand' /\ AllAccounted'
    BY <1>0, <1>1, <1>2 DEF LearnedRun, TrainerTop, InHand, AllAccounted
  <2> QED
    BY <2>1, <2>2, <2>3 DEF TrainerIInv
<1>3. CASE Trainer!Late
  <2>1. PICK c \in trnLate : /\ trnImage' = [trnImage EXCEPT ![c.target] = c.image] /\ trnLate' = trnLate \ {c}
                             /\ trnOvertaken' = trnOvertaken \cup {c.target}
    BY <1>3 DEF Trainer!Late
  <2>2. /\ trnImage \in [Trainer!Places -> Trainer!Images \cup {AgtNone}] /\ c.target \in Trainer!Places
        /\ c.image \in Trainer!Images
        /\ trnCommitted' = trnCommitted
    BY <1>0, <1>3 DEF Trainer!TypeOK, Trainer!Late
  <2>3. Trainer!TypeOK'
    BY <1>0, <1>1, <2>1, <2>2 DEF Trainer!TypeOK
  <2>4. Trainer!PolicyWhole'
    BY <1>0, <1>1 DEF Trainer!PolicyWhole
  <2>5. Trainer!SuccessRuns'
    <3> SUFFICES ASSUME NEW i \in DOMAIN trnTrainer.results, trnTrainer.results[i] = 0
                 PROVE  \/ trnImage'[TrnTargets[i]] = Trainer!Named(TrnTargets[i], trnTrainer.setting.image)
                        \/ TrnTargets[i] \in trnOvertaken'
      BY <1>1 DEF Trainer!SuccessRuns, Trainer!Named
    <3>1. trnTrainer.results \in Seq({0, 1, 124, 255}) /\ Len(trnTrainer.results) <= Len(TrnTargets)
      BY <1>0 DEF Trainer!TypeOK, Trainer!Process
    <3>2. Len(trnTrainer.results) \in Nat /\ i \in 1..Len(trnTrainer.results)
      BY <3>1, OfSequence
    <3>3. TrnTargets[i] \in Trainer!Places
      BY <3>1, <3>2, RecordsCounted
    <3>4. \/ trnImage[TrnTargets[i]] = Trainer!Named(TrnTargets[i], trnTrainer.setting.image)
          \/ TrnTargets[i] \in trnOvertaken
      BY <1>0 DEF Trainer!SuccessRuns, Trainer!Named
    <3> QED
      BY <2>1, <2>2, <3>3, <3>4
  <2>6. LearnedRun' /\ InHand' /\ AllAccounted'
    BY <1>0, <1>1, <2>2 DEF LearnedRun, TrainerTop, InHand, AllAccounted
  <2> QED
    BY <2>3, <2>4, <2>5, <2>6 DEF TrainerIInv
<1> QED
  BY <1>2, <1>3 DEF Trainer!Commit, Trainer!vars, Trainer!fieldVars

(* The loop of rl-trainer: however often its process ends and starts, the  *)
(* policy file is a run of the topic without a gap, no record is passed    *)
(* over but one that a process had in hand when it ended, a target that    *)
(* reported success runs the image - or what its compose file names -      *)
(* unless a command that nobody waited for came after, and an able worker  *)
(* is assigned where there is one.                                         *)
THEOREM TrainerHolds ==
    ASSUME Trainer!TrainerAssumption PROVE Trainer!Spec => []Trainer!TrainerInv
<1>1. Trainer!Init => TrainerIInv
  BY TrainerInit
<1>2. TrainerIInv /\ [Trainer!Next]_(Trainer!vars) => TrainerIInv'
  <2> SUFFICES ASSUME TrainerIInv, [Trainer!Next]_(Trainer!vars) PROVE TrainerIInv'
    OBVIOUS
  <2>1. CASE Trainer!DeployRaises \/ Trainer!Crash
    <3>0. /\ trnLate \subseteq [target : Trainer!Places, image : Trainer!Images]
          /\ trnTrainer \in Trainer!Process
          /\ trnTrainer.step # "down" => trnTrainer.setting \in TrnSettings
      BY DEF TrainerIInv, Trainer!TypeOK, InHand
    <3>1. CASE UNCHANGED trnLate
      BY <2>1, <3>0, <3>1, TrainerEnds DEF Trainer!DeployRaises, Trainer!Crash
    <3>2. CASE Trainer!Crash /\ Trainer!Deploying /\ trnLate' = trnLate \cup {Trainer!Command}
      <4>1. Len(trnTrainer.results) + 1 \in DOMAIN TrnTargets
        <5>1. Len(trnTrainer.results) \in Nat /\ Len(trnTrainer.results) < Len(TrnTargets)
          BY <3>0, <3>2, OfSequence DEF Trainer!Process, Trainer!Deploying
        <5> QED
          BY <5>1, RecordsCounted
      <4>2. Trainer!Target \in Trainer!Places /\ trnTrainer.setting \in TrnSettings
        BY <3>0, <3>2, <4>1, RecordsCounted DEF Trainer!Target, Trainer!Deploying
      <4>3. Trainer!Command \in [target : Trainer!Places, image : Trainer!Images]
        BY <4>2, ImagesNamed DEF Trainer!Command
      <4> QED
        BY <3>0, <3>2, <4>3, TrainerEnds DEF Trainer!Crash
    <3> QED
      BY <2>1, <3>1, <3>2 DEF Trainer!DeployRaises, Trainer!Crash
  <2> QED
    BY <2>1, TrainerStart, TrainerPoll, TrainerUpdate, TrainerDeploy, TrainerWrites, TrainerAside DEF Trainer!Next
<1>3. TrainerIInv => Trainer!TrainerInv
  BY TrainerImply
<1> QED
  BY <1>1, <1>2, <1>3, PTL DEF Trainer!Spec

-----------------------------------------------------------------------------
(* The workflow that repairs what an analysis found.                       *)
LEMMA AutofixCount ==
    \A S : (Autofix!IsFiniteSet(S) <=> IsFiniteSet(S)) /\ Autofix!Cardinality(S) = Cardinality(S)
BY DEF Autofix!IsFiniteSet, IsFiniteSet, Autofix!Cardinality, Cardinality

Changed(tree, commit) == {e \in AfxFiles \X Autofix!Rewritten : e[2] \in commit[e[1]] \ tree[e[1]]}
AnalysisOf(k) == afxAnalyses[k].commit.code

(* The copy is the analysed commit without what was replaced so far, and   *)
(* what is still to be replaced is of a finding that is left.              *)
CopyBetween ==
    afxJob.step = "fix" =>
        /\ afxJob.left \subseteq Autofix!Findings
        /\ \A f \in AfxFiles :
             /\ afxJob.tree[f] \subseteq AnalysisOf(afxJob.of)[f]
             /\ AnalysisOf(afxJob.of)[f] \ afxJob.tree[f] \subseteq Autofix!Found(afxJob.of)
             /\ \A r \in Autofix!Found(afxJob.of) \cap afxJob.tree[f] :
                  \E e \in afxJob.left : Autofix!Rule(e) = r /\ (f \notin afxJob.files => ~Autofix!First(e))

CopyWhole ==
    afxJob.step \in {"bus", "pull"} =>
        \A f \in AfxFiles : afxJob.tree[f] = AnalysisOf(afxJob.of)[f] \ Autofix!Found(afxJob.of)

JobTells ==
    /\ afxJob.step # "idle" => afxJob.of \in DOMAIN afxAnalyses /\ afxJob.tree \in Autofix!Tree
    /\ afxJob.step = "read" => afxJob.tree = AnalysisOf(afxJob.of)
    /\ afxJob.step # "idle" =>
         afxJob.report = Changed(afxJob.tree, AnalysisOf(afxJob.of))
           /\ afxJob.total = Cardinality(afxJob.report)
    /\ afxJob.step = "pull" => afxPushed[afxJob.of] \in Autofix!Commits /\ afxPushed[afxJob.of].code = afxJob.tree

(* The topics in the order in which the agents pass the report on.         *)
Topics == <<"repo.pushed", "sarif.ready", "findings.enriched", "patch.generated", "attack.results", "verify.done">>
TopicsBefore(n) == {Topics[i] : i \in {j \in 1..6 : j < n}}
HeardOf(topics) == {<<a, Autofix!Subscription(a)>> : a \in {b \in Autofix!Agents : Autofix!Subscription(b) \in topics}}

Names == {Topics[i] : i \in 1..6} \cup Autofix!Verdicts

Passed(n, history) ==
    /\ history \in Seq(Names) /\ Len(history) = n
    /\ \A i \in 1..6 : i <= n => history[i] = Topics[i]
    /\ n = 7 => history[7] \in Autofix!Verdicts

BusAt(n) ==
    /\ Passed(n, afxBus.history) /\ afxHeard = HeardOf(TopicsBefore(n))
    /\ \/ n = 7 /\ afxBus.queue = <<>>
       \/ afxJob.step = "bus" /\ \E body : afxBus.queue = Autofix!Event(afxBus.history[n], body)

BusChain ==
    /\ afxJob.step \in {"read", "fix"} => afxHeard = {}
    /\ afxJob.step \in {"bus", "pull"} => \E n \in 1..7 : BusAt(n)

AutofixIInv ==
    /\ Autofix!TypeOK /\ Autofix!PushedIsRemedy /\ Autofix!PullTells /\ Autofix!ReportsSourced
    /\ CopyBetween /\ CopyWhole /\ JobTells /\ BusChain

LEMMA SixTopics ==
    /\ Topics[1] = "repo.pushed" /\ Topics[2] = "sarif.ready" /\ Topics[3] = "findings.enriched"
    /\ Topics[4] = "patch.generated" /\ Topics[5] = "attack.results" /\ Topics[6] = "verify.done"
BY DEF Topics

LEMMA OneLong ==
    ASSUME NEW S, NEW x \in S PROVE <<x>> \in Seq(S) /\ Len(<<x>>) = 1 /\ <<x>>[1] = x
OBVIOUS

LEMMA FirstPassed ==
    Passed(1, <<"repo.pushed">>)
<1> DEFINE h == <<"repo.pushed">>
<1>1. h[1] = Topics[1] /\ h \in Seq(Names) /\ Len(h) = 1
  <2>1. Topics[1] \in Names /\ h = <<Topics[1]>>
    BY SixTopics DEF Names
  <2> HIDE DEF h
  <2> QED
    BY <2>1, OneLong
<1> HIDE DEF h
<1>2. \A i \in 1..6 : i <= 1 => i = 1
  OBVIOUS
<1>3. Passed(1, h)
  BY <1>1, <1>2 DEF Passed
<1> QED
  BY <1>3 DEF h

LEMMA WhoHears ==
    /\ Autofix!Subscribers(Topics[1]) = {"scan"} /\ Autofix!Subscribers(Topics[2]) = {"reason"}
    /\ Autofix!Subscribers(Topics[3]) = {"fix"} /\ Autofix!Subscribers(Topics[4]) = {"attack"}
    /\ Autofix!Subscribers(Topics[5]) = {"verify"}
    /\ Autofix!Subscribers(Topics[6]) = {"defend", "prbot", "learn"}
    /\ \A t \in Autofix!Verdicts : Autofix!Subscribers(t) = {}
<1>1. \A a \in Autofix!Agents : Autofix!Subscription(a) \notin Autofix!Verdicts
  BY DEF Autofix!Verdicts, Autofix!Subscription
<1>2. \A t \in Autofix!Verdicts : Autofix!Subscribers(t) = {}
  BY <1>1 DEF Autofix!Subscribers
<1>3. Autofix!Subscribers("repo.pushed") = {"scan"} /\ Autofix!Subscribers("sarif.ready") = {"reason"}
  BY DEF Autofix!Subscribers, Autofix!Agents, Autofix!Subscription
<1>4. Autofix!Subscribers("findings.enriched") = {"fix"}
        /\ Autofix!Subscribers("patch.generated") = {"attack"}
  BY DEF Autofix!Subscribers, Autofix!Agents, Autofix!Subscription
<1>5. Autofix!Subscribers("attack.results") = {"verify"}
  BY DEF Autofix!Subscribers, Autofix!Agents, Autofix!Subscription
<1>6. Autofix!Subscribers("verify.done") = {"defend", "prbot", "learn"}
  BY DEF Autofix!Subscribers, Autofix!Agents, Autofix!Subscription
<1> QED
  BY <1>2, <1>3, <1>4, <1>5, <1>6, SixTopics

LEMMA OneSpeaks ==
    ASSUME NEW event, NEW a \in Autofix!Subscribers(event.topic), NEW topic, NEW body,
           Autofix!Published(a, event.body) = Autofix!Event(topic, body),
           \A b \in Autofix!Subscribers(event.topic) \ {a} : Autofix!Published(b, event.body) = <<>>
    PROVE  Autofix!Answer(event) = Autofix!Event(topic, body)
<1> DEFINE speaks == {b \in Autofix!Subscribers(event.topic) : Autofix!Published(b, event.body) # <<>>}
<1>1. Autofix!Event(topic, body) # <<>>
  BY DEF Autofix!Event
<1>2. speaks = {a}
  BY <1>1
<1>3. Autofix!Answer(event) = IF speaks = {} THEN <<>> ELSE Autofix!Published(CHOOSE b \in speaks : TRUE, event.body)
  BY DEF Autofix!Answer
<1> HIDE DEF speaks
<1>4. (CHOOSE b \in speaks : TRUE) = a
  BY <1>2
<1> QED
  BY <1>2, <1>3, <1>4

LEMMA LoneSpeaks ==
    ASSUME NEW event, NEW a, Autofix!Subscribers(event.topic) = {a}, NEW topic, NEW body,
           Autofix!Published(a, event.body) = Autofix!Event(topic, body)
    PROVE  Autofix!Answer(event) = Autofix!Event(topic, body)
BY OneSpeaks

(* An event of the chain is answered with the next one, a verdict with     *)
(* nothing.                                                                *)
LEMMA ChainGoesOn ==
    ASSUME NEW event
    PROVE  /\ \A n \in 1..5 : event.topic = Topics[n] =>
                \E body : Autofix!Answer(event) = Autofix!Event(Topics[n + 1], body)
           /\ event.topic = Topics[6] =>
                \E t \in Autofix!Verdicts, body \in {AgtNone} : Autofix!Answer(event) = Autofix!Event(t, body)
           /\ event.topic \in Autofix!Verdicts => Autofix!Answer(event) = <<>>
<1>1. ASSUME event.topic = Topics[1]
      PROVE  \E body : Autofix!Answer(event) = Autofix!Event(Topics[2], body)
  <2>1. Autofix!Published("scan", event.body) = Autofix!Event(Topics[2], event.body)
    BY SixTopics DEF Autofix!Published
  <2>2. Autofix!Subscribers(event.topic) = {"scan"}
    BY <1>1, WhoHears
  <2>3. Autofix!Answer(event) = Autofix!Event(Topics[2], event.body)
    BY <2>1, <2>2, LoneSpeaks
  <2> QED
    BY <2>3
<1>2. ASSUME event.topic = Topics[2]
      PROVE  \E body : Autofix!Answer(event) = Autofix!Event(Topics[3], body)
  <2>1. Autofix!Published("reason", event.body) = Autofix!Event(Topics[3], event.body.rules)
    BY SixTopics DEF Autofix!Published
  <2>2. Autofix!Subscribers(event.topic) = {"reason"}
    BY <1>2, WhoHears
  <2>3. Autofix!Answer(event) = Autofix!Event(Topics[3], event.body.rules)
    BY <2>1, <2>2, LoneSpeaks
  <2> QED
    BY <2>3
<1>3. ASSUME event.topic = Topics[3]
      PROVE  \E body : Autofix!Answer(event) = Autofix!Event(Topics[4], body)
  <2>1. Autofix!Published("fix", event.body) = Autofix!Event(Topics[4], event.body)
    BY SixTopics DEF Autofix!Published
  <2>2. Autofix!Subscribers(event.topic) = {"fix"}
    BY <1>3, WhoHears
  <2>3. Autofix!Answer(event) = Autofix!Event(Topics[4], event.body)
    BY <2>1, <2>2, LoneSpeaks
  <2> QED
    BY <2>3
<1>4. ASSUME event.topic = Topics[4]
      PROVE  \E body : Autofix!Answer(event) = Autofix!Event(Topics[5], body)
  <2>1. Autofix!Published("attack", event.body) = Autofix!Event(Topics[5], event.body \in AfxHolds)
    BY SixTopics DEF Autofix!Published
  <2>2. Autofix!Subscribers(event.topic) = {"attack"}
    BY <1>4, WhoHears
  <2>3. Autofix!Answer(event) = Autofix!Event(Topics[5], event.body \in AfxHolds)
    BY <2>1, <2>2, LoneSpeaks
  <2> QED
    BY <2>3
<1>5. ASSUME event.topic = Topics[5]
      PROVE  \E body : Autofix!Answer(event) = Autofix!Event(Topics[6], body)
  <2>1. Autofix!Published("verify", event.body) = Autofix!Event(Topics[6], event.body)
    BY SixTopics DEF Autofix!Published
  <2>2. Autofix!Subscribers(event.topic) = {"verify"}
    BY <1>5, WhoHears
  <2>3. Autofix!Answer(event) = Autofix!Event(Topics[6], event.body)
    BY <2>1, <2>2, LoneSpeaks
  <2> QED
    BY <2>3
<1>6. ASSUME event.topic = Topics[6]
      PROVE  \E t \in Autofix!Verdicts, body \in {AgtNone} : Autofix!Answer(event) = Autofix!Event(t, body)
  <2> DEFINE t == IF event.body THEN "deploy.policy" ELSE "patch.revise"
  <2>1. Autofix!Published("defend", event.body) = Autofix!Event(t, AgtNone)
    BY DEF Autofix!Published
  <2>2. t \in Autofix!Verdicts
    BY DEF Autofix!Verdicts
  <2>3. Autofix!Published("prbot", event.body) = <<>> /\ Autofix!Published("learn", event.body) = <<>>
    BY DEF Autofix!Published
  <2> HIDE DEF t
  <2>4. \A b \in Autofix!Subscribers(event.topic) \ {"defend"} : Autofix!Published(b, event.body) = <<>>
    BY <1>6, <2>3, WhoHears
  <2>5. "defend" \in Autofix!Subscribers(event.topic)
    BY <1>6, WhoHears
  <2>6. Autofix!Answer(event) = Autofix!Event(t, AgtNone)
    BY <2>1, <2>4, <2>5, OneSpeaks
  <2> QED
    BY <2>2, <2>6
<1>7. ASSUME event.topic \in Autofix!Verdicts PROVE Autofix!Answer(event) = <<>>
  BY <1>7, WhoHears DEF Autofix!Answer
<1>8. \A n \in 1..5 : n = 1 \/ n = 2 \/ n = 3 \/ n = 4 \/ n = 5
  OBVIOUS
<1> QED
  BY <1>1, <1>2, <1>3, <1>4, <1>5, <1>6, <1>7, <1>8

LEMMA ChainAnswers ==
    ASSUME NEW event, NEW n \in 1..6, event.topic = Topics[n]
    PROVE  \E t, body : /\ Autofix!Answer(event) = Autofix!Event(t, body) /\ t \in Names
                        /\ IF n = 6 THEN t \in Autofix!Verdicts ELSE t = Topics[n + 1]
<1>1. CASE n = 6
  <2>1. \A t \in Autofix!Verdicts : t \in Names
    BY DEF Names
  <2> QED
    BY <1>1, <2>1, ChainGoesOn
<1>2. CASE n \in 1..5
  <2>1. Topics[n + 1] \in Names
    BY <1>2 DEF Names
  <2>2. n # 6 /\ \E body : Autofix!Answer(event) = Autofix!Event(Topics[n + 1], body)
    BY <1>2, ChainGoesOn
  <2> QED
    BY <2>1, <2>2
<1>3. n = 6 \/ n \in 1..5
  OBVIOUS
<1> QED
  BY <1>1, <1>2, <1>3

LEMMA EventParts ==
    ASSUME NEW t, NEW body
    PROVE  Head(Autofix!Event(t, body)).topic = t /\ Tail(Autofix!Event(t, body)) = <<>>
BY DEF Autofix!Event

(* What is published goes to the queue and to the history.                 *)
LEMMA EventJoins ==
    ASSUME NEW t, NEW body
    PROVE  LET new == Autofix!Event(t, body)
           IN <<>> \o new = new /\ [i \in DOMAIN new |-> new[i].topic] = <<t>>
BY DEF Autofix!Event

LEMMA NothingJoins ==
    ASSUME NEW S, NEW history \in Seq(S), NEW h, h = <<>>
    PROVE  <<>> \o h = <<>> /\ history \o [i \in DOMAIN h |-> h[i].topic] = history
<1>1. [i \in DOMAIN h |-> h[i].topic] = <<>>
  OBVIOUS
<1>2. history \o <<>> = history
  OBVIOUS
<1> QED
  BY <1>1, <1>2

LEMMA PassOn ==
    ASSUME NEW n \in 1..6, NEW history, Passed(n, history), NEW t \in Names,
           IF n = 6 THEN t \in Autofix!Verdicts ELSE t = Topics[n + 1]
    PROVE  Passed(n + 1, history \o <<t>>) /\ (history \o <<t>>)[n + 1] = t
<1> DEFINE next == history \o <<t>>
<1>1. history \in Seq(Names) /\ Len(history) = n /\ \A i \in 1..6 : i <= n => history[i] = Topics[i]
  BY DEF Passed
<1>2. next \in Seq(Names) /\ Len(next) = n + 1 /\ next[n + 1] = t
        /\ \A i \in 1..n : next[i] = history[i]
  BY <1>1
<1> HIDE DEF next
<1>3. \A i \in 1..6 : i <= n + 1 => i \in 1..n \/ (i = n + 1 /\ n # 6)
  OBVIOUS
<1>4. \A i \in 1..6 : i <= n + 1 => next[i] = Topics[i]
  BY <1>1, <1>2, <1>3
<1>5. n + 1 = 7 => next[7] \in Autofix!Verdicts
  BY <1>2
<1>6. Passed(n + 1, next)
  BY <1>2, <1>4, <1>5 DEF Passed
<1> QED
  BY <1>2, <1>6 DEF next

LEMMA HearOn ==
    ASSUME NEW n \in 1..6, NEW heard, heard = HeardOf(TopicsBefore(n))
    PROVE  heard \cup {<<a, Topics[n]>> : a \in Autofix!Subscribers(Topics[n])} = HeardOf(TopicsBefore(n + 1))
<1>1. \A i \in 1..6 : i < n + 1 <=> i < n \/ i = n
  OBVIOUS
<1>2. TopicsBefore(n + 1) = TopicsBefore(n) \cup {Topics[n]}
  BY <1>1 DEF TopicsBefore
<1>3. \A a \in Autofix!Agents : a \in Autofix!Subscribers(Topics[n]) <=> Autofix!Subscription(a) = Topics[n]
  BY DEF Autofix!Subscribers
<1>4. Autofix!Subscribers(Topics[n]) \subseteq Autofix!Agents
  BY DEF Autofix!Subscribers
<1>5. {<<a, Topics[n]>> : a \in Autofix!Subscribers(Topics[n])} = HeardOf({Topics[n]})
  BY <1>3, <1>4 DEF HeardOf
<1>6. \A S, T : HeardOf(S) \cup HeardOf(T) = HeardOf(S \cup T)
  BY DEF HeardOf
<1> QED
  BY <1>2, <1>5, <1>6

LEMMA AutofixFacts ==
    ASSUME Autofix!AutofixAssumption, Autofix!TypeOK
    PROVE  /\ DOMAIN afxPushed = DOMAIN afxAnalyses /\ DOMAIN afxAnalyses = 1..Len(afxAnalyses)
           /\ Len(afxAnalyses) \in Nat
           /\ \A k \in DOMAIN afxAnalyses :
                /\ AnalysisOf(k) \in Autofix!Tree /\ afxAnalyses[k].sarif \in Autofix!Kept
                /\ afxAnalyses[k].commit \in Autofix!Commits /\ afxAnalyses[k].commit.sarif \in Autofix!Kept
                /\ Autofix!Directory(k) \in Autofix!Kept
           /\ \A k \in DOMAIN afxPushed : afxPushed[k] \in Autofix!Commits \cup {AgtNone}
           /\ AgtNone \notin Autofix!Commits
<1> DEFINE A == [commit : Autofix!Commits, sarif : Autofix!Kept]
<1>1. afxAnalyses \in Seq(A) /\ afxPushed \in Seq(Autofix!Commits \cup {AgtNone})
      /\ Len(afxPushed) = Len(afxAnalyses)
  BY DEF Autofix!TypeOK
<1>a. \A a \in A : a.commit \in Autofix!Commits /\ a.sarif \in Autofix!Kept
  OBVIOUS
<1> HIDE DEF A
<1>2. /\ Len(afxAnalyses) \in Nat /\ DOMAIN afxAnalyses = 1..Len(afxAnalyses)
      /\ \A k \in DOMAIN afxAnalyses : afxAnalyses[k] \in A
  BY <1>1, OfSequence
<1>3. DOMAIN afxPushed = 1..Len(afxPushed)
        /\ \A k \in DOMAIN afxPushed : afxPushed[k] \in Autofix!Commits \cup {AgtNone}
  BY <1>1, OfSequence
<1>4. \A c \in Autofix!Commits : c.code \in Autofix!Tree /\ c.sarif \in Autofix!Kept
  BY DEF Autofix!Commits
<1>5. ASSUME NEW k \in DOMAIN afxAnalyses PROVE Autofix!Directory(k) \in Autofix!Kept
  <2>1. afxAnalyses[k].sarif \in Autofix!Kept /\ afxAnalyses[k].commit.sarif \in Autofix!Kept
    BY <1>2, <1>4, <1>a
  <2> QED
    BY <2>1 DEF Autofix!Directory, Autofix!Kept
<1> QED
  BY <1>1, <1>2, <1>3, <1>4, <1>5, <1>a DEF Autofix!AutofixAssumption, AnalysisOf

(* The files of the directory are those that were given.                   *)
LEMMA DirectoryGiven ==
    \A k : Autofix!Directory(k) = [n \in AfxNames |-> Autofix!Given(k, n)]
BY DEF Autofix!Directory, Autofix!Given

LEMMA ChangesFinite ==
    ASSUME Autofix!AutofixAssumption, NEW tree, NEW commit
    PROVE  IsFiniteSet(Changed(tree, commit)) /\ Cardinality(Changed(tree, commit)) \in Nat
<1>1. IsFiniteSet({"yaml"} \cup {"verify"})
  BY FS_Singleton, FS_AddElement
<1>2. IsFiniteSet(Autofix!Rewritten) /\ IsFiniteSet(AfxFiles)
  <2>1. Autofix!Rewritten = {"yaml"} \cup {"verify"}
    BY DEF Autofix!Rewritten
  <2> QED
    BY <1>1, <2>1, AutofixCount DEF Autofix!AutofixAssumption
<1>3. IsFiniteSet(AfxFiles \X Autofix!Rewritten)
  BY <1>2, FS_Product
<1>4. Changed(tree, commit) \in SUBSET (AfxFiles \X Autofix!Rewritten)
  BY DEF Changed
<1> QED
  BY <1>3, <1>4, FS_Subset, FS_CardinalityType

LEMMA AutofixImply ==
    ASSUME Autofix!AutofixAssumption, AutofixIInv PROVE Autofix!AutofixInv
<1>1. ASSUME afxJob.step = "pull"
      PROVE  /\ afxHeard = {<<a, Autofix!Subscription(a)>> : a \in Autofix!Agents}
             /\ Cardinality({i \in DOMAIN afxBus.history : afxBus.history[i] \in Autofix!Verdicts}) = 1
             /\ afxBus.history[Len(afxBus.history)] \in Autofix!Verdicts
  <2>1. Passed(7, afxBus.history) /\ afxHeard = HeardOf(TopicsBefore(7))
    BY <1>1 DEF AutofixIInv, BusChain, BusAt
  <2>2. \A a \in Autofix!Agents : Autofix!Subscription(a) \in TopicsBefore(7)
    <3>1. \A i \in 1..6 : Topics[i] \in TopicsBefore(7)
      BY DEF TopicsBefore
    <3>2. \A a \in Autofix!Agents : \E i \in 1..6 : Autofix!Subscription(a) = Topics[i]
      BY SixTopics DEF Autofix!Agents, Autofix!Subscription
    <3> QED
      BY <3>1, <3>2
  <2>3. afxHeard = {<<a, Autofix!Subscription(a)>> : a \in Autofix!Agents}
    BY <2>1, <2>2 DEF HeardOf
  <2>4. DOMAIN afxBus.history = 1..7 /\ Len(afxBus.history) = 7
    BY <2>1, OfSequence DEF Passed
  <2>5. \A i \in 1..6 : Topics[i] \notin Autofix!Verdicts
    BY SixTopics DEF Autofix!Verdicts
  <2>6. \A i \in 1..7 : afxBus.history[i] \in Autofix!Verdicts <=> i = 7
    <3>1. afxBus.history[7] \in Autofix!Verdicts /\ \A i \in 1..6 : afxBus.history[i] = Topics[i]
      BY <2>1 DEF Passed
    <3>2. \A i \in 1..7 : i = 7 \/ i \in 1..6
      OBVIOUS
    <3> QED
      BY <2>5, <3>1, <3>2
  <2>7. {i \in DOMAIN afxBus.history : afxBus.history[i] \in Autofix!Verdicts} = {7}
    BY <2>4, <2>6
  <2>8. Cardinality({7}) = 1
    BY FS_Singleton
  <2> QED
    BY <2>3, <2>4, <2>6, <2>7, <2>8
<1>2. Autofix!AgentsDone
  BY <1>1, AutofixCount DEF Autofix!AgentsDone
<1> QED
  BY <1>2 DEF AutofixIInv, Autofix!AutofixInv

(* Where no job is under way there is nothing to say of one.               *)
LEMMA IdleSays ==
    ASSUME afxJob' = Autofix!Idle
    PROVE  CopyBetween' /\ CopyWhole' /\ JobTells' /\ BusChain' /\ afxJob' \in Autofix!Job
<1>1. afxJob'.step = "idle"
  BY DEF Autofix!Idle
<1>2. afxJob' \in Autofix!Job
  BY DEF Autofix!Idle, Autofix!Job
<1> QED
  BY <1>1, <1>2 DEF CopyBetween, CopyWhole, JobTells, BusChain

LEMMA AutofixInit ==
    ASSUME Autofix!AutofixAssumption PROVE Autofix!Init => AutofixIInv
<1> SUFFICES ASSUME Autofix!Init PROVE AutofixIInv
  OBVIOUS
<1> USE DEF Autofix!Init
<1>1. Autofix!TypeOK
  <2>1. afxJob \in Autofix!Job
    BY DEF Autofix!Idle, Autofix!Job
  <2>2. <<>> \in Seq([commit : Autofix!Commits, sarif : Autofix!Kept]) /\ <<>> \in Seq(Autofix!Commits \cup {AgtNone})
    OBVIOUS
  <2>3. afxHead \in Autofix!Commits
    <3>1. Autofix!Nothing \in Autofix!Kept /\ AfxBegun \subseteq Autofix!Tree
      BY DEF Autofix!Nothing, Autofix!Kept, Autofix!AutofixAssumption
    <3> QED
      BY <3>1 DEF Autofix!Commits
  <2> QED
    BY <2>1, <2>2, <2>3 DEF Autofix!TypeOK, Autofix!AutofixAssumption
<1>2. Autofix!PushedIsRemedy /\ Autofix!PullTells
  BY DEF Autofix!PushedIsRemedy, Autofix!PullTells
<1>4. Autofix!ReportsSourced
  BY DEF Autofix!ReportsSourced, Autofix!Sourced, Autofix!Nothing
<1>3. CopyBetween /\ CopyWhole /\ JobTells /\ BusChain
  BY DEF Autofix!Idle, CopyBetween, CopyWhole, JobTells, BusChain
<1> QED
  BY <1>1, <1>2, <1>3, <1>4 DEF AutofixIInv

(* What is on the branches and in the pull requests stays.                 *)
LEMMA PullsStay ==
    ASSUME AutofixIInv, UNCHANGED <<afxAnalyses, afxPushed, afxPulls>>
    PROVE  Autofix!PushedIsRemedy' /\ Autofix!PullTells'
<1>1. \A k : Autofix!Found(k)' = Autofix!Found(k) /\ Autofix!Removed(k)' = Autofix!Removed(k)
  BY DEF Autofix!Found, Autofix!Given, Autofix!Removed
<1>2. Autofix!PushedIsRemedy'
  BY <1>1 DEF AutofixIInv, Autofix!PushedIsRemedy, Autofix!Given, Autofix!Nothing
<1>3. Autofix!PullTells'
  <2> SUFFICES ASSUME NEW p \in afxPulls
               PROVE  /\ afxPushed[p.of] # AgtNone /\ p.report = Autofix!Removed(p.of)
                      /\ p.total = Autofix!Cardinality(Autofix!Removed(p.of))
    BY <1>1, AutofixCount DEF Autofix!PullTells
  <2> QED
    BY DEF AutofixIInv, Autofix!PullTells
<1> QED
  BY <1>2, <1>3

LEMMA SourcesStay ==
    ASSUME AutofixIInv, UNCHANGED <<afxHead, afxAnalyses, afxPulls>>
    PROVE  Autofix!ReportsSourced'
BY DEF AutofixIInv, Autofix!ReportsSourced, Autofix!Sourced

(* A merged pull request stays merged, and its analysis stays.             *)
LEMMA SourcesGrow ==
    ASSUME NEW sarif, Autofix!Sourced(sarif),
           \A p \in afxPulls : ~p.open => p \in afxPulls' /\ afxAnalyses'[p.of].sarif = afxAnalyses[p.of].sarif
    PROVE  \A n \in AfxNames : sarif[n] # AgtNone =>
             \E p \in afxPulls' : ~p.open /\ afxAnalyses'[p.of].sarif[n] = sarif[n]
BY DEF Autofix!Sourced

(* And so does what holds of a job that is left alone.                     *)
LEMMA JobStays ==
    ASSUME AutofixIInv, UNCHANGED <<afxAnalyses, afxPushed, afxJob, afxBus, afxHeard>>
    PROVE  CopyBetween' /\ CopyWhole' /\ JobTells' /\ BusChain'
<1>1. /\ \A k : AnalysisOf(k)' = AnalysisOf(k) /\ Autofix!Found(k)' = Autofix!Found(k)
      /\ Autofix!Findings' = Autofix!Findings /\ \A e : Autofix!Rule(e)' = Autofix!Rule(e) /\ (Autofix!First(e)' <=> Autofix!First(e))
  BY DEF Autofix!Findings, Autofix!Rule, Autofix!First, Autofix!Sarif, Autofix!Present, Autofix!Directory, AnalysisOf, Autofix!Found, Autofix!Given
<1>2. CopyBetween'
  BY <1>1 DEF AutofixIInv, CopyBetween
<1>3. CopyWhole'
  BY <1>1 DEF AutofixIInv, CopyWhole
<1>4. JobTells'
  BY <1>1 DEF AutofixIInv, JobTells
<1>5. BusChain'
  BY DEF AutofixIInv, BusChain, BusAt
<1> QED
  BY <1>2, <1>3, <1>4, <1>5

LEMMA AnalyseStep ==
    ASSUME Autofix!AutofixAssumption, AutofixIInv, Autofix!Analyse PROVE AutofixIInv'
<1>0. Autofix!TypeOK /\ Autofix!PushedIsRemedy /\ Autofix!PullTells /\ CopyBetween /\ CopyWhole
        /\ JobTells /\ BusChain
  BY DEF AutofixIInv
<1> DEFINE A == [commit : Autofix!Commits, sarif : Autofix!Kept]
           P == Autofix!Commits \cup {AgtNone}
           n == Len(afxAnalyses)
<1>1. PICK s \in AfxOutcomes : afxAnalyses' = Append(afxAnalyses, [commit |-> afxHead, sarif |-> s])
  BY DEF Autofix!Analyse
<1>2. /\ afxPushed' = Append(afxPushed, AgtNone)
      /\ UNCHANGED <<afxHead, afxPulls, afxEdits, afxJob, afxBus, afxHeard, afxJobs>>
  BY DEF Autofix!Analyse, Autofix!jobVars
<1>3. afxAnalyses \in Seq(A) /\ [commit |-> afxHead, sarif |-> s] \in A /\ afxPushed \in Seq(P)
        /\ AgtNone \in P /\ Len(afxPushed) = n
  BY <1>0 DEF Autofix!TypeOK, Autofix!AutofixAssumption
<1> HIDE DEF A, P
<1>4. /\ n \in Nat /\ DOMAIN afxAnalyses = 1..n /\ DOMAIN afxPushed = 1..n
      /\ afxAnalyses' \in Seq(A) /\ afxPushed' \in Seq(P) /\ Len(afxAnalyses') = n + 1
      /\ Len(afxPushed') = n + 1
      /\ \A k \in 1..n : afxAnalyses'[k] = afxAnalyses[k] /\ afxPushed'[k] = afxPushed[k]
      /\ afxPushed'[n + 1] = AgtNone /\ afxAnalyses'[n + 1].commit = afxHead
  <2>1. n \in Nat /\ DOMAIN afxAnalyses = 1..n /\ DOMAIN afxPushed = 1..n
    BY <1>3, OfSequence
  <2>2. afxAnalyses' \in Seq(A) /\ Len(afxAnalyses') = n + 1
          /\ \A k \in 1..n : afxAnalyses'[k] = afxAnalyses[k]
    BY <1>1, <1>3, <2>1
  <2>3. afxPushed' \in Seq(P) /\ Len(afxPushed') = n + 1 /\ afxPushed'[n + 1] = AgtNone
          /\ \A k \in 1..n : afxPushed'[k] = afxPushed[k]
    BY <1>2, <1>3, <2>1
  <2>4. afxAnalyses'[n + 1] = [commit |-> afxHead, sarif |-> s]
    BY <1>1, <1>3, <2>1
  <2> QED
    BY <2>1, <2>2, <2>3, <2>4
<1> HIDE DEF n
<1>5. DOMAIN afxAnalyses' = 1..(n + 1) /\ DOMAIN afxPushed' = 1..(n + 1)
        /\ \A k \in 1..n : k \in 1..(n + 1)
  BY <1>4, OfSequence
<1>6. \A k \in 1..(n + 1) : k = n + 1 \/ k \in 1..n
  BY <1>4
<1>7. \A k \in 1..n : Autofix!Found(k)' = Autofix!Found(k) /\ AnalysisOf(k)' = AnalysisOf(k) /\ Autofix!Removed(k)' = Autofix!Removed(k)
  BY <1>4 DEF Autofix!Found, Autofix!Given, AnalysisOf, Autofix!Removed
<1>8. Autofix!TypeOK'
  <2>1. afxPulls \subseteq [of : DOMAIN afxAnalyses', report : SUBSET (AfxFiles \X Autofix!Rewritten), total : Nat, open : BOOLEAN]
    BY <1>0, <1>4, <1>5 DEF Autofix!TypeOK
  <2> QED
    BY <1>0, <1>2, <1>4, <2>1 DEF Autofix!TypeOK, A, P
<1>9. Autofix!PushedIsRemedy'
  <2> SUFFICES ASSUME NEW k \in 1..(n + 1), afxPushed'[k] # AgtNone
               PROVE  /\ \A f \in AfxFiles : afxPushed'[k].code[f] = afxAnalyses'[k].commit.code[f] \ Autofix!Found(k)'
                      /\ \A m \in AfxNames : afxPushed'[k].sarif[m] = Autofix!Given(k, m)'
                      /\ afxPushed'[k].code = afxAnalyses'[k].commit.code => afxAnalyses'[k].commit.sarif # Autofix!Nothing
    BY <1>5 DEF Autofix!PushedIsRemedy, Autofix!Nothing
  <2>1. k \in 1..n
    BY <1>4, <1>6
  <2>2. \A m : Autofix!Given(k, m)' = Autofix!Given(k, m)
    BY <1>4, <2>1 DEF Autofix!Given
  <2> QED
    BY <1>0, <1>4, <1>7, <2>1, <2>2 DEF Autofix!PushedIsRemedy
<1>16. Autofix!ReportsSourced'
  <2>0. Autofix!ReportsSourced
    BY DEF AutofixIInv
  <2>1. \A p \in afxPulls : ~p.open => p \in afxPulls' /\ afxAnalyses'[p.of].sarif = afxAnalyses[p.of].sarif
    BY <1>0, <1>2, <1>4 DEF Autofix!TypeOK
  <2>3. \A m \in AfxNames : afxHead.sarif[m] # AgtNone =>
          \E p \in afxPulls' : ~p.open /\ afxAnalyses'[p.of].sarif[m] = afxHead.sarif[m]
    BY <2>0, <2>1, SourcesGrow DEF Autofix!ReportsSourced
  <2>4. ASSUME NEW k \in 1..(n + 1)
        PROVE  \A m \in AfxNames : afxAnalyses'[k].commit.sarif[m] # AgtNone =>
                 \E p \in afxPulls' : ~p.open /\ afxAnalyses'[p.of].sarif[m] = afxAnalyses'[k].commit.sarif[m]
    <3>1. CASE k = n + 1
      BY <1>4, <2>3, <3>1
    <3>2. CASE k \in 1..n
      <4>1. Autofix!Sourced(afxAnalyses[k].commit.sarif)
        BY <1>4, <2>0, <3>2 DEF Autofix!ReportsSourced
      <4>2. \A m \in AfxNames : afxAnalyses[k].commit.sarif[m] # AgtNone =>
              \E p \in afxPulls' : ~p.open /\ afxAnalyses'[p.of].sarif[m] = afxAnalyses[k].commit.sarif[m]
        BY <2>1, <4>1, SourcesGrow
      <4> QED
        BY <1>4, <3>2, <4>2
    <3> QED
      BY <1>6, <3>1, <3>2
  <2> QED
    BY <1>2, <1>5, <2>3, <2>4 DEF Autofix!ReportsSourced, Autofix!Sourced
<1>10. Autofix!PullTells'
  <2> SUFFICES ASSUME NEW p \in afxPulls
               PROVE  /\ afxPushed'[p.of] # AgtNone /\ p.report = Autofix!Removed(p.of)'
                      /\ p.total = Cardinality(Autofix!Removed(p.of)')
    BY <1>2, AutofixCount DEF Autofix!PullTells
  <2>1. p.of \in 1..n
    BY <1>0, <1>4 DEF Autofix!TypeOK
  <2> QED
    BY <1>0, <1>4, <1>7, <2>1, AutofixCount DEF Autofix!PullTells
<1>11. afxJob.step # "idle" => afxJob.of \in 1..n
  BY <1>0, <1>4 DEF JobTells
<1>12. JobTells'
  BY <1>0, <1>2, <1>4, <1>5, <1>7, <1>11 DEF JobTells
<1>13. CopyWhole'
  BY <1>0, <1>2, <1>7, <1>11 DEF CopyWhole
<1>14. CopyBetween'
  <2>1. CASE afxJob.step # "fix"
    BY <1>2, <2>1 DEF CopyBetween
  <2>2. CASE afxJob.step = "fix"
    <3>1. afxJob.of \in 1..n
      BY <1>11, <2>2
    <3>2. Autofix!Sarif' = Autofix!Sarif
      BY <1>2, <1>4, <3>1 DEF Autofix!Sarif, Autofix!Directory
    <3>3. Autofix!Findings' = Autofix!Findings /\ \A e : Autofix!Rule(e)' = Autofix!Rule(e) /\ (Autofix!First(e)' <=> Autofix!First(e))
      BY <1>2, <3>2 DEF Autofix!Findings, Autofix!Present, Autofix!Rule, Autofix!First
    <3>4. AnalysisOf(afxJob.of)' = AnalysisOf(afxJob.of)
            /\ Autofix!Found(afxJob.of)' = Autofix!Found(afxJob.of)
      BY <1>2, <1>7, <3>1 DEF AnalysisOf, Autofix!Found, Autofix!Given
    <3> QED
      BY <1>0, <1>2, <2>2, <3>3, <3>4 DEF CopyBetween
  <2> QED
    BY <2>1, <2>2
<1>15. BusChain'
  BY <1>0, <1>2 DEF BusChain, BusAt
<1> QED
  BY <1>8, <1>9, <1>10, <1>12, <1>13, <1>14, <1>15, <1>16 DEF AutofixIInv

(* A job ends; what developers do beside it.                               *)
LEMMA JobAway ==
    ASSUME Autofix!AutofixAssumption, AutofixIInv, afxJob' = Autofix!Idle,
           UNCHANGED <<afxHead, afxAnalyses, afxPushed, afxPulls, afxEdits, afxJobs>>
    PROVE  AutofixIInv'
<1>1. Autofix!TypeOK'
  BY IdleSays DEF AutofixIInv, Autofix!TypeOK
<1> QED
  BY <1>1, IdleSays, PullsStay, SourcesStay DEF AutofixIInv

LEMMA BeginStep ==
    ASSUME Autofix!AutofixAssumption, AutofixIInv, Autofix!Begin PROVE AutofixIInv'
<1>0. Autofix!TypeOK
  BY DEF AutofixIInv
<1>1. PICK k \in DOMAIN afxAnalyses :
        afxJob' = [Autofix!Idle EXCEPT !.step = "read", !.of = k, !.tree = afxAnalyses[k].commit.code]
  BY DEF Autofix!Begin
<1>2. afxJobs < AfxMaxJobs /\ afxJobs' = afxJobs + 1
        /\ UNCHANGED <<afxHead, afxAnalyses, afxPushed, afxPulls, afxEdits>>
  BY DEF Autofix!Begin
<1>3. AnalysisOf(k) \in Autofix!Tree /\ k \in Nat
  BY <1>0, AutofixFacts
<1>4. /\ afxJob' = [step |-> "read", of |-> k, tree |-> AnalysisOf(k), left |-> {}, files |-> {}, report |-> {}, total |-> 0]
  BY <1>1 DEF Autofix!Idle, AnalysisOf
<1>5. Autofix!TypeOK'
  <2>1. afxJobs' \in 0..AfxMaxJobs
    BY <1>0, <1>2 DEF Autofix!TypeOK, Autofix!AutofixAssumption
  <2>2. afxJob' \in Autofix!Job
    BY <1>3, <1>4 DEF Autofix!Job
  <2> QED
    BY <1>0, <1>2, <2>1, <2>2 DEF Autofix!TypeOK
<1>6. JobTells'
  <2>1. Changed(AnalysisOf(k), AnalysisOf(k)) = {}
    BY DEF Changed
  <2>2. Cardinality({}) = 0
    BY FS_EmptySet
  <2>3. /\ afxJob'.step = "read" /\ afxJob'.of = k /\ afxJob'.tree = AnalysisOf(k)
        /\ afxJob'.report = {}
        /\ afxJob'.total = 0
    BY <1>4
  <2>4. AnalysisOf(k)' = AnalysisOf(k)
    BY <1>2 DEF AnalysisOf
  <2>5. AnalysisOf(afxJob.of)' = AnalysisOf(k)
    BY <1>2, <2>3 DEF AnalysisOf
  <2> QED
    BY <1>2, <1>3, <2>1, <2>2, <2>3, <2>5 DEF JobTells
<1>7. CopyBetween' /\ CopyWhole' /\ BusChain'
  <2>1. afxHeard' = {} /\ afxJob'.step = "read"
    BY <1>4 DEF Autofix!Begin
  <2> QED
    BY <2>1 DEF CopyBetween, CopyWhole, BusChain
<1> QED
  BY <1>2, <1>5, <1>6, <1>7, PullsStay, SourcesStay DEF AutofixIInv

LEMMA ReadStep ==
    ASSUME Autofix!AutofixAssumption, AutofixIInv, Autofix!Read PROVE AutofixIInv'
<1>0. Autofix!TypeOK /\ JobTells /\ afxJob \in Autofix!Job
  BY DEF AutofixIInv, Autofix!TypeOK
<1>1. afxJob.step = "read" /\ UNCHANGED <<afxHead, afxAnalyses, afxPushed, afxPulls, afxEdits, afxJobs>>
  BY DEF Autofix!Read
<1>2. CASE afxJob' = Autofix!Idle
  BY <1>1, <1>2, JobAway
<1>3. CASE afxJob' = [afxJob EXCEPT !.step = "fix", !.left = Autofix!Findings, !.files = AfxFiles]
             /\ UNCHANGED <<afxBus, afxHeard>>
  <2>1. /\ afxJob'.step = "fix" /\ afxJob'.left = Autofix!Findings /\ afxJob'.files = AfxFiles
        /\ afxJob'.of = afxJob.of
        /\ afxJob'.tree = afxJob.tree /\ afxJob'.report = afxJob.report /\ afxJob'.total = afxJob.total
    BY <1>0, <1>3 DEF Autofix!Job
  <2>2. afxJob.of \in DOMAIN afxAnalyses /\ afxJob.tree = AnalysisOf(afxJob.of)
    BY <1>0, <1>1 DEF JobTells
  <2> DEFINE N == Nat \X Nat
  <2>3. Autofix!Findings \in SUBSET N
    <3>1. Autofix!Sarif \in Autofix!Kept /\ AfxNames \subseteq Nat
      BY <1>0, <2>2, AutofixFacts DEF Autofix!Sarif, Autofix!AutofixAssumption
    <3>2. \A i \in Autofix!Present : i \in Nat /\ Autofix!Sarif[i].rules \in Seq(STRING)
      <4>1. \A i \in Autofix!Present : i \in Nat /\ Autofix!Sarif[i] \in AfxReports
        BY <3>1 DEF Autofix!Present, Autofix!Kept
      <4>2. \A x \in AfxReports : x.rules \in Seq(STRING)
        BY DEF Autofix!AutofixAssumption
      <4> QED
        BY <4>1, <4>2
    <3>3. \A i \in Autofix!Present : \A j \in DOMAIN Autofix!Sarif[i].rules : j \in Nat
      BY <3>2, OfSequence
    <3> QED
      BY <3>2, <3>3 DEF Autofix!Findings
  <2>4. afxJob' \in Autofix!Job
    <3> HIDE DEF N
    <3>1. \A x \in SUBSET N : [afxJob EXCEPT !.step = "fix", !.left = x, !.files = AfxFiles] \in
             [step : {"idle", "read", "fix", "bus", "pull"}, of : Nat, tree : Autofix!Tree \cup {AgtNone}, left : SUBSET N,
              files : SUBSET AfxFiles, report : SUBSET (AfxFiles \X Autofix!Rewritten), total : Nat]
      BY <1>0 DEF Autofix!Job, N
    <3> QED
      BY <1>3, <2>3, <3>1 DEF Autofix!Job, N
  <2>5. Autofix!TypeOK'
    BY <1>0, <1>1, <2>4 DEF Autofix!TypeOK
  <2>6. /\ Autofix!Findings' = Autofix!Findings /\ \A e : Autofix!Rule(e)' = Autofix!Rule(e)
        /\ AnalysisOf(afxJob.of)' = AnalysisOf(afxJob.of)
        /\ Autofix!Found(afxJob.of)' = Autofix!Found(afxJob.of)
    BY <1>1, <2>1 DEF Autofix!Findings, Autofix!Rule, Autofix!Sarif, Autofix!Present, Autofix!Directory, AnalysisOf, Autofix!Found, Autofix!Given
  <2>7. CopyBetween'
    <3>1. ASSUME NEW r \in Autofix!Found(afxJob.of)
          PROVE  \E e \in Autofix!Findings : Autofix!Rule(e) = r
      <4>0. \A i \in AfxNames : Autofix!Sarif[i] = Autofix!Given(afxJob.of, i)
        BY DirectoryGiven DEF Autofix!Sarif
      <4>1. PICK i \in Autofix!Present \ AfxNested :
              \E j \in DOMAIN Autofix!Sarif[i].rules : Autofix!Sarif[i].rules[j] = r
        BY <3>1, <4>0 DEF Autofix!Found, Autofix!Present
      <4>2. PICK j \in DOMAIN Autofix!Sarif[i].rules : Autofix!Sarif[i].rules[j] = r
        BY <4>1
      <4>3. <<i, j>> \in Autofix!Findings
        BY <4>1 DEF Autofix!Findings
      <4> QED
        BY <4>2, <4>3 DEF Autofix!Rule
    <3>2. \A f \in AfxFiles : afxJob'.tree[f] \subseteq AnalysisOf(afxJob.of)[f] /\ AnalysisOf(afxJob.of)[f] \ afxJob'.tree[f] = {}
      BY <2>1, <2>2
    <3> QED
      BY <2>1, <2>6, <3>1, <3>2 DEF CopyBetween
  <2>8. JobTells'
    BY <1>0, <1>1, <2>1, <2>6 DEF JobTells
  <2>9. CopyWhole' /\ BusChain'
    BY <1>1, <1>3, <2>1 DEF AutofixIInv, CopyWhole, BusChain
  <2> QED
    BY <1>1, <2>5, <2>7, <2>8, <2>9, PullsStay, SourcesStay DEF AutofixIInv
<1> QED
  BY <1>2, <1>3 DEF Autofix!Read, Autofix!Fail

(* The pattern of the finding in hand is taken from one file.              *)
LEMMA FixStep ==
    ASSUME Autofix!AutofixAssumption, AutofixIInv, Autofix!FixFile PROVE AutofixIInv'
<1>0. Autofix!TypeOK /\ JobTells /\ CopyBetween /\ afxJob \in Autofix!Job
  BY DEF AutofixIInv, Autofix!TypeOK
<1>1. afxJob.step = "fix" /\ UNCHANGED <<afxHead, afxAnalyses, afxPushed, afxPulls, afxEdits, afxJobs>>
  BY DEF Autofix!FixFile
<1>2. PICK e \in afxJob.left, f \in afxJob.files :
        /\ Autofix!First(e) /\ Autofix!Rule(e) \in Autofix!Rewritten
        /\ IF "odd" \in afxJob.tree[f] THEN Autofix!Fail
           ELSE Autofix!Fix(f, Autofix!Rule(e)) /\ UNCHANGED <<afxBus, afxHeard>>
  BY DEF Autofix!FixFile
<1>3. CASE afxJob' = Autofix!Idle
  BY <1>1, <1>3, JobAway
<1>4. CASE Autofix!Fix(f, Autofix!Rule(e)) /\ UNCHANGED <<afxBus, afxHeard>>
  <2>1. PICK r \in Autofix!Rewritten : r = Autofix!Rule(e)
    BY <1>2
  <2>2. PICK k \in DOMAIN afxAnalyses : k = afxJob.of
    BY <1>0, <1>1 DEF JobTells
  <2>3. PICK t \in Autofix!Tree : t = afxJob.tree
    BY <1>0, <1>1 DEF JobTells
  <2>4. PICK c \in Autofix!Tree : c = AnalysisOf(k)
    BY <1>0, AutofixFacts
  <2>5. f \in AfxFiles
    BY <1>0 DEF Autofix!Job
  <2> DEFINE u == [t EXCEPT ![f] = t[f] \ {r}]
  <2>6. /\ u \in Autofix!Tree /\ \A g \in AfxFiles : u[g] = IF g = f THEN t[g] \ {r} ELSE t[g]
        /\ r \notin t[f] => u = t
    BY <2>5 DEF Autofix!Tree
  <2> HIDE DEF u
  <2>7. /\ afxJob'.step = "fix" /\ afxJob'.left = afxJob.left /\ afxJob'.files = afxJob.files \ {f}
        /\ afxJob'.of = k
        /\ afxJob'.tree = u /\ afxJob' \in Autofix!Job
        /\ afxJob'.report = IF r \in t[f] THEN afxJob.report \cup {<<f, r>>} ELSE afxJob.report
        /\ afxJob'.total = IF r \in t[f] THEN afxJob.total + 1 ELSE afxJob.total
    <3>1. CASE r \in t[f]
      <4>1. afxJob' = [afxJob EXCEPT !.files = afxJob.files \ {f}, !.tree = u, !.total = afxJob.total + 1,
                                     !.report = afxJob.report \cup {<<f, r>>}]
        <5>1. afxJob' = [afxJob EXCEPT !.files = @ \ {f}, !.tree[f] = @ \ {r}, !.total = @ + 1, !.report = @ \cup {<<f, r>>}]
          BY <1>4, <2>1, <2>3, <3>1 DEF Autofix!Fix, Autofix!Replaced
        <5> QED
          BY <1>0, <2>3, <5>1 DEF u, Autofix!Job
      <4>2. /\ afxJob'.step = "fix" /\ afxJob'.left = afxJob.left
            /\ afxJob'.files = afxJob.files \ {f} /\ afxJob'.of = k
            /\ afxJob'.tree = u /\ afxJob'.report = afxJob.report \cup {<<f, r>>}
            /\ afxJob'.total = afxJob.total + 1
        BY <1>0, <1>1, <2>2, <4>1 DEF Autofix!Job
      <4>3. /\ afxJob.files \ {f} \in SUBSET AfxFiles /\ afxJob.total + 1 \in Nat
            /\ afxJob.report \cup {<<f, r>>} \in SUBSET (AfxFiles \X Autofix!Rewritten)
        BY <1>0, <2>5 DEF Autofix!Job
      <4>4. \A x \in SUBSET AfxFiles, y \in SUBSET (AfxFiles \X Autofix!Rewritten), m \in Nat, v \in Autofix!Tree :
              [afxJob EXCEPT !.files = x, !.tree = v, !.total = m, !.report = y] \in Autofix!Job
        BY <1>0 DEF Autofix!Job
      <4>5. afxJob' \in Autofix!Job
        BY <2>6, <4>1, <4>3, <4>4
      <4> QED
        BY <3>1, <4>2, <4>5
    <3>2. CASE r \notin t[f]
      <4>1. afxJob' = [afxJob EXCEPT !.files = afxJob.files \ {f}]
        BY <1>4, <2>1, <2>3, <3>2 DEF Autofix!Fix
      <4> QED
        BY <1>0, <1>1, <2>2, <2>3, <2>6, <3>2, <4>1 DEF Autofix!Job
    <3> QED
      BY <3>1, <3>2
  <2>8. Autofix!TypeOK'
    BY <1>0, <1>1, <2>7 DEF Autofix!TypeOK
  <2>9. /\ Autofix!Findings' = Autofix!Findings /\ \A o : Autofix!Rule(o)' = Autofix!Rule(o) /\ (Autofix!First(o)' <=> Autofix!First(o))
        /\ AnalysisOf(afxJob.of)' = c /\ Autofix!Found(afxJob.of)' = Autofix!Found(k)
    BY <1>1, <2>2, <2>4, <2>7 DEF Autofix!Findings, Autofix!Rule, Autofix!First, Autofix!Sarif, Autofix!Present, Autofix!Directory, AnalysisOf, Autofix!Found, Autofix!Given
  <2>10. r \in Autofix!Found(k) /\ \A o : Autofix!First(o) => o = e
    <3>1. e \in Autofix!Findings
      BY <1>0, <1>1, <1>2 DEF CopyBetween
    <3>2. r \in Autofix!Found(k)
      <4>0. \A i \in AfxNames : Autofix!Sarif[i] = Autofix!Given(afxJob.of, i)
        BY DirectoryGiven DEF Autofix!Sarif
      <4>1. PICK i \in Autofix!Present \ AfxNested : e \in {<<i, j>> : j \in DOMAIN Autofix!Sarif[i].rules}
        BY <3>1 DEF Autofix!Findings
      <4>2. PICK j \in DOMAIN Autofix!Sarif[i].rules : e = <<i, j>>
        BY <4>1
      <4>3. r = Autofix!Sarif[i].rules[j]
        BY <2>1, <4>2 DEF Autofix!Rule
      <4> QED
        BY <2>1, <2>2, <4>0, <4>1, <4>2, <4>3 DEF Autofix!Found, Autofix!Present
    <3>3. ASSUME NEW o, Autofix!First(o) PROVE o = e
      <4>1. o \in Nat \X Nat /\ e \in Nat \X Nat /\ o \in afxJob.left /\ e \in afxJob.left
        BY <1>0, <1>2, <3>3 DEF Autofix!First, Autofix!Job
      <4>2. /\ e[1] < o[1] \/ (e[1] = o[1] /\ e[2] <= o[2])
            /\ o[1] < e[1] \/ (o[1] = e[1] /\ o[2] <= e[2])
        BY <1>2, <3>3, <4>1 DEF Autofix!First
      <4>3. e[1] \in Nat /\ e[2] \in Nat /\ o[1] \in Nat /\ o[2] \in Nat /\ e = <<e[1], e[2]>>
              /\ o = <<o[1], o[2]>>
        BY <4>1
      <4>4. e[1] = o[1] /\ e[2] = o[2]
        BY <4>2, <4>3
      <4> QED
        BY <4>3, <4>4
    <3> QED
      BY <3>2, <3>3
  <2>11. CopyBetween'
    <3>0. /\ afxJob.left \subseteq Autofix!Findings
          /\ \A g \in AfxFiles :
               /\ t[g] \subseteq c[g] /\ c[g] \ t[g] \subseteq Autofix!Found(k)
               /\ \A x \in Autofix!Found(k) \cap t[g] :
                    \E o \in afxJob.left : Autofix!Rule(o) = x /\ (g \notin afxJob.files => ~Autofix!First(o))
      BY <1>0, <1>1, <2>2, <2>3, <2>4 DEF CopyBetween
    <3>1. ASSUME NEW g \in AfxFiles
          PROVE  /\ u[g] \subseteq c[g] /\ c[g] \ u[g] \subseteq Autofix!Found(k)
                 /\ \A x \in Autofix!Found(k) \cap u[g] :
                      \E o \in afxJob.left : Autofix!Rule(o) = x /\ (g \notin afxJob.files \ {f} => ~Autofix!First(o))
      <4>1. CASE g # f
        BY <2>6, <3>0, <4>1
      <4>2. CASE g = f
        <5>1. u[g] \subseteq c[g] /\ c[g] \ u[g] \subseteq Autofix!Found(k)
          BY <2>5, <2>6, <2>10, <3>0, <4>2
        <5>2. ASSUME NEW x \in Autofix!Found(k) \cap u[g]
              PROVE  \E o \in afxJob.left : Autofix!Rule(o) = x /\ ~Autofix!First(o)
          <6>1. x \in t[g] /\ x # r
            BY <2>6, <4>2, <5>2
          <6>2. PICK o \in afxJob.left : Autofix!Rule(o) = x
            BY <3>0, <6>1
          <6> QED
            BY <2>1, <2>10, <6>1, <6>2
        <5> QED
          BY <5>1, <5>2
      <4> QED
        BY <4>1, <4>2
    <3> QED
      BY <2>7, <2>9, <3>0, <3>1 DEF CopyBetween
  <2>12. JobTells'
    <3>1. afxJob.report = Changed(t, c) /\ afxJob.total = Cardinality(Changed(t, c))
      BY <1>0, <1>1, <2>2, <2>3, <2>4 DEF JobTells
    <3>2. CASE r \in t[f]
      <4>1. r \in c[f]
        BY <1>0, <1>1, <2>2, <2>3, <2>4, <2>5, <3>2 DEF CopyBetween
      <4>2. Changed(u, c) = Changed(t, c) \cup {<<f, r>>} /\ <<f, r>> \notin Changed(t, c)
        <5>1. <<f, r>> \notin Changed(t, c) /\ <<f, r>> \in Changed(u, c)
          BY <2>5, <2>6, <3>2, <4>1 DEF Changed
        <5>2. \A x \in AfxFiles \X Autofix!Rewritten : x # <<f, r>> =>
                (x \in Changed(u, c) <=> x \in Changed(t, c))
          <6> SUFFICES ASSUME NEW g \in AfxFiles, NEW q \in Autofix!Rewritten, <<g, q>> # <<f, r>>
                       PROVE  <<g, q>> \in Changed(u, c) <=> <<g, q>> \in Changed(t, c)
            OBVIOUS
          <6>1. q \in u[g] <=> q \in t[g]
            BY <2>6
          <6> QED
            BY <6>1 DEF Changed
        <5>3. Changed(u, c) \subseteq AfxFiles \X Autofix!Rewritten
                /\ Changed(t, c) \subseteq AfxFiles \X Autofix!Rewritten
          BY DEF Changed
        <5> QED
          BY <5>1, <5>2, <5>3
      <4>3. Cardinality(Changed(u, c)) = Cardinality(Changed(t, c)) + 1
        BY <4>2, ChangesFinite, FS_AddElement
      <4> QED
        BY <1>1, <2>2, <2>6, <2>7, <2>9, <3>1, <3>2, <4>2, <4>3 DEF JobTells
    <3>3. CASE r \notin t[f]
      BY <1>1, <2>2, <2>6, <2>7, <2>9, <3>1, <3>3 DEF JobTells
    <3> QED
      BY <3>2, <3>3
  <2>13. CopyWhole' /\ BusChain'
    BY <1>1, <1>4, <2>7 DEF AutofixIInv, CopyWhole, BusChain
  <2> QED
    BY <1>1, <2>8, <2>11, <2>12, <2>13, PullsStay, SourcesStay DEF AutofixIInv
<1> QED
  BY <1>2, <1>3, <1>4 DEF Autofix!Fail

LEMMA NextFindingStep ==
    ASSUME Autofix!AutofixAssumption, AutofixIInv, Autofix!NextFinding PROVE AutofixIInv'
<1>0. Autofix!TypeOK /\ JobTells /\ CopyBetween /\ afxJob \in Autofix!Job
  BY DEF AutofixIInv, Autofix!TypeOK
<1>1. afxJob.step = "fix" /\ UNCHANGED <<afxHead, afxAnalyses, afxPushed, afxPulls, afxEdits, afxJobs>>
  BY DEF Autofix!NextFinding
<1>2. PICK e \in afxJob.left : /\ Autofix!First(e) /\ (afxJob.files = {} \/ Autofix!Rule(e) \notin Autofix!Rewritten)
                              /\ afxJob' = [afxJob EXCEPT !.left = afxJob.left \ {e}, !.files = AfxFiles]
                              /\ UNCHANGED afxHeard
  BY DEF Autofix!NextFinding
<1>3. /\ afxJob'.step = "fix" /\ afxJob'.left = afxJob.left \ {e} /\ afxJob'.files = AfxFiles
      /\ afxJob'.of = afxJob.of
      /\ afxJob'.tree = afxJob.tree /\ afxJob'.report = afxJob.report
      /\ afxJob'.total = afxJob.total /\ afxJob' \in Autofix!Job
  BY <1>0, <1>1, <1>2 DEF Autofix!Job
<1>4. Autofix!TypeOK'
  BY <1>0, <1>1, <1>3 DEF Autofix!TypeOK
<1>5. /\ Autofix!Findings' = Autofix!Findings /\ \A o : Autofix!Rule(o)' = Autofix!Rule(o)
      /\ AnalysisOf(afxJob.of)' = AnalysisOf(afxJob.of)
      /\ Autofix!Found(afxJob.of)' = Autofix!Found(afxJob.of)
  BY <1>1, <1>3 DEF Autofix!Findings, Autofix!Rule, Autofix!Sarif, Autofix!Present, Autofix!Directory, AnalysisOf, Autofix!Found, Autofix!Given
<1>6. CopyBetween'
  <2>1. ASSUME NEW f \in AfxFiles, NEW r \in Autofix!Found(afxJob.of) \cap afxJob.tree[f]
        PROVE  \E o \in afxJob.left \ {e} : Autofix!Rule(o) = r
    <3>1. PICK o \in afxJob.left : Autofix!Rule(o) = r /\ (f \notin afxJob.files => ~Autofix!First(o))
      BY <1>0, <1>1, <2>1 DEF CopyBetween
    <3>2. r \in Autofix!Rewritten
      BY DEF Autofix!Found
    <3>3. o # e
      BY <1>2, <3>1, <3>2
    <3> QED
      BY <3>1, <3>3
  <2>2. /\ afxJob.left \subseteq Autofix!Findings
        /\ \A f \in AfxFiles : /\ afxJob.tree[f] \subseteq AnalysisOf(afxJob.of)[f]
                              /\ AnalysisOf(afxJob.of)[f] \ afxJob.tree[f] \subseteq Autofix!Found(afxJob.of)
    BY <1>0, <1>1 DEF CopyBetween
  <2> QED
    BY <1>3, <1>5, <2>1, <2>2 DEF CopyBetween
<1>7. JobTells'
  BY <1>0, <1>1, <1>3, <1>5 DEF JobTells
<1>8. CopyWhole' /\ BusChain'
  BY <1>1, <1>2, <1>3 DEF AutofixIInv, CopyWhole, BusChain
<1> QED
  BY <1>1, <1>4, <1>6, <1>7, <1>8, PullsStay, SourcesStay DEF AutofixIInv

LEMMA PublishStep ==
    ASSUME Autofix!AutofixAssumption, AutofixIInv, Autofix!Publish PROVE AutofixIInv'
<1> SUFFICES ASSUME afxJob' # Autofix!Idle PROVE AutofixIInv'
  BY JobAway DEF Autofix!Publish
<1>0. Autofix!TypeOK /\ JobTells /\ CopyBetween /\ afxJob \in Autofix!Job
  BY DEF AutofixIInv, Autofix!TypeOK
<1> DEFINE file == Autofix!Sarif[Autofix!Leading]
<1>1. /\ afxJob.step = "fix" /\ afxJob.left = {}
      /\ UNCHANGED <<afxHead, afxAnalyses, afxPushed, afxPulls, afxEdits, afxJobs, afxHeard>>
      /\ afxJob' = [afxJob EXCEPT !.step = "bus"]
      /\ afxBus' = [queue |-> <<[topic |-> "repo.pushed", body |-> file]>>, history |-> <<"repo.pushed">>]
  BY DEF Autofix!Publish, Autofix!Fail
<1> HIDE DEF file
<1>2. /\ afxJob'.step = "bus" /\ afxJob'.of = afxJob.of /\ afxJob'.tree = afxJob.tree
      /\ afxJob'.report = afxJob.report
      /\ afxJob'.total = afxJob.total /\ afxJob' \in Autofix!Job
  BY <1>0, <1>1 DEF Autofix!Job
<1>3. Autofix!TypeOK'
  BY <1>0, <1>1, <1>2 DEF Autofix!TypeOK
<1>4. AnalysisOf(afxJob.of)' = AnalysisOf(afxJob.of)
        /\ Autofix!Found(afxJob.of)' = Autofix!Found(afxJob.of)
  BY <1>1, <1>2 DEF AnalysisOf, Autofix!Found, Autofix!Given
<1>5. CopyWhole'
  <2>1. \A f \in AfxFiles : /\ afxJob.tree[f] \subseteq AnalysisOf(afxJob.of)[f]
                            /\ AnalysisOf(afxJob.of)[f] \ afxJob.tree[f] \subseteq Autofix!Found(afxJob.of)
                            /\ Autofix!Found(afxJob.of) \cap afxJob.tree[f] = {}
    BY <1>0, <1>1 DEF CopyBetween
  <2>2. \A f \in AfxFiles : afxJob.tree[f] = AnalysisOf(afxJob.of)[f] \ Autofix!Found(afxJob.of)
    BY <2>1
  <2> QED
    BY <1>2, <1>4, <2>2 DEF CopyWhole
<1>6. JobTells'
  BY <1>0, <1>1, <1>2, <1>4 DEF JobTells
<1>7. BusChain'
  <2>1. Passed(1, <<"repo.pushed">>)
    BY FirstPassed
  <2>2. afxBus'.history = <<"repo.pushed">>
          /\ afxBus'.queue = Autofix!Event(afxBus'.history[1], file)
    BY <1>1 DEF Autofix!Event
  <2>3. afxHeard' = HeardOf(TopicsBefore(1))
    <3>1. TopicsBefore(1) = {}
      BY DEF TopicsBefore
    <3>2. afxHeard = {}
      BY <1>1 DEF AutofixIInv, BusChain
    <3> QED
      BY <1>1, <3>1, <3>2 DEF HeardOf
  <2>4. \E body : afxBus'.queue = Autofix!Event(afxBus'.history[1], body)
    BY <2>2
  <2> QED
    BY <1>2, <2>1, <2>2, <2>3, <2>4 DEF BusChain, BusAt
<1>8. CopyBetween'
  BY <1>2 DEF CopyBetween
<1> QED
  BY <1>1, <1>3, <1>5, <1>6, <1>7, <1>8, PullsStay, SourcesStay DEF AutofixIInv

(* The next event of the chain: who hears it, and what it is answered with.*)
LEMMA DispatchStep ==
    ASSUME Autofix!AutofixAssumption, AutofixIInv, Autofix!Dispatch PROVE AutofixIInv'
<1>0. Autofix!TypeOK /\ JobTells /\ BusChain
  BY DEF AutofixIInv
<1>1. /\ afxJob.step = "bus" /\ afxBus.queue # <<>>
      /\ UNCHANGED <<afxHead, afxAnalyses, afxPushed, afxPulls, afxEdits, afxJobs>>
  BY DEF Autofix!Dispatch
<1> DEFINE event == Head(afxBus.queue)
           new == Autofix!Answer(event)
<1>2. \/ afxJob' = Autofix!Idle
      \/ /\ afxBus' = [queue |-> Tail(afxBus.queue) \o new, history |-> afxBus.history \o [i \in DOMAIN new |-> new[i].topic]]
         /\ afxHeard' = afxHeard \cup {<<a, event.topic>> : a \in Autofix!Subscribers(event.topic)}
         /\ UNCHANGED afxJob
  BY DEF Autofix!Dispatch, Autofix!Fail
<1>3. CASE afxJob' = Autofix!Idle
  BY <1>1, <1>3, JobAway
<1>4. CASE /\ afxBus' = [queue |-> Tail(afxBus.queue) \o new, history |-> afxBus.history \o [i \in DOMAIN new |-> new[i].topic]]
           /\ afxHeard' = afxHeard \cup {<<a, event.topic>> : a \in Autofix!Subscribers(event.topic)}
           /\ UNCHANGED afxJob
  <2>1. PICK n \in 1..7 : BusAt(n)
    BY <1>0, <1>1 DEF BusChain
  <2>2. PICK body : afxBus.queue = Autofix!Event(afxBus.history[n], body)
    BY <1>1, <2>1 DEF BusAt
  <2>3. event.topic = afxBus.history[n] /\ Tail(afxBus.queue) = <<>>
    BY <2>2, EventParts
  <2>4. Passed(n, afxBus.history) /\ afxHeard = HeardOf(TopicsBefore(n))
    BY <2>1 DEF BusAt
  <2>5. afxBus'.queue = Tail(afxBus.queue) \o new
          /\ afxBus'.history = afxBus.history \o [i \in DOMAIN new |-> new[i].topic]
    BY <1>4
  <2>6. afxHeard' = afxHeard \cup {<<a, event.topic>> : a \in Autofix!Subscribers(event.topic)}
    BY <1>4
  <2> HIDE DEF new, event
  <2>8. \E m \in 1..7 : BusAt(m)'
    <3>1. CASE n \in 1..6
      <4>1. event.topic = Topics[n]
        BY <2>3, <2>4, <3>1 DEF Passed
      <4>2. PICK t, b : new = Autofix!Event(t, b) /\ t \in Names /\ (IF n = 6 THEN t \in Autofix!Verdicts ELSE t = Topics[n + 1])
        BY <3>1, <4>1, ChainAnswers DEF new
      <4>3. afxBus'.queue = Autofix!Event(t, b) /\ afxBus'.history = afxBus.history \o <<t>>
        <5>1. <<>> \o new = new /\ [i \in DOMAIN new |-> new[i].topic] = <<t>>
          BY <4>2, EventJoins
        <5> QED
          BY <2>3, <2>5, <4>2, <5>1
      <4>4. Passed(n + 1, afxBus'.history) /\ afxBus'.history[n + 1] = t
        <5>1. Passed(n + 1, afxBus.history \o <<t>>) /\ (afxBus.history \o <<t>>)[n + 1] = t
          BY <2>4, <3>1, <4>2, PassOn
        <5> QED
          BY <4>3, <5>1
      <4>5. afxHeard' = HeardOf(TopicsBefore(n + 1))
        BY <2>4, <2>6, <3>1, <4>1, HearOn
      <4>6. BusAt(n + 1)'
        BY <1>1, <1>4, <4>3, <4>4, <4>5 DEF BusAt
      <4>7. n + 1 \in 1..7
        BY <3>1
      <4> QED
        BY <4>6, <4>7
    <3>2. CASE n = 7
      <4>1. event.topic \in Autofix!Verdicts
        BY <2>3, <2>4, <3>2 DEF Passed
      <4>2. new = <<>> /\ Autofix!Subscribers(event.topic) = {}
        BY <4>1, ChainGoesOn, WhoHears DEF new
      <4>3. afxBus'.queue = <<>> /\ afxBus'.history = afxBus.history
        <5>1. afxBus.history \in Seq(Names)
          BY <2>4 DEF Passed
        <5> QED
          BY <2>3, <2>5, <4>2, <5>1, NothingJoins
      <4>4. afxHeard' = afxHeard
        BY <2>6, <4>2
      <4> QED
        BY <2>4, <3>2, <4>3, <4>4 DEF BusAt
    <3>3. n \in 1..6 \/ n = 7
      OBVIOUS
    <3> QED
      BY <3>1, <3>2, <3>3
  <2>9. BusChain'
    BY <1>1, <1>4, <2>8 DEF BusChain
  <2>10. Autofix!TypeOK'
    BY <1>0, <1>1, <1>4 DEF Autofix!TypeOK
  <2>11. CopyBetween' /\ CopyWhole' /\ JobTells'
    <3>1. \A k : AnalysisOf(k)' = AnalysisOf(k) /\ Autofix!Found(k)' = Autofix!Found(k)
      BY <1>1 DEF AnalysisOf, Autofix!Found, Autofix!Given
    <3>2. CopyBetween'
      BY <1>1, <1>4 DEF CopyBetween
    <3>3. CopyWhole'
      BY <1>1, <1>4, <3>1 DEF AutofixIInv, CopyWhole
    <3>4. JobTells'
      BY <1>0, <1>1, <1>4, <3>1 DEF JobTells
    <3> QED
      BY <3>2, <3>3, <3>4
  <2> QED
    BY <1>1, <2>9, <2>10, <2>11, PullsStay, SourcesStay DEF AutofixIInv
<1> QED
  BY <1>2, <1>3, <1>4

LEMMA CommitStep ==
    ASSUME Autofix!AutofixAssumption, AutofixIInv, Autofix!Commit PROVE AutofixIInv'
<1>0. Autofix!TypeOK /\ JobTells /\ BusChain /\ CopyWhole /\ Autofix!PushedIsRemedy
        /\ Autofix!PullTells /\ afxJob \in Autofix!Job
  BY DEF AutofixIInv, Autofix!TypeOK
<1>1. /\ afxJob.step = "bus" /\ afxBus.queue = <<>>
      /\ UNCHANGED <<afxHead, afxAnalyses, afxPulls, afxEdits, afxJobs>>
  BY DEF Autofix!Commit
<1> DEFINE copy == [code |-> afxJob.tree, sarif |-> Autofix!Sarif]
           old == afxAnalyses[afxJob.of].commit
           tracked == old.sarif # Autofix!Nothing
<1>2. \/ afxJob' = Autofix!Idle /\ UNCHANGED afxPushed
      \/ /\ afxPushed' = [afxPushed EXCEPT ![afxJob.of] = copy] /\ (tracked \/ afxJob.tree # old.code)
         /\ afxJob' = [afxJob EXCEPT !.step = "pull"] /\ UNCHANGED <<afxBus, afxHeard>>
  <2>1. (\E n \in AfxNames : old.sarif[n] \notin {AgtNone, Autofix!Sarif[n]}) => tracked
    BY DEF Autofix!Nothing
  <2> QED
    BY <2>1 DEF Autofix!Commit, Autofix!Fail
<1>3. CASE afxJob' = Autofix!Idle /\ UNCHANGED afxPushed
  BY <1>1, <1>3, JobAway
<1>4. CASE /\ afxPushed' = [afxPushed EXCEPT ![afxJob.of] = copy] /\ (tracked \/ afxJob.tree # old.code)
           /\ afxJob' = [afxJob EXCEPT !.step = "pull"] /\ UNCHANGED <<afxBus, afxHeard>>
  <2>1. PICK k \in DOMAIN afxAnalyses : k = afxJob.of
    BY <1>0, <1>1 DEF JobTells
  <2>2. PICK t \in Autofix!Tree : t = afxJob.tree
    BY <1>0, <1>1 DEF JobTells
  <2>a. PICK c \in Autofix!Commits : c = copy /\ c.code = t /\ \A m \in AfxNames : c.sarif[m] = Autofix!Given(k, m)
    <3>1. Autofix!Sarif \in Autofix!Kept
      BY <1>0, <2>1, AutofixFacts DEF Autofix!Sarif
    <3>2. copy \in Autofix!Commits /\ copy.code = t /\ copy.sarif = Autofix!Sarif
      BY <2>2, <3>1 DEF Autofix!Commits
    <3> QED
      BY <2>1, <3>2, DirectoryGiven DEF Autofix!Sarif
  <2>b. afxAnalyses[k].commit.sarif # Autofix!Nothing \/ t # AnalysisOf(k)
    BY <1>4, <2>1, <2>2 DEF AnalysisOf
  <2> HIDE DEF copy, old, tracked
  <2>3. /\ afxJob'.step = "pull" /\ afxJob'.of = k /\ afxJob'.tree = t /\ afxJob'.report = afxJob.report
        /\ afxJob'.total = afxJob.total /\ afxJob' \in Autofix!Job
    BY <1>0, <1>4, <2>1, <2>2 DEF Autofix!Job
  <2>4. \A j : AnalysisOf(j)' = AnalysisOf(j) /\ Autofix!Found(j)' = Autofix!Found(j)
    BY <1>1 DEF AnalysisOf, Autofix!Found, Autofix!Given
  <2>5. DOMAIN afxPushed = DOMAIN afxAnalyses /\ AgtNone \notin Autofix!Commits
    BY <1>0, AutofixFacts
  <2>6. DOMAIN afxPushed' = DOMAIN afxPushed
          /\ \A j \in DOMAIN afxPushed : afxPushed'[j] = IF j = k THEN c ELSE afxPushed[j]
    BY <1>4, <2>1, <2>a, <2>5
  <2>7. Autofix!TypeOK'
    <3> DEFINE P == Autofix!Commits \cup {AgtNone}
    <3>1. afxPushed \in Seq(P) /\ c \in P /\ k \in DOMAIN afxPushed
      BY <1>0, <2>5 DEF Autofix!TypeOK
    <3> HIDE DEF P
    <3>2. afxPushed' = [afxPushed EXCEPT ![k] = c]
      BY <1>4, <2>1, <2>a
    <3>3. afxPushed' \in Seq(P) /\ Len(afxPushed') = Len(afxPushed)
      BY <3>1, <3>2
    <3> QED
      BY <1>0, <1>1, <2>3, <3>3 DEF Autofix!TypeOK, P
  <2>8. \A f \in AfxFiles : t[f] = AnalysisOf(k)[f] \ Autofix!Found(k)
    BY <1>0, <1>1, <2>1, <2>2 DEF CopyWhole
  <2>9. Autofix!PushedIsRemedy'
    <3> SUFFICES ASSUME NEW j \in DOMAIN afxPushed, afxPushed'[j] # AgtNone
                 PROVE  /\ \A f \in AfxFiles : afxPushed'[j].code[f] = AnalysisOf(j)[f] \ Autofix!Found(j)
                        /\ \A m \in AfxNames : afxPushed'[j].sarif[m] = Autofix!Given(j, m)
                        /\ afxPushed'[j].code = AnalysisOf(j) => afxAnalyses[j].commit.sarif # Autofix!Nothing
      <4>1. \A j, m : Autofix!Given(j, m)' = Autofix!Given(j, m)
        BY <1>1 DEF Autofix!Given
      <4> QED
        BY <1>1, <2>4, <2>6, <4>1 DEF Autofix!PushedIsRemedy, AnalysisOf, Autofix!Nothing
    <3>1. CASE j = k
      BY <2>6, <2>8, <2>a, <2>b, <3>1
    <3>2. CASE j # k
      BY <1>0, <2>6, <3>2 DEF Autofix!PushedIsRemedy, AnalysisOf
    <3> QED
      BY <3>1, <3>2
  <2>10. afxPushed[k] # AgtNone => afxPushed[k].code = t
    <3> SUFFICES ASSUME afxPushed[k] # AgtNone PROVE afxPushed[k].code = t
      OBVIOUS
    <3>1. afxPushed[k] \in Autofix!Commits
      BY <1>0, <2>5, AutofixFacts
    <3>2. \A f \in AfxFiles : afxPushed[k].code[f] = t[f]
      BY <1>0, <2>5, <2>8 DEF Autofix!PushedIsRemedy, AnalysisOf
    <3>3. afxPushed[k].code \in Autofix!Tree
      BY <3>1 DEF Autofix!Commits
    <3> QED
      BY <3>2, <3>3 DEF Autofix!Tree
  <2>11. Autofix!PullTells'
    <3> SUFFICES ASSUME NEW p \in afxPulls
                 PROVE  /\ afxPushed'[p.of] # AgtNone /\ p.report = Autofix!Removed(p.of)'
                        /\ p.total = Cardinality(Autofix!Removed(p.of)')
      BY <1>1, AutofixCount DEF Autofix!PullTells
    <3>1. p.of \in DOMAIN afxPushed
      BY <1>0, <2>5 DEF Autofix!TypeOK
    <3>2. /\ afxPushed[p.of] # AgtNone /\ p.report = Autofix!Removed(p.of)
          /\ p.total = Cardinality(Autofix!Removed(p.of))
      BY <1>0, AutofixCount DEF Autofix!PullTells
    <3>3. afxPushed'[p.of] # AgtNone /\ afxPushed'[p.of].code = afxPushed[p.of].code
      BY <2>5, <2>6, <2>10, <2>a, <3>1, <3>2
    <3>4. Autofix!Removed(p.of)' = Autofix!Removed(p.of)
      BY <1>1, <3>3 DEF Autofix!Removed
    <3> QED
      BY <3>2, <3>3, <3>4
  <2>12. JobTells'
    <3>1. afxJob.report = Changed(t, AnalysisOf(k)) /\ afxJob.total = Cardinality(afxJob.report)
      BY <1>0, <1>1, <2>1, <2>2 DEF JobTells
    <3>2. AnalysisOf(afxJob.of)' = AnalysisOf(k)
      BY <1>1, <2>3 DEF AnalysisOf
    <3>3. afxPushed'[k] \in Autofix!Commits /\ afxPushed'[k].code = t
      BY <2>5, <2>6, <2>a
    <3> QED
      BY <1>1, <2>3, <3>1, <3>2, <3>3 DEF JobTells
  <2>13. CopyWhole' /\ CopyBetween'
    <3>1. AnalysisOf(afxJob.of)' = AnalysisOf(k) /\ Autofix!Found(afxJob.of)' = Autofix!Found(k)
      BY <1>1, <2>3 DEF AnalysisOf, Autofix!Found, Autofix!Given
    <3>2. CopyWhole'
      BY <2>3, <2>8, <3>1 DEF CopyWhole
    <3> QED
      BY <2>3, <3>2 DEF CopyBetween
  <2>14. BusChain'
    <3>1. PICK n \in 1..7 : BusAt(n)
      BY <1>0, <1>1 DEF BusChain
    <3>2. \A topic, body : Autofix!Event(topic, body) # <<>>
      BY DEF Autofix!Event
    <3>3. n = 7
      BY <1>1, <3>1, <3>2 DEF BusAt
    <3>4. BusAt(n)'
      BY <1>1, <1>4, <3>1, <3>3 DEF BusAt
    <3> QED
      BY <2>3, <3>4 DEF BusChain
  <2> QED
    BY <1>1, <2>7, <2>9, <2>11, <2>12, <2>13, <2>14, SourcesStay DEF AutofixIInv
<1> QED
  BY <1>2, <1>3, <1>4

(* A pull request is offered with the report of the job that pushed.       *)
LEMMA PullStep ==
    ASSUME Autofix!AutofixAssumption, AutofixIInv, Autofix!Pull PROVE AutofixIInv'
<1>0. Autofix!TypeOK /\ JobTells /\ Autofix!PushedIsRemedy /\ Autofix!PullTells
        /\ afxJob \in Autofix!Job
  BY DEF AutofixIInv, Autofix!TypeOK
<1> DEFINE new == [of |-> afxJob.of, report |-> afxJob.report, total |-> afxJob.total, open |-> TRUE]
           k == afxJob.of
<1>1. /\ afxJob.step = "pull" /\ afxJob' = Autofix!Idle /\ afxPulls \subseteq afxPulls'
      /\ afxPulls' \subseteq afxPulls \cup {new}
      /\ UNCHANGED <<afxHead, afxAnalyses, afxPushed, afxEdits, afxJobs>>
  BY DEF Autofix!Pull, Autofix!Fail
<1>2. k \in DOMAIN afxAnalyses /\ afxJob.tree \in Autofix!Tree /\ afxPushed[k] \in Autofix!Commits
      /\ afxPushed[k].code = afxJob.tree
      /\ afxJob.report = Changed(afxJob.tree, AnalysisOf(k))
      /\ afxJob.total = Cardinality(afxJob.report)
  BY <1>0, <1>1 DEF JobTells
<1>3. afxPushed[k] # AgtNone
  BY <1>0, <1>2, AutofixFacts
<1>4. Changed(afxJob.tree, AnalysisOf(k)) = Autofix!Removed(k)
  BY <1>2 DEF Changed, AnalysisOf, Autofix!Removed
<1>5. new \in [of : DOMAIN afxAnalyses, report : SUBSET (AfxFiles \X Autofix!Rewritten), total : Nat, open : BOOLEAN]
  BY <1>0, <1>2 DEF Autofix!Job
<1>6. new.of = k /\ new.report = Autofix!Removed(k) /\ new.total = Cardinality(Autofix!Removed(k))
  BY <1>2, <1>4
<1> HIDE DEF new
<1>7. Autofix!TypeOK'
  <2>1. afxJob' \in Autofix!Job
    BY <1>1, IdleSays
  <2>2. afxPulls' \subseteq [of : DOMAIN afxAnalyses, report : SUBSET (AfxFiles \X Autofix!Rewritten), total : Nat, open : BOOLEAN]
    BY <1>0, <1>1, <1>5 DEF Autofix!TypeOK
  <2> QED
    BY <1>0, <1>1, <2>1, <2>2 DEF Autofix!TypeOK
<1>8. \A j : Autofix!Found(j)' = Autofix!Found(j) /\ Autofix!Removed(j)' = Autofix!Removed(j)
  BY <1>1 DEF Autofix!Found, Autofix!Given, Autofix!Removed
<1>9. Autofix!PushedIsRemedy'
  BY <1>0, <1>1, <1>8 DEF Autofix!PushedIsRemedy, Autofix!Given, Autofix!Nothing
<1>11. Autofix!ReportsSourced'
  BY <1>1 DEF AutofixIInv, Autofix!ReportsSourced, Autofix!Sourced
<1>10. Autofix!PullTells'
  <2> SUFFICES ASSUME NEW p \in afxPulls'
               PROVE  /\ afxPushed[p.of] # AgtNone /\ p.report = Autofix!Removed(p.of)
                      /\ p.total = Cardinality(Autofix!Removed(p.of))
    BY <1>1, <1>8, AutofixCount DEF Autofix!PullTells
  <2>1. CASE p \in afxPulls
    BY <1>0, <2>1, AutofixCount DEF Autofix!PullTells
  <2>2. CASE p = new
    BY <1>3, <1>6, <2>2
  <2> QED
    BY <1>1, <2>1, <2>2
<1> QED
  BY <1>1, <1>7, <1>9, <1>10, <1>11, IdleSays DEF AutofixIInv

LEMMA EditStep ==
    ASSUME Autofix!AutofixAssumption, AutofixIInv, Autofix!Edit PROVE AutofixIInv'
<1>0. Autofix!TypeOK /\ Autofix!ReportsSourced
  BY DEF AutofixIInv
<1>1. afxEdits < AfxMaxEdits /\ afxEdits' = afxEdits + 1
        /\ UNCHANGED <<afxAnalyses, afxPushed, afxPulls, afxJob, afxBus, afxHeard, afxJobs>>
  BY DEF Autofix!Edit, Autofix!jobVars
<1>2. afxHead \in Autofix!Commits /\ afxHead.code \in Autofix!Tree /\ Autofix!Nothing \in Autofix!Kept
  BY <1>0 DEF Autofix!TypeOK, Autofix!Commits, Autofix!Kept, Autofix!Nothing
<1>3. afxHead' \in Autofix!Commits /\ afxHead'.sarif \in {afxHead.sarif, Autofix!Nothing}
  <2>1. ASSUME NEW f \in AfxFiles, NEW r \in Autofix!Rewritten \cup {"odd"}, NEW c,
               c = [afxHead.code EXCEPT ![f] = IF r \in @ THEN @ \ {r} ELSE @ \cup {r}],
               afxHead' = [afxHead EXCEPT !.code = c]
        PROVE  afxHead' \in Autofix!Commits /\ afxHead'.sarif = afxHead.sarif
    <3>1. c \in Autofix!Tree
      BY <1>2, <2>1 DEF Autofix!Tree
    <3> QED
      BY <1>2, <2>1, <3>1 DEF Autofix!Commits
  <2>2. ASSUME afxHead' = [afxHead EXCEPT !.sarif = Autofix!Nothing]
        PROVE  afxHead' \in Autofix!Commits /\ afxHead'.sarif = Autofix!Nothing
    BY <1>2, <2>2 DEF Autofix!Commits
  <2>3. CASE \E f \in AfxFiles, r \in Autofix!Rewritten \cup {"odd"} :
               afxHead' = [afxHead EXCEPT !.code[f] = IF r \in @ THEN @ \ {r} ELSE @ \cup {r}]
    <3>1. PICK f \in AfxFiles, r \in Autofix!Rewritten \cup {"odd"} :
            afxHead' = [afxHead EXCEPT !.code[f] = IF r \in @ THEN @ \ {r} ELSE @ \cup {r}]
      BY <2>3
    <3>2. PICK c : c = [afxHead.code EXCEPT ![f] = IF r \in @ THEN @ \ {r} ELSE @ \cup {r}]
      OBVIOUS
    <3>3. afxHead' = [afxHead EXCEPT !.code = c]
      BY <1>2, <3>1, <3>2 DEF Autofix!Commits
    <3> QED
      BY <2>1, <3>2, <3>3
  <2> QED
    BY <2>2, <2>3 DEF Autofix!Edit
<1>4. afxEdits' \in 0..AfxMaxEdits
  BY <1>0, <1>1 DEF Autofix!TypeOK, Autofix!AutofixAssumption
<1>5. Autofix!TypeOK'
  BY <1>0, <1>1, <1>3, <1>4 DEF Autofix!TypeOK
<1>6. Autofix!ReportsSourced'
  BY <1>0, <1>1, <1>3 DEF Autofix!ReportsSourced, Autofix!Sourced, Autofix!Nothing
<1> QED
  BY <1>1, <1>5, <1>6, PullsStay, JobStays DEF AutofixIInv

LEMMA MergeStep ==
    ASSUME Autofix!AutofixAssumption, AutofixIInv, Autofix!Merge PROVE AutofixIInv'
<1>0. Autofix!TypeOK /\ Autofix!PushedIsRemedy /\ Autofix!PullTells /\ Autofix!ReportsSourced
  BY DEF AutofixIInv
<1> DEFINE R == [of : DOMAIN afxAnalyses, report : SUBSET (AfxFiles \X Autofix!Rewritten), total : Nat, open : BOOLEAN]
           code(p) == [f \in AfxFiles |-> afxHead.code[f] \ (afxAnalyses[p.of].commit.code[f] \ afxPushed[p.of].code[f])]
           sarif(p, taken) == [n \in AfxNames |-> IF n \in taken THEN afxPushed[p.of].sarif[n] ELSE afxHead.sarif[n]]
<1>1. PICK p \in afxPulls :
        /\ afxPulls' = (afxPulls \ {p}) \cup {[p EXCEPT !.open = FALSE]}
        /\ \E taken : /\ taken \subseteq {n \in AfxNames : afxPushed[p.of].sarif[n] # afxAnalyses[p.of].commit.sarif[n]}
                      /\ afxHead' = [code |-> code(p), sarif |-> sarif(p, taken)]
  BY DEF Autofix!Merge
<1>a. PICK taken : /\ taken \subseteq {n \in AfxNames : afxPushed[p.of].sarif[n] # afxAnalyses[p.of].commit.sarif[n]}
                   /\ afxHead' = [code |-> code(p), sarif |-> sarif(p, taken)]
  BY <1>1
<1>2. UNCHANGED <<afxAnalyses, afxPushed, afxEdits, afxJob, afxBus, afxHeard, afxJobs>>
  BY DEF Autofix!Merge, Autofix!jobVars
<1>3. p \in R
  BY <1>0 DEF Autofix!TypeOK
<1> DEFINE q == [p EXCEPT !.open = FALSE]
<1>4. q \in R /\ q.of = p.of /\ q.report = p.report /\ q.total = p.total /\ ~q.open
  BY <1>3
<1> HIDE DEF q
<1>5. afxPulls' = (afxPulls \ {p}) \cup {q}
  BY <1>1 DEF q
<1>b. p.of \in DOMAIN afxAnalyses /\ afxPushed[p.of] \in Autofix!Commits /\ afxPushed[p.of] # AgtNone
  <2>1. p.of \in DOMAIN afxAnalyses /\ afxPushed[p.of] # AgtNone
    BY <1>0, <1>3 DEF Autofix!PullTells
  <2> QED
    BY <1>0, <2>1, AutofixFacts
<1> HIDE DEF R
<1>6. afxHead' \in Autofix!Commits
  <2>1. /\ afxHead.code \in Autofix!Tree /\ afxHead.sarif \in Autofix!Kept
        /\ afxPushed[p.of].sarif \in Autofix!Kept
    BY <1>0, <1>b DEF Autofix!TypeOK, Autofix!Commits
  <2>2. code(p) \in Autofix!Tree
    BY <2>1 DEF Autofix!Tree
  <2>3. sarif(p, taken) \in Autofix!Kept
    BY <2>1 DEF Autofix!Kept
  <2> HIDE DEF code, sarif
  <2> QED
    BY <1>a, <2>2, <2>3 DEF Autofix!Commits
<1>7. Autofix!TypeOK'
  <2>1. afxPulls' \subseteq R
    BY <1>0, <1>4, <1>5 DEF Autofix!TypeOK, R
  <2> QED
    BY <1>0, <1>2, <1>6, <2>1 DEF Autofix!TypeOK, R
<1>11. Autofix!ReportsSourced'
  <2>1. \A o \in afxPulls : ~o.open => \E m \in afxPulls' : ~m.open /\ m.of = o.of
    BY <1>4, <1>5
  <2>2. ASSUME NEW s, Autofix!Sourced(s), NEW n \in AfxNames, s[n] # AgtNone
        PROVE  \E o \in afxPulls' : ~o.open /\ afxAnalyses[o.of].sarif[n] = s[n]
    <3>1. PICK o \in afxPulls : ~o.open /\ afxAnalyses[o.of].sarif[n] = s[n]
      BY <2>2 DEF Autofix!Sourced
    <3>2. PICK m \in afxPulls' : ~m.open /\ m.of = o.of
      BY <2>1, <3>1
    <3> QED
      BY <3>1, <3>2
  <2>3. ASSUME NEW n \in AfxNames, afxHead'.sarif[n] # AgtNone
        PROVE  \E o \in afxPulls' : ~o.open /\ afxAnalyses[o.of].sarif[n] = afxHead'.sarif[n]
    <3>0. afxHead'.sarif[n] = IF n \in taken THEN afxPushed[p.of].sarif[n] ELSE afxHead.sarif[n]
      BY <1>a
    <3>1. CASE n \notin taken
      BY <1>0, <2>2, <2>3, <3>0, <3>1 DEF Autofix!ReportsSourced
    <3>2. CASE n \in taken
      <4>1. afxPushed[p.of].sarif[n] # afxAnalyses[p.of].commit.sarif[n]
        BY <1>a, <3>2
      <4>2. afxPushed[p.of].sarif[n] = Autofix!Given(p.of, n)
        BY <1>0, <1>b, AutofixFacts DEF Autofix!PushedIsRemedy
      <4>3. afxHead'.sarif[n] = afxAnalyses[p.of].sarif[n]
        BY <3>0, <3>2, <4>1, <4>2 DEF Autofix!Given
      <4>4. q \in afxPulls' /\ ~q.open /\ q.of = p.of
        BY <1>4, <1>5
      <4> QED
        BY <4>3, <4>4
    <3> QED
      BY <3>1, <3>2
  <2>4. ASSUME NEW k \in DOMAIN afxAnalyses, NEW n \in AfxNames, afxAnalyses[k].commit.sarif[n] # AgtNone
        PROVE  \E o \in afxPulls' : ~o.open /\ afxAnalyses[o.of].sarif[n] = afxAnalyses[k].commit.sarif[n]
    <3>1. Autofix!Sourced(afxAnalyses[k].commit.sarif)
      BY <1>0 DEF Autofix!ReportsSourced
    <3> QED
      BY <2>2, <2>4, <3>1
  <2> QED
    BY <1>2, <2>3, <2>4 DEF Autofix!ReportsSourced, Autofix!Sourced
<1>8. \A j : Autofix!Found(j)' = Autofix!Found(j) /\ Autofix!Removed(j)' = Autofix!Removed(j)
  BY <1>2 DEF Autofix!Found, Autofix!Given, Autofix!Removed
<1>9. Autofix!PushedIsRemedy'
  BY <1>0, <1>2, <1>8 DEF Autofix!PushedIsRemedy, Autofix!Given, Autofix!Nothing
<1>10. Autofix!PullTells'
  <2> SUFFICES ASSUME NEW o \in afxPulls'
               PROVE  /\ afxPushed[o.of] # AgtNone /\ o.report = Autofix!Removed(o.of)
                      /\ o.total = Cardinality(Autofix!Removed(o.of))
    BY <1>2, <1>8, AutofixCount DEF Autofix!PullTells
  <2>1. PICK old \in afxPulls : o.of = old.of /\ o.report = old.report /\ o.total = old.total
    BY <1>4, <1>5
  <2> QED
    BY <1>0, <2>1, AutofixCount DEF Autofix!PullTells
<1> QED
  BY <1>2, <1>7, <1>9, <1>10, <1>11, JobStays DEF AutofixIInv

LEMMA AutofixStutter ==
    ASSUME Autofix!AutofixAssumption, AutofixIInv, UNCHANGED Autofix!vars PROVE AutofixIInv'
<1>1. UNCHANGED <<afxHead, afxAnalyses,
                  afxPushed, afxPulls, afxEdits, afxJob, afxBus, afxHeard, afxJobs>>
  BY DEF Autofix!vars, Autofix!jobVars
<1>2. Autofix!TypeOK'
  BY <1>1 DEF AutofixIInv, Autofix!TypeOK
<1> QED
  BY <1>1, <1>2, PullsStay, SourcesStay, JobStays DEF AutofixIInv

(* What the repair workflow pushed is the analysed commit without the      *)
(* patterns of the findings and with the SARIF files of its job; the SARIF *)
(* files on the branch are of analyses whose pull request was merged; a    *)
(* pull request tells exactly what is on its branch, and all agents were   *)
(* heard before it, however often jobs are run (security-autofix.yml,      *)
(* security_autofix_engine.py and singularity's event bus).                *)
THEOREM RepairsTold ==
    ASSUME Autofix!AutofixAssumption PROVE Autofix!Spec => []Autofix!AutofixInv
<1>1. Autofix!Init => AutofixIInv
  BY AutofixInit
<1>2. AutofixIInv /\ [Autofix!Next]_Autofix!vars => AutofixIInv'
  <2> SUFFICES ASSUME AutofixIInv, [Autofix!Next]_Autofix!vars PROVE AutofixIInv'
    OBVIOUS
  <2>1. ASSUME Autofix!Cancel PROVE AutofixIInv'
    <3>1. afxJob' = Autofix!Idle
            /\ UNCHANGED <<afxHead, afxAnalyses, afxPushed, afxPulls, afxEdits, afxJobs>>
      BY <2>1 DEF Autofix!Cancel, Autofix!Fail
    <3> QED
      BY <3>1, JobAway
  <2> QED
    BY <2>1, AnalyseStep, BeginStep, ReadStep, FixStep, NextFindingStep, PublishStep, DispatchStep, CommitStep,
       PullStep, EditStep, MergeStep, AutofixStutter DEF Autofix!Next
<1>3. AutofixIInv => Autofix!AutofixInv
  BY AutofixImply
<1> QED
  BY <1>1, <1>2, <1>3, PTL DEF Autofix!Spec

-----------------------------------------------------------------------------
(* For any settings, reports, changes, requests, lives, servers, weights   *)
(* and plans: the trainer accounts for what it skips, replaces or deploys  *)
(* and its gossip stays within what was sent; an autofix job offers what   *)
(* its own analysis found; a review robot's branch carries the patch of    *)
(* its request; retried calls are told apart from lost ones; a token       *)
(* stands for one that was issued and is not too old; a tenant exceeds its *)
(* plan only by requests that ran together.                                *)
THEOREM AgentsCorrect ==
    ASSUME Trainer!TrainerAssumption, Autofix!AutofixAssumption, Review!BotAssumption,
           Feedback!FeedbackAssumption,
           Jwt!TokensAssumption, Retried!CallsAssumption, Gossip!GossipAssumption, Tenants!TenantsAssumption
    PROVE  /\ Trainer!Spec /\ Autofix!Spec /\ Review!Spec /\ Feedback!Spec
           /\ Jwt!Spec /\ Retried!Spec /\ Gossip!Spec /\ Tenants!Spec
           => []AgentsInv
<1> QED
  BY TrainerHolds, RepairsTold, PullsCarryPatches, FeedbackCounts, TokensStandFor, CallsToldApart,
     GossipStaysWithin, TenantsHeldTo, PTL DEF AgentsInv
=============================================================================
