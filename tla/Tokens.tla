-------------------------------- MODULE Tokens --------------------------------
(***************************************************************************)
(* The tokens of jwt-auth.  A replica reads its settings when it starts    *)
(* and refuses to start with unsound ones; it issues tokens that end after *)
(* a while and says whether a token it is shown still counts.  Replicas    *)
(* have clocks that may differ, are started again with other settings, and *)
(* run on the real library or on the small one that stands in for it.      *)
(***************************************************************************)
EXTENDS Integers, Sequences, FiniteSets

CONSTANTS
    Replicas,
    Settings,       \* settings: [secret, ttl, issuer, audience, test, stub]
    Names,          \* requests: [subject, scopes], each "plain", "long", "odd" or "blank"
    Skew,           \* how far a clock may be ahead
    MaxTtl,         \* the longest life of a token, in minutes
    MaxTime, MaxStarts, MaxTokens,
    None

Short == {"short"}  \* secrets of less than 32 characters
TokensAssumption ==
    /\ Skew \in Nat /\ MaxTtl \in Nat \ {0} /\ MaxTime \in Nat /\ MaxStarts \in Nat /\ MaxTokens \in Nat

VARIABLES
    now,            \* minutes
    ahead,          \* the clock of each replica: so many minutes ahead
    settings,       \* the settings each replica runs with, or None
    starts,
    tokens,         \* tokens issued: [key, issuer, audience, iat, exp, at]; "at" is the true time
    shown           \* the last token shown: [token, at, by, status]

vars == <<now, ahead, settings, starts, tokens, shown>>

Nothing == [token |-> None, by |-> None, status |-> "none", given |-> None, at |-> 0]

TypeOK ==
    /\ now \in 0..MaxTime /\ ahead \in [Replicas -> 0..Skew] /\ starts \in 0..MaxStarts
    /\ settings \in [Replicas -> Settings \cup {None}]
    /\ \A r \in Replicas : settings[r] # None => settings[r].ttl \in 1..MaxTtl
    /\ \A t \in tokens : t.at \in 0..MaxTime /\ t.exp \in Nat
    /\ shown.status \in {"none", "active", "missing", "invalid", "expired", "audience", "issuer", "error"}

Init ==
    /\ now = 0 /\ ahead \in [Replicas -> 0..Skew] /\ settings = [r \in Replicas |-> None]
    /\ starts = 0 /\ tokens = {} /\ shown = Nothing

-----------------------------------------------------------------------------
(* Without a secret the tests get one of their own; only they may run with *)
(* a short one.                                                            *)
Key(s) == IF s.secret = None /\ s.test THEN "unit-test" ELSE s.secret
Sound(s) ==
    /\ Key(s) \notin {None, "change-me-in-production"} /\ (Key(s) \notin Short \/ s.test)
    /\ s.algorithm = "HS256" /\ s.ttl \in 1..MaxTtl

Start(r) ==
    /\ starts < MaxStarts /\ starts' = starts + 1
    /\ \E s \in Settings : settings' = [settings EXCEPT ![r] = IF Sound(s) THEN s ELSE None]
    /\ shown' = Nothing /\ UNCHANGED <<now, ahead, tokens>>

Clock(r) == now + ahead[r]

(* A request with an unsound name or scope is refused.                     *)
Valid(n) == n.subject = "plain" /\ n.scopes \in {"plain", "blank"}

IssueToken(r) ==
    /\ settings[r] # None /\ Cardinality(tokens) < MaxTokens
    /\ \E n \in Names : Valid(n)
    /\ tokens' = tokens \cup {[key |-> Key(settings[r]), issuer |-> settings[r].issuer, audience |-> settings[r].audience,
                               iat |-> Clock(r), exp |-> Clock(r) + settings[r].ttl, at |-> now]}
    /\ shown' = Nothing /\ UNCHANGED <<now, ahead, settings, starts>>

-----------------------------------------------------------------------------
(* The stand-in looks at signature, claims, end, audience and issuer.      *)
DecodeEndIncluded(t, s, clock) == \* variant: a token counts in the minute it ends
    IF t.key # Key(s) THEN "invalid" ELSE IF t.exp < clock THEN "expired"
    ELSE IF t.audience # s.audience THEN "audience" ELSE IF t.issuer # s.issuer THEN "issuer" ELSE "active"
Decode(t, s, clock) ==
    IF t.key # Key(s) THEN "invalid" ELSE IF t.exp <= clock THEN "expired"
    ELSE IF t.audience # s.audience THEN "audience" ELSE IF t.issuer # s.issuer THEN "issuer" ELSE "active"

(* The real library also refuses a token of the future, and looks at the   *)
(* issuer before the audience.                                             *)
LibraryDecode(t, s, clock) ==
    IF t.key # Key(s) \/ t.iat > clock THEN "invalid" ELSE IF t.exp <= clock THEN "expired"
    ELSE IF t.issuer # s.issuer THEN "issuer" ELSE IF t.audience # s.audience THEN "audience" ELSE "active"

(* A header that is no bearer's; a text of other than three parts or with  *)
(* another signature; a signature that is no base64, which the stand-in    *)
(* does not catch.                                                         *)
Verify(r, what) ==
    CASE what.kind = "no bearer" -> "missing"
      [] what.kind = "garbled" -> "invalid"
      [] what.kind = "no base64" -> IF settings[r].stub THEN "error" ELSE "invalid"
      [] OTHER -> IF settings[r].stub THEN Decode(what.token, settings[r], Clock(r)) ELSE LibraryDecode(what.token, settings[r], Clock(r))

Introspect(r) ==
    /\ settings[r] # None
    /\ \E what \in {[kind |-> "token", token |-> t] : t \in tokens}
                    \cup {[kind |-> k, token |-> None] : k \in {"no bearer", "garbled", "no base64"}} :
         shown' = [token |-> what.token, by |-> r, status |-> Verify(r, what), given |-> settings[r], at |-> now]
    /\ UNCHANGED <<now, ahead, settings, starts, tokens>>

Tick ==
    /\ now < MaxTime /\ now' = now + 1 /\ shown' = Nothing
    /\ UNCHANGED <<ahead, settings, starts, tokens>>

Next == (\E r \in Replicas : Start(r) \/ IssueToken(r) \/ Introspect(r)) \/ Tick

Spec == Init /\ [][Next]_vars

-----------------------------------------------------------------------------
(* A token that counts is one that a replica with the same secret, issuer  *)
(* and audience gave out, whatever its other settings were; anything else  *)
(* never counts.                                                           *)
ActiveWasIssued ==
    shown.status = "active" =>
        /\ shown.token \in tokens /\ shown.token.key = Key(shown.given)
        /\ shown.token.issuer = shown.given.issuer /\ shown.token.audience = shown.given.audience

Age == shown.at - shown.token.at
Life == shown.token.exp - shown.token.iat

(* It counts for the life it was given, up to the difference of the clocks *)
(* of the two replicas, and for no less; a replica that was started again  *)
(* with another life changes nothing for it.                               *)
LifeKept ==
    /\ shown.status = "active" => Age < Life + Skew /\ Age < MaxTtl + Skew
    /\ shown.status = "expired" => Age >= Life - Skew

(* Between replicas of one secret only a token too fresh for a clock that  *)
(* is behind is called invalid, and only by the real library.              *)
FreshRefused ==
    shown.status = "invalid" /\ shown.token # None /\ shown.token.key = Key(shown.given) =>
        ~shown.given.stub /\ Age < Skew

(* What the callers may rely on.                                           *)
TokensInv == ActiveWasIssued /\ LifeKept /\ FreshRefused
=============================================================================
