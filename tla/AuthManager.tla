---------------------------- MODULE AuthManager ----------------------------
(***************************************************************************)
(* The credential cache shared by all requests.  A token comes from an API *)
(* key, from the cache, from kiro-cli's database (read-only here, written  *)
(* by kiro-cli whenever it likes) or from the refresh endpoint.  One mutex *)
(* guards the cache and the force flag; everything slow runs outside it,   *)
(* in a flight of the singleflight group that concurrent callers share.    *)
(*                                                                         *)
(* Each action is one critical section, or one call out of the process     *)
(* between two of them, so calls interleave wherever the mutex is free.    *)
(*                                                                         *)
(* Abstracted: a token is its serial number, in the order the identity     *)
(* provider issued it; time is the set of tokens that still have five      *)
(* minutes to live; regions, profile and client registration are left out, *)
(* a missing registration being one way for a refresh to fail.             *)
(***************************************************************************)
EXTENDS Naturals

CONSTANTS
    Callers,    \* goroutines that ask for a token
    MaxTokens   \* bound on the tokens ever issued

ASSUME MaxTokensAssumption == MaxTokens \in Nat

VARIABLES
    apiKey,         \* a static API key is configured
    db,             \* token in kiro-cli's database, None if it cannot be read
    issued,         \* tokens issued so far, to kiro-cli or to us
    valid,          \* tokens isTokenValid accepts
    cached,
    forceRefresh,
    flight,         \* the singleflight call in progress
    call            \* each caller's GetToken or ForceRefresh

providerVars == <<apiKey, db, issued, valid>>
authVars == <<providerVars, cached, forceRefresh, flight, call>>

None   == 0
Tokens == 1..MaxTokens

Answer == [kind : {"none", "token", "key", "error"}, token : 0..MaxTokens]
NoAnswer == [kind |-> "none", token |-> None]
Key      == [kind |-> "key", token |-> None]
Failure  == [kind |-> "error", token |-> None]
Token(t) == [kind |-> "token", token |-> t]

\* forced: the caller is ForceRefresh.  History: since and alone, of a forced
\* call, the tokens issued when it called, and that no other call overlaps it;
\* old, the tokens that had expired when it called, or when its flight took off.
Call == [pc : {"idle", "lookup", "do", "wait", "done"}, forced : BOOLEAN,
         since : 0..MaxTokens, alone : BOOLEAN, old : SUBSET Tokens, answer : Answer]
Idle == [pc |-> "idle", forced |-> FALSE, since |-> 0, alone |-> TRUE, old |-> {},
         answer |-> NoAnswer]

\* old is history: the tokens that had expired when the flight took off.
Flight == [step : {"none", "begin", "read", "refresh", "install", "leave"},
           forced : BOOLEAN, token : 0..MaxTokens,
           old : SUBSET Tokens, callers : SUBSET Callers]
NoFlight == [step |-> "none", forced |-> FALSE, token |-> None, old |-> {}, callers |-> {}]

Expired == (1..issued) \ valid

Busy(c) == call[c].pc \in {"lookup", "do", "wait"}

\* c starts a call: every call in progress is overlapped by it.
Begin(c, forced) ==
    /\ call[c].pc = "idle"
    /\ call' = [d \in Callers |->
                  IF d = c
                  THEN [pc |-> "lookup", forced |-> forced,
                        since |-> IF forced THEN issued ELSE 0,
                        alone |-> forced => \A e \in Callers : ~Busy(e),
                        old |-> Expired, answer |-> NoAnswer]
                  ELSE [call[d] EXCEPT !.alone = @ /\ ~(call[d].forced /\ Busy(d))]]

Finish(c, answer) == call' = [call EXCEPT ![c].pc = "done", ![c].answer = answer]

----------------------------------------------------------------------------
\* With an API key GetToken and ForceRefresh answer on the spot.
AskKey(c) ==
    /\ apiKey
    /\ call[c].pc = "idle"
    /\ Finish(c, Key)
    /\ UNCHANGED <<providerVars, cached, forceRefresh, flight>>

GetToken(c) ==
    /\ ~apiKey
    /\ Begin(c, FALSE)
    /\ UNCHANGED <<providerVars, cached, forceRefresh, flight>>

\* Mutant: the rejected token stays in the cache.
ForceRefreshKeepsCache(c) ==
    /\ ~apiKey
    /\ Begin(c, TRUE)
    /\ forceRefresh' = TRUE
    /\ UNCHANGED <<providerVars, cached, flight>>

ForceRefresh(c) ==
    /\ ~apiKey
    /\ Begin(c, TRUE)
    /\ forceRefresh' = TRUE
    /\ cached' = None
    /\ UNCHANGED <<providerVars, flight>>

InvalidateCache ==
    /\ cached' = None
    /\ UNCHANGED <<providerVars, forceRefresh, flight, call>>

\* The cache, under the mutex ...
Lookup(c) ==
    /\ call[c].pc = "lookup"
    /\ IF cached \in valid
       THEN Finish(c, Token(cached))
       ELSE call' = [call EXCEPT ![c].pc = "do"]
    /\ UNCHANGED <<providerVars, cached, forceRefresh, flight>>

\* ... then singleflight: take off, or board the flight in the air.
Do(c) ==
    /\ call[c].pc = "do"
    /\ flight' = IF flight.step = "none"
                 THEN [NoFlight EXCEPT !.step = "begin", !.callers = {c}, !.old = Expired]
                 ELSE [flight EXCEPT !.callers = @ \cup {c}]
    /\ call' = [call EXCEPT ![c].pc = "wait", ![c].old = flight'.old]
    /\ UNCHANGED <<providerVars, cached, forceRefresh>>

----------------------------------------------------------------------------
\* The flight ends: its callers all get the same answer.
Land(answer) ==
    /\ call' = [c \in Callers |->
                  IF c \in flight.callers
                  THEN [call[c] EXCEPT !.pc = "done", !.answer = answer]
                  ELSE call[c]]
    /\ flight' = NoFlight

\* Mutant: refreshCredentials does not look at the cache again.
ConsumeFlagUnchecked ==
    /\ flight.step = "begin"
    /\ forceRefresh' = FALSE
    /\ flight' = [flight EXCEPT !.step = "read", !.forced = forceRefresh]
    /\ UNCHANGED <<providerVars, cached, call>>

\* Mutant: the second look at the cache forgets that tokens expire.
ConsumeFlagStale ==
    /\ flight.step = "begin"
    /\ forceRefresh' = FALSE
    /\ IF ~forceRefresh /\ cached # None
       THEN Land(Token(cached))
       ELSE /\ flight' = [flight EXCEPT !.step = "read", !.forced = forceRefresh]
            /\ UNCHANGED call
    /\ UNCHANGED <<providerVars, cached>>

\* refreshCredentials takes the force flag and, unforced, the cache again.
ConsumeFlag ==
    /\ flight.step = "begin"
    /\ forceRefresh' = FALSE
    /\ IF ~forceRefresh /\ cached \in valid
       THEN Land(Token(cached))
       ELSE /\ flight' = [flight EXCEPT !.step = "read", !.forced = forceRefresh]
            /\ UNCHANGED call
    /\ UNCHANGED <<providerVars, cached>>

\* readFromDB and the choice it leads to: the database token will do, or the
\* refresh endpoint is called with its refresh token.
ReadFromDB ==
    /\ flight.step = "read"
    /\ \/ Land(Failure)
       \/ /\ db # None
          /\ flight' = [flight EXCEPT !.token = db,
                          !.step = IF ~flight.forced /\ db \in valid
                                   THEN "install" ELSE "refresh"]
          /\ UNCHANGED call
    /\ UNCHANGED <<providerVars, cached, forceRefresh>>

\* The refresh endpoint, outside the mutex.  A new token may be short-lived.
Refresh ==
    /\ flight.step = "refresh"
    /\ \/ /\ Land(Failure)
          /\ UNCHANGED <<issued, valid>>
       \/ /\ issued < MaxTokens
          /\ issued' = issued + 1
          /\ valid' \in {valid, valid \cup {issued'}}
          /\ flight' = [flight EXCEPT !.step = "install", !.token = issued']
          /\ UNCHANGED call
    /\ UNCHANGED <<apiKey, db, cached, forceRefresh>>

\* The token is cached; a caller can still board until the flight lands.
Install ==
    /\ flight.step = "install"
    /\ cached' = flight.token
    /\ flight' = [flight EXCEPT !.step = "leave"]
    /\ UNCHANGED <<providerVars, forceRefresh, call>>

Leave ==
    /\ flight.step = "leave"
    /\ Land(Token(flight.token))
    /\ UNCHANGED <<providerVars, cached, forceRefresh>>

\* The caller takes its answer and goes on.
Return(c) ==
    /\ call[c].pc = "done"
    /\ call' = [call EXCEPT ![c] = Idle]
    /\ UNCHANGED <<providerVars, cached, forceRefresh, flight>>

----------------------------------------------------------------------------
\* kiro-cli logs in, or refreshes on its own; tokens age; the user logs out.
CliWrites ==
    /\ \/ /\ issued < MaxTokens
          /\ issued' = issued + 1
          /\ valid' = valid \cup {issued'}
          /\ db' = issued'
       \/ db' = None /\ UNCHANGED <<issued, valid>>
    /\ UNCHANGED <<apiKey, cached, forceRefresh, flight, call>>

Expire ==
    /\ \E t \in valid : valid' = valid \ {t}
    /\ UNCHANGED <<apiKey, db, issued, cached, forceRefresh, flight, call>>

AuthInit ==
    /\ apiKey \in BOOLEAN
    /\ db = None /\ issued = 0 /\ valid = {}
    /\ cached = None /\ forceRefresh = FALSE
    /\ flight = NoFlight
    /\ call = [c \in Callers |-> Idle]

FlightStep == ConsumeFlag \/ ReadFromDB \/ Refresh \/ Install \/ Leave
CallStep(c) == Lookup(c) \/ Do(c)
Provider == CliWrites \/ Expire

AuthNext ==
    \/ \E c \in Callers : \/ AskKey(c) \/ GetToken(c) \/ ForceRefresh(c)
                          \/ CallStep(c) \/ Return(c)
    \/ FlightStep \/ InvalidateCache \/ Provider

AuthSpec == AuthInit /\ [][AuthNext]_authVars
----------------------------------------------------------------------------
AuthTypeOK ==
    /\ apiKey \in BOOLEAN
    /\ db \in 0..MaxTokens /\ issued \in 0..MaxTokens
    /\ valid \in SUBSET (1..issued)
    /\ cached \in 0..MaxTokens /\ forceRefresh \in BOOLEAN
    /\ flight \in Flight
    /\ call \in [Callers -> Call]

\* No call is answered with a token that had expired before it was asked for:
\* when the call began, if the cache answers it on the spot, and otherwise when
\* the flight that answers it took off, its own or one it boarded in the air,
\* whichever of the cache, the database and the endpoint that flight goes by
\* and whatever expires, is forced or is dropped from the cache meanwhile.
NoExpiredTokenServed ==
    \A c \in Callers :
        call[c].answer.kind = "token" => call[c].answer.token \notin call[c].old

\* Refreshing rotates the user's tokens, so nobody refreshes for nothing: an
\* unforced refresh happens only when no usable token is cached, however late
\* its caller boarded after missing the cache.
RefreshOnlyWhenNeeded ==
    flight.step = "refresh" /\ ~flight.forced => cached \notin valid

\* ForceRefresh delivers what its comment promises when no other call overlaps
\* it: a token newer than every token issued before the call, or an error.
ForcedAloneIsReal ==
    \A c \in Callers :
        call[c].forced /\ call[c].alone /\ call[c].answer.kind = "token"
            => call[c].answer.token > call[c].since
=============================================================================
