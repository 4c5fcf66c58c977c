------------------------- MODULE UpstreamCallProofs -------------------------
(***************************************************************************)
(* Proofs about UpstreamCall, for any number of requests, tokens and       *)
(* upstream calls: the requests use the manager as AuthManager says, so    *)
(* all that is proved there holds here; a refresh that no other call       *)
(* overlaps never leads to a token that was already rejected; and the      *)
(* attempts of a request are bounded.                                      *)
(***************************************************************************)
EXTENDS UpstreamCall, AuthManagerProofs

\* What the manager's answers are.
Answers ==
    \A c \in Callers :
        /\ call[c].answer.token \in 0..issued
        /\ call[c].answer.kind = "key" => apiKey
        /\ call[c].pc = "done" => call[c].answer.kind # "none"

\* A request is inside of the manager exactly when it waits for a token, and
\* what it has seen rejected is not newer than its forced refresh.
InManagerWhenWaiting(c) ==
    /\ call[c].pc = "idle" <=> req[c].phase \notin {"auth", "refresh"}
    /\ req[c].phase = "refresh" /\ ~apiKey =>
           call[c].forced /\ req[c].refused \subseteq 0..call[c].since

TokensIssued(c) ==
    /\ req[c].creds \in 0..issued /\ req[c].current \in 0..issued
    /\ req[c].refused \subseteq 0..issued

\* Nothing rejected is sent, now or after a backoff.
NotBurnt(c) ==
    req[c].alone /\ req[c].phase \in {"send", "backoff"} /\ ~apiKey
        => req[c].current \notin req[c].refused

\* The attempts made and those left in this upstream call are paid for.
Counted(c) ==
    /\ req[c].phase = "auth" => req[c].sent = 0 /\ req[c].calls = MaxCalls
    /\ req[c].phase \in {"backoff", "refresh"} => req[c].attempt < 2
    /\ req[c].phase \notin {"idle", "auth"} =>
           req[c].sent + (2 - req[c].attempt) <= 3 * (MaxCalls - req[c].calls)

RequestInv(c) == InManagerWhenWaiting(c) /\ TokensIssued(c) /\ NotBurnt(c) /\ Counted(c)

UpstreamIInv ==
    /\ AuthIInv /\ UpstreamTypeOK /\ Answers
    /\ \A c \in Callers : RequestInv(c)

USE MaxTokensAssumption, MaxCallsAssumption
----------------------------------------------------------------------------
LEMMA InitUpstreamIInv == UpstreamInit => UpstreamIInv
<1> SUFFICES ASSUME UpstreamInit PROVE UpstreamIInv
  OBVIOUS
<1>1. AuthIInv
  BY InitAuthIInv DEF UpstreamInit
<1>2. NoRequest \in Request
  BY DEF NoRequest, Request, None, maxAttempts
<1>3. UpstreamTypeOK
  BY <1>2 DEF UpstreamInit, UpstreamTypeOK
<1>4. \A c \in Callers : call[c] = Idle /\ req[c] = NoRequest
  BY DEF UpstreamInit, AuthInit
<1>5. issued = 0
  BY DEF UpstreamInit, AuthInit
<1>6. Idle.pc = "idle" /\ Idle.answer.token = 0 /\ Idle.answer.kind = "none"
  BY DEF Idle, NoAnswer, None
<1>7. /\ NoRequest.phase = "idle" /\ NoRequest.creds = 0 /\ NoRequest.current = 0
      /\ NoRequest.refused = {}
  BY DEF NoRequest, None
<1>8. Answers
  <2>1. ASSUME NEW c \in Callers
        PROVE  call[c].answer.token = 0 /\ call[c].answer.kind = "none" /\ call[c].pc = "idle"
    BY <1>4, <1>6
  <2>2. ASSUME NEW c \in Callers
        PROVE  /\ call[c].answer.token \in 0..issued
               /\ call[c].answer.kind # "key" /\ call[c].pc # "done"
    BY <1>5, <2>1
  <2> QED
    BY <2>2, Zenon DEF Answers
<1>9. ASSUME NEW c \in Callers PROVE RequestInv(c)
  <2>1. /\ call[c].pc = "idle" /\ req[c].phase = "idle" /\ req[c].creds = 0
        /\ req[c].current = 0 /\ req[c].refused = {}
    BY <1>4, <1>6, <1>7
  <2> QED
    BY <1>5, <2>1 DEF RequestInv, InManagerWhenWaiting, TokensIssued, NotBurnt, Counted
<1> QED
  BY <1>1, <1>3, <1>8, <1>9 DEF UpstreamIInv

\* Every step of UpstreamCall is a step of the manager, or none.
LEMMA StepsOfManager == [UpstreamNext]_upstreamVars => [AuthNext]_authVars
<1> SUFFICES ASSUME [UpstreamNext]_upstreamVars PROVE [AuthNext]_authVars
  OBVIOUS
<1>1. ASSUME NEW c \in Callers, Arrive(c) \/ Goroutine(c) PROVE [AuthNext]_authVars
  <2>1. CASE Arrive(c)
    BY <2>1 DEF Arrive, AuthNext
  <2>2. CASE RequestStep(c)
    BY <2>2 DEF RequestStep, Authenticated, Served, Transient, Fatal, Forbidden, Retry,
                Refreshed, Proceed, AuthNext
  <2>3. CASE InManager(CallStep(c))
    BY <2>3 DEF InManager, AuthNext
  <2> QED
    BY <1>1, <2>1, <2>2, <2>3 DEF Goroutine
<1>2. CASE InManager(FlightStep) \/ InManager(Provider)
  BY <1>2 DEF InManager, AuthNext
<1>3. CASE Revoke \/ UNCHANGED upstreamVars
  BY <1>3 DEF Revoke, upstreamVars
<1> QED
  BY <1>1, <1>2, <1>3 DEF UpstreamNext

----------------------------------------------------------------------------
\* A request that does not move keeps its invariant while others do.
LEMMA RequestStays ==
  ASSUME NEW c \in Callers, RequestInv(c), AuthTypeOK, issued' \in Nat,
         req'[c] = req[c], apiKey' = apiKey, issued <= issued',
         call'[c].pc = "idle" <=> call[c].pc = "idle",
         call'[c].forced = call[c].forced, call'[c].since = call[c].since
  PROVE  RequestInv(c)'
<1>1. issued \in Nat /\ 0..issued \subseteq 0..issued'
  BY DEF AuthTypeOK
<1>2. TokensIssued(c)'
  BY <1>1 DEF RequestInv, TokensIssued
<1>3. InManagerWhenWaiting(c)'
  BY DEF RequestInv, InManagerWhenWaiting
<1>4. NotBurnt(c)' /\ Counted(c)'
  BY DEF RequestInv, NotBurnt, Counted
<1> QED
  BY <1>2, <1>3, <1>4 DEF RequestInv

\* What a step of the manager that is not the request's own does to its calls.
Unmoved(c) ==
    /\ call'[c].pc = "idle" <=> call[c].pc = "idle"
    /\ call'[c].forced = call[c].forced /\ call'[c].since = call[c].since

LEMMA ManagerMoves ==
  ASSUME UpstreamIInv,
         FlightStep \/ Provider \/ (\E c \in Callers : CallStep(c))
  PROVE  /\ \A c \in Callers : Unmoved(c)
         /\ apiKey' = apiKey /\ issued <= issued' /\ issued' \in Nat /\ Answers'
<1>1. AuthTypeOK /\ FlightManned /\ Known
  BY DEF UpstreamIInv, AuthIInv
<1>2. issued \in Nat
  BY <1>1 DEF AuthTypeOK
<1>3. ASSUME NEW answer \in Answer, Land(answer), apiKey' = apiKey, issued' = issued,
             answer.token \in 0..issued, answer.kind \in {"token", "error"}
      PROVE  (\A c \in Callers : Unmoved(c)) /\ Answers'
  <2>1. \A c \in Callers :
            IF call[c].pc = "wait"
            THEN /\ call'[c].pc = "done" /\ call'[c].answer = answer
                 /\ call'[c].forced = call[c].forced /\ call'[c].since = call[c].since
            ELSE call'[c] = call[c]
    BY <1>1, <1>3, Landing
  <2>2. \A c \in Callers : Unmoved(c)
    BY <2>1 DEF Unmoved
  <2>3. Answers'
    BY <1>3, <2>1 DEF Answers, UpstreamIInv
  <2> QED
    BY <2>2, <2>3
<1>4. ASSUME UNCHANGED call, apiKey' = apiKey, issued' \in Nat, issued <= issued'
      PROVE  (\A c \in Callers : Unmoved(c)) /\ Answers'
  <2>1. 0..issued \subseteq 0..issued'
    BY <1>2, <1>4
  <2> QED
    BY <1>4, <2>1 DEF Answers, UpstreamIInv, Unmoved
<1>5. Failure \in Answer /\ Failure.kind = "error" /\ Failure.token = 0
  BY DEF Failure, Answer, None
<1>6. \A t \in 0..MaxTokens :
          Token(t) \in Answer /\ Token(t).kind = "token" /\ Token(t).token = t
  BY DEF Token, Answer
<1>7. cached \in 0..MaxTokens /\ flight.token \in 0..MaxTokens
      /\ cached \in 0..issued /\ flight.token \in 0..issued
  BY <1>1 DEF AuthTypeOK, Flight, Known
<1>8. CASE ConsumeFlag
  <2>1. apiKey' = apiKey /\ issued' = issued /\ (Land(Token(cached)) \/ UNCHANGED call)
    BY <1>8 DEF ConsumeFlag, providerVars
  <2> QED
    BY <1>2, <1>3, <1>4, <1>6, <1>7, <2>1
<1>9. CASE ReadFromDB
  <2>1. apiKey' = apiKey /\ issued' = issued /\ (Land(Failure) \/ UNCHANGED call)
    BY <1>9 DEF ReadFromDB, providerVars
  <2> QED
    BY <1>2, <1>3, <1>4, <1>5, <2>1
<1>10. CASE Refresh
  <2>1. /\ apiKey' = apiKey
        /\ \/ issued' = issued /\ Land(Failure)
           \/ issued' = issued + 1 /\ UNCHANGED call
    BY <1>10 DEF Refresh
  <2> QED
    BY <1>2, <1>3, <1>4, <1>5, <2>1
<1>11. CASE Install
  BY <1>2, <1>4, <1>11 DEF Install, providerVars
<1>12. CASE Leave
  <2>1. apiKey' = apiKey /\ issued' = issued /\ Land(Token(flight.token))
    BY <1>12 DEF Leave, providerVars
  <2> QED
    BY <1>2, <1>3, <1>6, <1>7, <2>1
<1>13. CASE Provider
  <2>1. UNCHANGED call /\ apiKey' = apiKey /\ issued' \in {issued, issued + 1}
    BY <1>13 DEF Provider, CliWrites, Expire
  <2> QED
    BY <1>2, <1>4, <2>1
<1>14. ASSUME NEW c \in Callers, CallStep(c)
       PROVE  /\ \A d \in Callers : Unmoved(d)
              /\ apiKey' = apiKey /\ issued <= issued' /\ issued' \in Nat /\ Answers'
  <2>1. apiKey' = apiKey /\ issued' = issued /\ call[c].pc \in {"lookup", "do"}
    BY <1>14 DEF CallStep, Lookup, Do, providerVars
  <2>2. \/ Finish(c, Token(cached))
        \/ call' = [call EXCEPT ![c].pc = "do"]
        \/ call' = [call EXCEPT ![c].pc = "wait", ![c].old = flight'.old]
    BY <1>14 DEF CallStep, Lookup, Do
  <2>3. CASE Finish(c, Token(cached))
    <3>1. /\ \A d \in Callers : d # c => call'[d] = call[d]
          /\ call'[c].pc = "done" /\ call'[c].answer = Token(cached)
          /\ call'[c].forced = call[c].forced /\ call'[c].since = call[c].since
      BY <1>1, <1>6, <1>7, <2>3, Finishing
    <3>2. \A d \in Callers : Unmoved(d)
      BY <2>1, <3>1 DEF Unmoved
    <3>3. Answers'
      BY <1>6, <1>7, <2>1, <3>1 DEF Answers, UpstreamIInv
    <3> QED
      BY <1>2, <2>1, <3>2, <3>3
  <2>4. ASSUME \/ call' = [call EXCEPT ![c].pc = "do"]
               \/ call' = [call EXCEPT ![c].pc = "wait", ![c].old = flight'.old]
        PROVE  (\A d \in Callers : Unmoved(d)) /\ Answers'
    <3>1. /\ \A d \in Callers : d # c => call'[d] = call[d]
          /\ call'[c].pc \in {"do", "wait"} /\ call'[c].answer = call[c].answer
          /\ call'[c].forced = call[c].forced /\ call'[c].since = call[c].since
      BY <1>1, <2>4 DEF AuthTypeOK, Call
    <3>2. \A d \in Callers : Unmoved(d)
      BY <2>1, <3>1 DEF Unmoved
    <3>3. Answers'
      BY <2>1, <3>1 DEF Answers, UpstreamIInv
    <3> QED
      BY <3>2, <3>3
  <2> QED
    BY <1>2, <2>1, <2>2, <2>3, <2>4
<1> QED
  BY <1>2, <1>8, <1>9, <1>10, <1>11, <1>12, <1>13, <1>14 DEF FlightStep
----------------------------------------------------------------------------
\* One request moves and keeps its invariant; the others stay.
LEMMA RequestMoves ==
  ASSUME UpstreamIInv, NEW c \in Callers, NEW r \in Request, Becomes(c, r),
         rejected' = rejected, apiKey' = apiKey, issued' = issued,
         \A d \in Callers : d # c => Unmoved(d), Answers', AuthIInv',
         req'[c] = r => RequestInv(c)'
  PROVE  UpstreamIInv'
<1>1. req \in [Callers -> Request] /\ rejected \in SUBSET (0..MaxTokens)
  BY DEF UpstreamIInv, UpstreamTypeOK
<1>2. req' \in [Callers -> Request] /\ req'[c] = r /\ \A d \in Callers : d # c => req'[d] = req[d]
  BY <1>1 DEF Becomes
<1>3. AuthTypeOK /\ issued \in Nat
  BY DEF UpstreamIInv, AuthIInv, AuthTypeOK
<1>4. ASSUME NEW d \in Callers, d # c PROVE RequestInv(d)'
  <2>1. RequestInv(d)
    BY DEF UpstreamIInv
  <2>2. issued <= issued' /\ issued' \in Nat
    BY <1>3
  <2> QED
    BY <1>2, <1>3, <1>4, <2>1, <2>2, RequestStays DEF Unmoved
<1> QED
  BY <1>1, <1>2, <1>4 DEF UpstreamIInv, UpstreamTypeOK

\* The request ends.
LEMMA RequestEndsWell ==
  ASSUME NEW c \in Callers, req'[c] = NoRequest, call'[c].pc = "idle", issued' \in Nat
  PROVE  RequestInv(c)'
  BY DEF RequestInv, InManagerWhenWaiting, TokensIssued, NotBurnt, Counted, NoRequest, None

LEMMA NoRequestTyped == NoRequest \in Request
  BY DEF NoRequest, Request, None, maxAttempts

\* A request starts its next upstream call with the token it took.
LEMMA CallStarts ==
  ASSUME NEW c \in Callers, NEW r \in Request, r.calls > 0, r.creds \in 0..issued, issued \in Nat,
         r.sent <= 3 * (MaxCalls - r.calls), issued' = issued,
         req'[c] = StartCall(r), call'[c].pc = "idle"
  PROVE  StartCall(r) \in Request /\ RequestInv(c)'
<1>1. /\ r.calls \in 0..MaxCalls /\ r.sent \in Nat /\ r.creds \in 0..MaxTokens
      /\ r.calls - 1 \in 0..MaxCalls
  BY DEF Request
<1>2. /\ StartCall(r).phase = "send" /\ StartCall(r).creds = r.creds
      /\ StartCall(r).current = r.creds /\ StartCall(r).attempt = 0
      /\ StartCall(r).calls = r.calls - 1 /\ StartCall(r).refused = {}
      /\ StartCall(r).sent = r.sent + 1
  BY DEF StartCall, Request
<1>3. StartCall(r) \in Request
  <2>1. StartCall(r) = [phase |-> "send", creds |-> r.creds, current |-> r.creds, attempt |-> 0,
                        calls |-> r.calls - 1, refused |-> {}, alone |-> TRUE,
                        sent |-> r.sent + 1]
    BY DEF StartCall, Request
  <2> QED
    BY <1>1, <2>1 DEF Request, maxAttempts
<1>4. Counted(c)'
  <2>1. r.sent + 1 + (2 - 0) <= 3 * (MaxCalls - (r.calls - 1))
    BY <1>1
  <2> QED
    BY <1>2, <2>1 DEF Counted
<1>5. InManagerWhenWaiting(c)' /\ TokensIssued(c)' /\ NotBurnt(c)'
  BY <1>2 DEF InManagerWhenWaiting, TokensIssued, NotBurnt
<1> QED
  BY <1>3, <1>4, <1>5 DEF RequestInv

----------------------------------------------------------------------------
\* Returning from the manager.
LEMMA Returning ==
  ASSUME UpstreamIInv, NEW c \in Callers, Return(c)
  PROVE  /\ call'[c].pc = "idle" /\ \A d \in Callers : d # c => Unmoved(d)
         /\ apiKey' = apiKey /\ issued' = issued /\ Answers'
         /\ call[c].pc = "done"
<1>1. call \in [Callers -> Call] /\ issued \in Nat
  BY DEF UpstreamIInv, AuthIInv, AuthTypeOK
<1>2. call'[c] = Idle /\ \A d \in Callers : d # c => call'[d] = call[d]
  BY <1>1 DEF Return
<1>3. Idle.pc = "idle" /\ Idle.answer.token = 0 /\ Idle.answer.kind = "none"
  BY DEF Idle, NoAnswer, None
<1>4. apiKey' = apiKey /\ issued' = issued /\ call[c].pc = "done"
  BY DEF Return, providerVars
<1> QED
  BY <1>1, <1>2, <1>3, <1>4 DEF Unmoved, Answers, UpstreamIInv

\* Asking it: for the static key, for a token, for a new one.
LEMMA Asking ==
  ASSUME UpstreamIInv, NEW c \in Callers, AskKey(c) \/ GetToken(c) \/ ForceRefresh(c)
  PROVE  /\ call'[c].pc # "idle" /\ \A d \in Callers : d # c => Unmoved(d)
         /\ apiKey' = apiKey /\ issued' = issued /\ Answers'
         /\ call[c].pc = "idle"
         /\ ForceRefresh(c) => call'[c].forced /\ call'[c].since = issued
<1>1. AuthTypeOK /\ issued \in Nat
  BY DEF UpstreamIInv, AuthIInv, AuthTypeOK
<1>2. apiKey' = apiKey /\ issued' = issued
  BY DEF AskKey, GetToken, ForceRefresh, providerVars
<1>3. CASE AskKey(c)
  <2>1. Key \in Answer /\ Key.kind = "key" /\ Key.token = 0
    BY DEF Key, Answer, None
  <2>2. apiKey /\ call[c].pc = "idle" /\ Finish(c, Key)
    BY <1>3 DEF AskKey
  <2>3. /\ \A d \in Callers : d # c => call'[d] = call[d]
        /\ call'[c].pc = "done" /\ call'[c].answer = Key
    BY <1>1, <2>1, <2>2, Finishing
  <2>4. Answers'
    BY <1>1, <1>2, <2>1, <2>2, <2>3 DEF Answers, UpstreamIInv
  <2>5. ~ForceRefresh(c)
    BY <2>2 DEF ForceRefresh
  <2> QED
    BY <1>2, <2>2, <2>3, <2>4, <2>5 DEF Unmoved
<1>4. ASSUME NEW forced \in BOOLEAN, Begin(c, forced), ForceRefresh(c) => forced
      PROVE  /\ call'[c].pc # "idle" /\ \A d \in Callers : d # c => Unmoved(d)
             /\ Answers' /\ call[c].pc = "idle"
             /\ ForceRefresh(c) => call'[c].forced /\ call'[c].since = issued
  <2>1. /\ call[c].pc = "idle" /\ call'[c].pc = "lookup" /\ call'[c].forced = forced
        /\ call'[c].answer = NoAnswer
        /\ call'[c].since = IF forced THEN issued ELSE 0
        /\ \A d \in Callers : d # c =>
              /\ call'[d].pc = call[d].pc /\ call'[d].forced = call[d].forced
              /\ call'[d].answer = call[d].answer /\ call'[d].since = call[d].since
    BY <1>1, <1>4, Beginning
  <2>2. NoAnswer.token = 0 /\ NoAnswer.kind = "none"
    BY DEF NoAnswer, None
  <2>3. Answers'
    BY <1>1, <1>2, <2>1, <2>2 DEF Answers, UpstreamIInv
  <2> QED
    BY <1>4, <2>1, <2>3 DEF Unmoved
<1>5. CASE GetToken(c) /\ ~AskKey(c)
  <2>1. Begin(c, FALSE) /\ (ForceRefresh(c) => Begin(c, TRUE))
    BY <1>5 DEF GetToken, ForceRefresh
  <2>2. ~ForceRefresh(c)
    <3> SUFFICES ASSUME ForceRefresh(c) PROVE FALSE
      OBVIOUS
    <3>1. Begin(c, TRUE)
      BY DEF ForceRefresh
    <3>2. call'[c].forced = TRUE
      BY <1>1, <3>1, Beginning
    <3>3. call'[c].forced = FALSE
      BY <1>1, <2>1, Beginning
    <3> QED
      BY <3>2, <3>3
  <2> QED
    BY <1>2, <1>4, <2>1, <2>2
<1>6. CASE ForceRefresh(c)
  <2>1. Begin(c, TRUE)
    BY <1>6 DEF ForceRefresh
  <2> QED
    BY <1>2, <1>4, <2>1
<1> QED
  BY <1>3, <1>5, <1>6
----------------------------------------------------------------------------
\* A request's step that leaves the manager alone.
LEMMA LocalKeeps ==
  ASSUME UpstreamIInv, NEW c \in Callers,
         Served(c) \/ Transient(c) \/ Fatal(c) \/ Retry(c) \/ Proceed(c)
  PROVE  UpstreamIInv'
<1>1. /\ req[c] \in Request /\ RequestInv(c) /\ issued \in Nat
      /\ AuthIInv /\ Answers
  BY DEF UpstreamIInv, UpstreamTypeOK, AuthIInv, AuthTypeOK
<1>2. UNCHANGED <<authVars, rejected>>
  BY DEF Served, Transient, Fatal, Retry, Proceed
<1>3. /\ issued' = issued /\ apiKey' = apiKey /\ call' = call /\ rejected' = rejected
      /\ UNCHANGED authVars
  BY <1>2 DEF authVars, providerVars
<1>4. AuthIInv'
  BY <1>1, <1>3, StepAuthIInv
<1>5. Answers' /\ \A d \in Callers : Unmoved(d)
  BY <1>1, <1>3 DEF Answers, Unmoved
<1>6. req[c].phase \in {"send", "backoff", "served"}
  BY DEF Served, Transient, Fatal, Retry, Proceed
<1>7. call'[c].pc = "idle"
  BY <1>1, <1>3, <1>6 DEF RequestInv, InManagerWhenWaiting
<1>8. CASE Becomes(c, NoRequest)
  <2>1. req'[c] = NoRequest => RequestInv(c)'
    BY <1>1, <1>3, <1>7, RequestEndsWell
  <2> QED
    BY <1>3, <1>4, <1>5, <1>8, <2>1, NoRequestTyped, RequestMoves
<1>9. ASSUME NEW phase \in {"served", "backoff"}, Becomes(c, [req[c] EXCEPT !.phase = phase]),
             req[c].phase = "send", phase = "backoff" => ~LastAttempt(c)
      PROVE  UpstreamIInv'
  <2> DEFINE r == [req[c] EXCEPT !.phase = phase]
  <2>1. /\ r \in Request /\ r.phase = phase /\ r.creds = req[c].creds
        /\ r.current = req[c].current /\ r.refused = req[c].refused /\ r.alone = req[c].alone
        /\ r.sent = req[c].sent /\ r.attempt = req[c].attempt /\ r.calls = req[c].calls
    BY <1>1 DEF Request
  <2>2. phase = "backoff" => req[c].attempt < 2
    BY <1>1, <1>9 DEF LastAttempt, maxAttempts, Request
  <2> HIDE DEF r
  <2>3. ASSUME req'[c] = r PROVE RequestInv(c)'
    BY <1>1, <1>3, <1>7, <1>9, <2>1, <2>2, <2>3
       DEF RequestInv, InManagerWhenWaiting, TokensIssued, NotBurnt, Counted
  <2>4. Becomes(c, r)
    BY <1>9 DEF r
  <2> QED
    BY <1>3, <1>4, <1>5, <2>1, <2>3, <2>4, RequestMoves
<1>10. CASE /\ Becomes(c, [req[c] EXCEPT !.phase = "send", !.attempt = @ + 1, !.sent = @ + 1])
            /\ req[c].phase = "backoff"
  <2> DEFINE r == [req[c] EXCEPT !.phase = "send", !.attempt = @ + 1, !.sent = @ + 1]
  <2>1. req[c].attempt < 2 /\ req[c].attempt \in 0..2 /\ req[c].sent \in Nat
        /\ req[c].calls \in 0..MaxCalls
    BY <1>1, <1>10 DEF RequestInv, Counted, Request, maxAttempts
  <2>2. r = [phase |-> "send", creds |-> req[c].creds, current |-> req[c].current,
             attempt |-> req[c].attempt + 1, calls |-> req[c].calls,
             refused |-> req[c].refused, alone |-> req[c].alone, sent |-> req[c].sent + 1]
    <3>1. ASSUME NEW q, q = [req[c] EXCEPT !.phase = "send", !.attempt = @ + 1, !.sent = @ + 1]
          PROVE  q = [phase |-> "send", creds |-> req[c].creds, current |-> req[c].current,
                      attempt |-> req[c].attempt + 1, calls |-> req[c].calls,
                      refused |-> req[c].refused, alone |-> req[c].alone,
                      sent |-> req[c].sent + 1]
      BY <1>1, <3>1 DEF Request
    <3> QED
      BY <3>1
  <2> HIDE DEF r
  <2>5. req[c].attempt + 1 \in 0..2 /\ req[c].sent + 1 \in Nat
    BY <2>1
  <2>6. /\ r \in Request /\ r.phase = "send" /\ r.creds = req[c].creds
        /\ r.current = req[c].current /\ r.refused = req[c].refused /\ r.alone = req[c].alone
        /\ r.sent = req[c].sent + 1 /\ r.attempt = req[c].attempt + 1 /\ r.calls = req[c].calls
    BY <1>1, <2>2, <2>5 DEF Request, maxAttempts
  <2>3. ASSUME req'[c] = r PROVE RequestInv(c)'
    <3>1. Counted(c)'
      BY <1>1, <1>10, <2>1, <2>6, <2>3 DEF RequestInv, Counted
    <3> QED
      BY <1>1, <1>3, <1>7, <1>10, <2>6, <2>3, <3>1
         DEF RequestInv, InManagerWhenWaiting, TokensIssued, NotBurnt
  <2>4. Becomes(c, r)
    BY <1>10 DEF r
  <2> QED
    BY <1>3, <1>4, <1>5, <2>6, <2>3, <2>4, RequestMoves
<1>11. CASE Becomes(c, StartCall(req[c])) /\ req[c].calls > 0 /\ req[c].phase = "served"
  <2>1. /\ req[c].attempt \in 0..2 /\ req[c].sent \in Nat /\ req[c].calls \in 0..MaxCalls
        /\ req[c].sent + (2 - req[c].attempt) <= 3 * (MaxCalls - req[c].calls)
    BY <1>1, <1>11 DEF RequestInv, Counted, Request, maxAttempts
  <2>2. req[c].sent <= 3 * (MaxCalls - req[c].calls)
    BY <2>1
  <2>3. req[c].creds \in 0..issued
    BY <1>1 DEF RequestInv, TokensIssued
  <2>4. req' = [req EXCEPT ![c] = StartCall(req[c])] /\ req \in [Callers -> Request]
    BY <1>11 DEF Becomes, UpstreamIInv, UpstreamTypeOK
  <2>5. req'[c] = StartCall(req[c])
    BY <2>4
  <2>6. StartCall(req[c]) \in Request /\ RequestInv(c)'
    BY <1>1, <1>3, <1>7, <1>11, <2>2, <2>3, <2>5, CallStarts
  <2> QED
    BY <1>3, <1>4, <1>5, <1>11, <2>6, RequestMoves
<1> QED
  BY <1>8, <1>9, <1>10, <1>11 DEF Served, Transient, Fatal, Retry, Proceed

----------------------------------------------------------------------------
\* A request asks for its token, or for a new one after a 403.
LEMMA ArriveKeeps ==
  ASSUME UpstreamIInv, NEW c \in Callers, Arrive(c)
  PROVE  UpstreamIInv'
<1>1. AuthIInv' /\ issued \in Nat
  <2>1. [UpstreamNext]_upstreamVars
    BY DEF UpstreamNext
  <2> QED
    BY <2>1, StepsOfManager, StepAuthIInv DEF UpstreamIInv, AuthIInv, AuthTypeOK
<1>2. /\ call'[c].pc # "idle" /\ \A d \in Callers : d # c => Unmoved(d)
      /\ apiKey' = apiKey /\ issued' = issued /\ Answers'
  BY Asking DEF Arrive
<1> DEFINE r == [NoRequest EXCEPT !.phase = "auth", !.calls = MaxCalls]
<1>3. r = [phase |-> "auth", creds |-> 0, current |-> 0, attempt |-> 0, calls |-> MaxCalls,
           refused |-> {}, alone |-> TRUE, sent |-> 0]
  <2>1. ASSUME NEW q, q = [NoRequest EXCEPT !.phase = "auth", !.calls = MaxCalls]
        PROVE  q = [phase |-> "auth", creds |-> 0, current |-> 0, attempt |-> 0,
                    calls |-> MaxCalls, refused |-> {}, alone |-> TRUE, sent |-> 0]
    BY <2>1 DEF NoRequest, None
  <2> QED
    BY <2>1
<1>4. Becomes(c, r) /\ rejected' = rejected
  BY DEF Arrive
<1> HIDE DEF r
<1>6. /\ r \in Request /\ r.phase = "auth" /\ r.calls = MaxCalls /\ r.sent = 0
      /\ r.creds = 0 /\ r.current = 0 /\ r.refused = {}
  BY <1>3 DEF Request, maxAttempts
<1>5. ASSUME req'[c] = r PROVE RequestInv(c)'
  BY <1>1, <1>2, <1>6, <1>5
     DEF RequestInv, InManagerWhenWaiting, TokensIssued, NotBurnt, Counted
<1> QED
  BY <1>1, <1>2, <1>4, <1>5, <1>6, RequestMoves

LEMMA ForbiddenKeeps ==
  ASSUME UpstreamIInv, NEW c \in Callers, Forbidden(c)
  PROVE  UpstreamIInv'
<1>1. AuthIInv' /\ issued \in Nat /\ req[c] \in Request /\ RequestInv(c) /\ Answers
  <2>1. [UpstreamNext]_upstreamVars
    BY DEF UpstreamNext, Goroutine, RequestStep
  <2> QED
    BY <2>1, StepsOfManager, StepAuthIInv
       DEF UpstreamIInv, AuthIInv, AuthTypeOK, UpstreamTypeOK
<1>2. req[c].phase = "send" /\ rejected' = rejected
  BY DEF Forbidden
<1>3. CASE Becomes(c, NoRequest) /\ UNCHANGED authVars
  <2>1. /\ issued' = issued /\ apiKey' = apiKey /\ call' = call
    BY <1>3 DEF authVars, providerVars
  <2>2. Answers' /\ \A d \in Callers : Unmoved(d)
    BY <1>1, <2>1 DEF Answers, Unmoved
  <2>3. call'[c].pc = "idle"
    BY <1>1, <1>2, <2>1 DEF RequestInv, InManagerWhenWaiting
  <2>4. req'[c] = NoRequest => RequestInv(c)'
    BY <1>1, <2>1, <2>3, RequestEndsWell
  <2> QED
    BY <1>1, <1>2, <1>3, <2>1, <2>2, <2>4, NoRequestTyped, RequestMoves
<1> DEFINE r == [req[c] EXCEPT !.phase = "refresh", !.refused = @ \cup {req[c].current}]
<1>4. CASE ~LastAttempt(c) /\ (AskKey(c) \/ ForceRefresh(c)) /\ Becomes(c, r)
  <2>1. /\ call'[c].pc # "idle" /\ \A d \in Callers : d # c => Unmoved(d)
        /\ apiKey' = apiKey /\ issued' = issued /\ Answers'
        /\ ForceRefresh(c) => call'[c].forced /\ call'[c].since = issued
    BY <1>4, Asking
  <2>2. ForceRefresh(c) \/ apiKey
    BY <1>4 DEF AskKey
  <2>3. /\ r \in Request /\ r.phase = "refresh" /\ r.creds = req[c].creds
        /\ r.current = req[c].current /\ r.refused = req[c].refused \cup {req[c].current}
        /\ r.sent = req[c].sent /\ r.attempt = req[c].attempt /\ r.calls = req[c].calls
    BY <1>1 DEF Request
  <2>4. req[c].attempt < 2
    BY <1>1, <1>4 DEF LastAttempt, maxAttempts, Request
  <2>5. Becomes(c, r)
    BY <1>4
  <2> HIDE DEF r
  <2>6. r.refused \subseteq 0..issued
    BY <1>1, <2>3 DEF RequestInv, TokensIssued
  <2>7. ASSUME req'[c] = r PROVE RequestInv(c)'
    <3>1. InManagerWhenWaiting(c)'
      BY <2>1, <2>2, <2>3, <2>6, <2>7 DEF InManagerWhenWaiting
    <3>2. TokensIssued(c)'
      BY <1>1, <2>1, <2>3, <2>6, <2>7 DEF RequestInv, TokensIssued
    <3>3. NotBurnt(c)' /\ Counted(c)'
      BY <1>1, <1>2, <2>3, <2>4, <2>7 DEF RequestInv, NotBurnt, Counted
    <3> QED
      BY <3>1, <3>2, <3>3 DEF RequestInv
  <2> QED
    BY <1>1, <1>2, <2>1, <2>3, <2>5, <2>7, RequestMoves
<1> QED
  BY <1>3, <1>4 DEF Forbidden

\* The manager's answer to a request that has just begun.
LEMMA AuthenticatedKeeps ==
  ASSUME UpstreamIInv, NEW c \in Callers, Authenticated(c)
  PROVE  UpstreamIInv'
<1>1. AuthIInv' /\ issued \in Nat /\ req[c] \in Request /\ RequestInv(c) /\ Answers
  <2>1. [UpstreamNext]_upstreamVars
    BY DEF UpstreamNext, Goroutine, RequestStep
  <2> QED
    BY <2>1, StepsOfManager, StepAuthIInv
       DEF UpstreamIInv, AuthIInv, AuthTypeOK, UpstreamTypeOK
<1>2. req[c].phase = "auth" /\ rejected' = rejected /\ Return(c)
  BY DEF Authenticated
<1>3. /\ call'[c].pc = "idle" /\ \A d \in Callers : d # c => Unmoved(d)
      /\ apiKey' = apiKey /\ issued' = issued /\ Answers'
  BY <1>2, Returning
<1>4. CASE Becomes(c, NoRequest)
  BY <1>1, <1>2, <1>3, <1>4, NoRequestTyped, RequestEndsWell, RequestMoves
<1> DEFINE r == [req[c] EXCEPT !.creds = call[c].answer.token]
<1>5. CASE Becomes(c, StartCall(r))
  <2>1. call[c].answer.token \in 0..issued /\ issued \in 0..MaxTokens
    BY <1>1 DEF Answers, UpstreamIInv, AuthIInv, AuthTypeOK
  <2>2. call[c].answer.token \in 0..MaxTokens
    BY <2>1
  <2>3. req[c].sent = 0 /\ req[c].calls = MaxCalls
    BY <1>1, <1>2 DEF RequestInv, Counted
  <2>4. /\ r \in Request /\ r.creds = call[c].answer.token /\ r.sent = 0 /\ r.calls = MaxCalls
    BY <1>1, <2>2, <2>3 DEF Request
  <2>5. Becomes(c, StartCall(r))
    BY <1>5
  <2> HIDE DEF r
  <2>6. r.calls > 0 /\ r.sent <= 3 * (MaxCalls - r.calls)
    BY <2>4
  <2>7. req \in [Callers -> Request]
    BY DEF UpstreamIInv, UpstreamTypeOK
  <2>8. req'[c] = StartCall(r)
    BY <2>5, <2>7 DEF Becomes
  <2>9. StartCall(r) \in Request /\ RequestInv(c)'
    BY <1>1, <1>3, <2>1, <2>4, <2>6, <2>8, CallStarts
  <2> QED
    BY <1>1, <1>2, <1>3, <2>5, <2>9, RequestMoves
<1> QED
  BY <1>4, <1>5 DEF Authenticated

\* The manager's answer to a 403: if nobody overlapped the refresh, it is newer
\* than everything this upstream call has seen rejected.
LEMMA RefreshedKeeps ==
  ASSUME UpstreamIInv, NEW c \in Callers, Refreshed(c)
  PROVE  UpstreamIInv'
<1>1. AuthIInv' /\ issued \in Nat /\ req[c] \in Request /\ RequestInv(c) /\ Answers
  <2>1. [UpstreamNext]_upstreamVars
    BY DEF UpstreamNext, Goroutine, RequestStep
  <2> QED
    BY <2>1, StepsOfManager, StepAuthIInv
       DEF UpstreamIInv, AuthIInv, AuthTypeOK, UpstreamTypeOK
<1>2. req[c].phase = "refresh" /\ rejected' = rejected /\ Return(c)
  BY DEF Refreshed
<1>3. /\ call'[c].pc = "idle" /\ \A d \in Callers : d # c => Unmoved(d)
      /\ apiKey' = apiKey /\ issued' = issued /\ Answers' /\ call[c].pc = "done"
  BY <1>2, Returning
<1>4. CASE Becomes(c, NoRequest)
  BY <1>1, <1>2, <1>3, <1>4, NoRequestTyped, RequestEndsWell, RequestMoves
<1> DEFINE r == [req[c] EXCEPT !.phase = "send", !.attempt = @ + 1, !.sent = @ + 1,
                               !.current = call[c].answer.token,
                               !.alone = @ /\ call[c].alone]
<1>5. CASE Becomes(c, r) /\ call[c].answer.kind # "error"
  <2>1. call[c] \in Call /\ issued \in 0..MaxTokens
    BY DEF UpstreamIInv, AuthIInv, AuthTypeOK
  <2>2. call[c].answer.token \in 0..issued
    BY <1>1 DEF Answers
  <2>3. call[c].answer.token \in 0..MaxTokens /\ call[c].alone \in BOOLEAN
    BY <2>1, <2>2 DEF Call
  <2>4. req[c].attempt < 2 /\ req[c].attempt \in 0..2 /\ req[c].sent \in Nat
        /\ req[c].calls \in 0..MaxCalls
    BY <1>1, <1>2 DEF RequestInv, Counted, Request, maxAttempts
  <2>11. r = [phase |-> "send", creds |-> req[c].creds, current |-> call[c].answer.token,
              attempt |-> req[c].attempt + 1, calls |-> req[c].calls,
              refused |-> req[c].refused, alone |-> req[c].alone /\ call[c].alone,
              sent |-> req[c].sent + 1]
    <3>1. ASSUME NEW q, q = [req[c] EXCEPT !.phase = "send", !.attempt = @ + 1, !.sent = @ + 1,
                                           !.current = call[c].answer.token,
                                           !.alone = @ /\ call[c].alone]
          PROVE  q = [phase |-> "send", creds |-> req[c].creds,
                      current |-> call[c].answer.token,
                      attempt |-> req[c].attempt + 1, calls |-> req[c].calls,
                      refused |-> req[c].refused, alone |-> req[c].alone /\ call[c].alone,
                      sent |-> req[c].sent + 1]
      BY <1>1, <3>1 DEF Request
    <3> QED
      BY <3>1
  <2>6. ~apiKey => call[c].answer.kind = "token"
    <3>1. call[c].answer.kind \in {"none", "token", "key", "error"}
      BY <2>1 DEF Call, Answer
    <3>2. call[c].answer.kind # "none" /\ (call[c].answer.kind = "key" => apiKey)
      BY <1>1, <1>3 DEF Answers
    <3> QED
      BY <1>5, <3>1, <3>2
  <2>7. ~apiKey => call[c].forced /\ req[c].refused \subseteq 0..call[c].since
    BY <1>1, <1>2 DEF RequestInv, InManagerWhenWaiting
  <2>8. ~apiKey /\ call[c].alone => call[c].answer.token \notin req[c].refused
    <3> SUFFICES ASSUME ~apiKey, call[c].alone PROVE call[c].answer.token \notin req[c].refused
      OBVIOUS
    <3>1. call[c].answer.token > call[c].since
      BY <2>6, <2>7 DEF UpstreamIInv, AuthIInv, ForcedAloneIsReal
    <3>2. call[c].since \in Nat /\ call[c].answer.token \in Nat
      BY <2>1, <2>2 DEF Call
    <3> QED
      BY <2>7, <3>1, <3>2
  <2>9. Becomes(c, r)
    BY <1>5
  <2> HIDE DEF r
  <2>12. /\ req[c].attempt + 1 \in 0..2 /\ req[c].sent + 1 \in Nat
         /\ (req[c].alone /\ call[c].alone) \in BOOLEAN
    BY <2>4
  <2>5. /\ r \in Request /\ r.phase = "send" /\ r.creds = req[c].creds
        /\ r.current = call[c].answer.token /\ r.refused = req[c].refused
        /\ r.alone = (req[c].alone /\ call[c].alone)
        /\ r.sent = req[c].sent + 1 /\ r.attempt = req[c].attempt + 1 /\ r.calls = req[c].calls
    BY <1>1, <2>3, <2>11, <2>12 DEF Request, maxAttempts
  <2>10. ASSUME req'[c] = r PROVE RequestInv(c)'
    <3>1. Counted(c)'
      BY <1>1, <1>2, <2>4, <2>5, <2>10 DEF RequestInv, Counted
    <3>2. InManagerWhenWaiting(c)' /\ TokensIssued(c)'
      BY <1>1, <1>3, <2>2, <2>5, <2>10 DEF RequestInv, InManagerWhenWaiting, TokensIssued
    <3>3. NotBurnt(c)'
      BY <1>3, <2>5, <2>8, <2>10 DEF NotBurnt
    <3> QED
      BY <3>1, <3>2, <3>3 DEF RequestInv
  <2> QED
    BY <1>1, <1>2, <1>3, <2>5, <2>9, <2>10, RequestMoves
<1> QED
  BY <1>4, <1>5 DEF Refreshed

----------------------------------------------------------------------------
LEMMA StepUpstreamIInv == UpstreamIInv /\ [UpstreamNext]_upstreamVars => UpstreamIInv'
<1> SUFFICES ASSUME UpstreamIInv, [UpstreamNext]_upstreamVars PROVE UpstreamIInv'
  OBVIOUS
<1>1. AuthIInv'
  BY StepsOfManager, StepAuthIInv DEF UpstreamIInv
<1>2. /\ AuthTypeOK /\ issued \in Nat
      /\ rejected \in SUBSET (0..MaxTokens) /\ req \in [Callers -> Request]
      /\ \A c \in Callers : RequestInv(c)
  BY DEF UpstreamIInv, AuthIInv, AuthTypeOK, UpstreamTypeOK
<1>3. ASSUME NEW c \in Callers, Arrive(c) \/ RequestStep(c) PROVE UpstreamIInv'
  BY <1>3, ArriveKeeps, AuthenticatedKeeps, LocalKeeps, ForbiddenKeeps, RefreshedKeeps
     DEF RequestStep
<1>4. CASE /\ FlightStep \/ Provider \/ (\E c \in Callers : CallStep(c))
           /\ UNCHANGED <<rejected, req>>
  <2>1. /\ \A c \in Callers : Unmoved(c)
        /\ apiKey' = apiKey /\ issued <= issued' /\ issued' \in Nat /\ Answers'
    BY <1>4, ManagerMoves
  <2>2. \A c \in Callers : RequestInv(c)'
    BY <1>2, <1>4, <2>1, RequestStays DEF Unmoved
  <2> QED
    BY <1>1, <1>2, <1>4, <2>1, <2>2 DEF UpstreamIInv, UpstreamTypeOK
<1>5. CASE Revoke \/ UNCHANGED upstreamVars
  <2>1. UNCHANGED <<authVars, req>>
    BY <1>5 DEF Revoke, upstreamVars
  <2>2. call' = call /\ issued' = issued /\ apiKey' = apiKey /\ req' = req
    BY <2>1 DEF authVars, providerVars
  <2>3. rejected' \in SUBSET (0..MaxTokens)
    <3>1. ASSUME Revoke PROVE \E t \in 0..MaxTokens : rejected' = rejected \cup {t}
      <4>1. 1..issued \subseteq 0..MaxTokens /\ None \in 0..MaxTokens
        BY <1>2 DEF AuthTypeOK, None
      <4> QED
        BY <3>1, <4>1 DEF Revoke
    <3> QED
      BY <1>2, <1>5, <3>1 DEF upstreamVars
  <2>4. Answers'
    BY <2>2 DEF UpstreamIInv, Answers
  <2>5. \A c \in Callers : RequestInv(c)'
    BY <1>2, <2>2 DEF RequestInv, InManagerWhenWaiting, TokensIssued, NotBurnt, Counted
  <2> QED
    BY <1>1, <1>2, <2>2, <2>3, <2>4, <2>5 DEF UpstreamIInv, UpstreamTypeOK
<1> QED
  BY <1>3, <1>4, <1>5 DEF UpstreamNext, Goroutine, InManager

----------------------------------------------------------------------------
\* The requests use the manager as AuthManager says any caller may: what is
\* proved of AuthSpec holds under the real attempt loop.
THEOREM UpstreamImplementsAuth == UpstreamSpec => AuthSpec
<1>1. UpstreamInit => AuthInit
  BY DEF UpstreamInit
<1> QED
  BY <1>1, StepsOfManager, PTL DEF UpstreamSpec, AuthSpec

\* The inductive invariant holds of every reachable state.
THEOREM UpstreamInvariance == UpstreamSpec => []UpstreamIInv
  BY InitUpstreamIInv, StepUpstreamIInv, PTL DEF UpstreamSpec

\* Every variable of the requests keeps its type; in particular the attempt
\* never exceeds maxAttempts.
THEOREM UpstreamTypeCorrect == UpstreamSpec => []UpstreamTypeOK
<1>1. UpstreamIInv => UpstreamTypeOK
  BY DEF UpstreamIInv
<1> QED
  BY <1>1, UpstreamInvariance, PTL

\* However many requests share the manager, an upstream call whose forced
\* refreshes nobody overlapped never presents a token it has seen rejected.
THEOREM UpstreamRetryIsNotBurnt == UpstreamSpec => []RetryIsNotBurnt
<1>1. UpstreamIInv => RetryIsNotBurnt
  BY DEF UpstreamIInv, RequestInv, NotBurnt, RetryIsNotBurnt
<1> QED
  BY <1>1, UpstreamInvariance, PTL

\* However tokens are revoked, a request costs at most maxAttempts attempts in
\* each of its upstream calls.
THEOREM UpstreamAttemptsBounded == UpstreamSpec => []AttemptsBounded
<1>1. UpstreamIInv => AttemptsBounded
  <2> SUFFICES ASSUME UpstreamIInv, NEW c \in Callers, req[c].phase # "idle"
               PROVE  req[c].sent <= maxAttempts * (MaxCalls - req[c].calls)
    BY DEF AttemptsBounded
  <2>1. req[c] \in Request /\ Counted(c)
    BY DEF UpstreamIInv, UpstreamTypeOK, RequestInv
  <2>2. req[c].attempt \in 0..2 /\ req[c].sent \in Nat /\ req[c].calls \in 0..MaxCalls
    BY <2>1 DEF Request, maxAttempts
  <2> QED
    BY <2>1, <2>2 DEF Counted, maxAttempts
<1> QED
  BY <1>1, UpstreamInvariance, PTL
=============================================================================
