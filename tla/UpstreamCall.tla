---------------------------- MODULE UpstreamCall ----------------------------
(***************************************************************************)
(* Requests that call the Kiro API: each takes a token from the manager    *)
(* once, when it starts, and uses that token for every upstream call it    *)
(* makes (a retry of the request, a round of a server tool).  One upstream *)
(* call is a loop of up to maxAttempts HTTP attempts, with backoff after a *)
(* transient failure and a forced token refresh after a 403.               *)
(*                                                                         *)
(* The upstream rejects a token from the moment it is revoked; any attempt *)
(* may also fail for reasons of its own.                                   *)
(***************************************************************************)
EXTENDS AuthManager

CONSTANTS MaxCalls      \* bound on the upstream calls of one request

ASSUME MaxCallsAssumption == MaxCalls \in Nat \ {0}

VARIABLES
    rejected,   \* tokens the upstream answers with 403 (None stands for the API key)
    req         \* each request's handler goroutine

upstreamVars == <<authVars, rejected, req>>

maxAttempts == 3

\* creds: the token taken at the start.  current, attempt: GenerateAssistantResponse's
\* loop.  calls: upstream calls left.  refused, alone: history of this upstream
\* call, the tokens that got a 403 and that no other call overlapped its refreshes.
\* sent: history of the request, the HTTP attempts it has made.
Request == [phase : {"idle", "auth", "send", "backoff", "refresh", "served"},
            creds : 0..MaxTokens, current : 0..MaxTokens,
            attempt : 0..(maxAttempts - 1), calls : 0..MaxCalls,
            refused : SUBSET (0..MaxTokens), alone : BOOLEAN, sent : Nat]
NoRequest == [phase |-> "idle", creds |-> None, current |-> None, attempt |-> 0,
              calls |-> 0, refused |-> {}, alone |-> TRUE, sent |-> 0]

Becomes(c, r) == req' = [req EXCEPT ![c] = r]
LastAttempt(c) == req[c].attempt = maxAttempts - 1

\* HandleMessages asks for credentials once.
Arrive(c) ==
    /\ req[c].phase = "idle"
    /\ AskKey(c) \/ GetToken(c)
    /\ Becomes(c, [NoRequest EXCEPT !.phase = "auth", !.calls = MaxCalls])
    /\ UNCHANGED rejected

\* GenerateAssistantResponse starts over with the token the request took.
StartCall(r) == [r EXCEPT !.phase = "send", !.current = r.creds, !.attempt = 0,
                          !.calls = @ - 1, !.refused = {}, !.alone = TRUE,
                          !.sent = @ + 1]

Authenticated(c) ==
    /\ req[c].phase = "auth"
    /\ Return(c)
    /\ Becomes(c, IF call[c].answer.kind = "error" THEN NoRequest
                  ELSE StartCall([req[c] EXCEPT !.creds = call[c].answer.token]))
    /\ UNCHANGED rejected

----------------------------------------------------------------------------
\* An attempt is answered with an event stream ...
Served(c) ==
    /\ req[c].phase = "send"
    /\ req[c].current \notin rejected
    /\ Becomes(c, [req[c] EXCEPT !.phase = "served"])
    /\ UNCHANGED <<authVars, rejected>>

\* ... with a transient error: transport, 429, 5xx, or a retryable exception ...
Transient(c) ==
    /\ req[c].phase = "send"
    /\ Becomes(c, IF LastAttempt(c) THEN NoRequest ELSE [req[c] EXCEPT !.phase = "backoff"])
    /\ UNCHANGED <<authVars, rejected>>

\* ... with any other error, which ends the request ...
Fatal(c) ==
    /\ req[c].phase = "send"
    /\ Becomes(c, NoRequest)
    /\ UNCHANGED <<authVars, rejected>>

\* ... or with 403: force a refresh, unless this was the last attempt.
Forbidden(c) ==
    /\ req[c].phase = "send"
    /\ req[c].current \in rejected
    /\ \/ /\ LastAttempt(c)
          /\ Becomes(c, NoRequest)
          /\ UNCHANGED authVars
       \/ /\ ~LastAttempt(c)
          /\ AskKey(c) \/ ForceRefresh(c)
          /\ Becomes(c, [req[c] EXCEPT !.phase = "refresh", !.refused = @ \cup {req[c].current}])
    /\ UNCHANGED rejected

\* retryWait: the delay passes, or the client has gone.
Retry(c) ==
    /\ req[c].phase = "backoff"
    /\ \/ Becomes(c, [req[c] EXCEPT !.phase = "send", !.attempt = @ + 1, !.sent = @ + 1])
       \/ Becomes(c, NoRequest)
    /\ UNCHANGED <<authVars, rejected>>

\* Mutant: a 403 with a fresh token does not count as an attempt.
RefreshedUncounted(c) ==
    /\ req[c].phase = "refresh"
    /\ Return(c)
    /\ Becomes(c, IF call[c].answer.kind = "error" THEN NoRequest
                  ELSE [req[c] EXCEPT !.phase = "send", !.sent = @ + 1,
                          !.current = call[c].answer.token,
                          !.alone = @ /\ call[c].alone])
    /\ UNCHANGED rejected

\* Mutant: the refreshed token is not used.
RefreshedIgnored(c) ==
    /\ req[c].phase = "refresh"
    /\ Return(c)
    /\ Becomes(c, IF call[c].answer.kind = "error" THEN NoRequest
                  ELSE [req[c] EXCEPT !.phase = "send", !.attempt = @ + 1, !.sent = @ + 1,
                          !.alone = @ /\ call[c].alone])
    /\ UNCHANGED rejected

\* The refresher answers: at once a new attempt, or the 403 is final.
Refreshed(c) ==
    /\ req[c].phase = "refresh"
    /\ Return(c)
    /\ Becomes(c, IF call[c].answer.kind = "error" THEN NoRequest
                  ELSE [req[c] EXCEPT !.phase = "send", !.attempt = @ + 1, !.sent = @ + 1,
                          !.current = call[c].answer.token,
                          !.alone = @ /\ call[c].alone])
    /\ UNCHANGED rejected

\* The stream has been read: the request ends, or calls the upstream again.
Proceed(c) ==
    /\ req[c].phase = "served"
    /\ \/ Becomes(c, NoRequest)
       \/ req[c].calls > 0 /\ Becomes(c, StartCall(req[c]))
    /\ UNCHANGED <<authVars, rejected>>

\* The account's owner or the service revokes a token.
Revoke ==
    /\ \E t \in (IF apiKey THEN {None} ELSE 1..issued) :
          t \notin rejected /\ rejected' = rejected \cup {t}
    /\ UNCHANGED <<authVars, req>>

----------------------------------------------------------------------------
UpstreamInit ==
    /\ AuthInit
    /\ rejected = {}
    /\ req = [c \in Callers |-> NoRequest]

RequestStep(c) == Authenticated(c) \/ Served(c) \/ Transient(c) \/ Fatal(c)
                     \/ Forbidden(c) \/ Retry(c) \/ Refreshed(c) \/ Proceed(c)

InManager(step) == step /\ UNCHANGED <<rejected, req>>
Goroutine(c) == RequestStep(c) \/ InManager(CallStep(c))

UpstreamNext ==
    \/ \E c \in Callers : Arrive(c) \/ Goroutine(c)
    \/ InManager(FlightStep) \/ InManager(Provider)
    \/ Revoke

UpstreamSpec == UpstreamInit /\ [][UpstreamNext]_upstreamVars

----------------------------------------------------------------------------
UpstreamTypeOK ==
    /\ rejected \in SUBSET (0..MaxTokens)
    /\ req \in [Callers -> Request]

\* An attempt after a 403 never presents a token this upstream call has already
\* seen rejected, provided no other call overlapped the forced refresh.
RetryIsNotBurnt ==
    \A c \in Callers : req[c].alone /\ req[c].phase = "send" /\ ~apiKey
                           => req[c].current \notin req[c].refused

\* However tokens are revoked and refreshed under it, a request makes at most
\* maxAttempts attempts in each of its upstream calls, the refreshed ones included.
AttemptsBounded ==
    \A c \in Callers : req[c].phase # "idle" => req[c].sent <= maxAttempts * (MaxCalls - req[c].calls)

\* The comment on ForceRefresh: the 403 path never serves the rejected token
\* again to the call that reported it.
RejectedNotReserved ==
    \A c \in Callers :
        req[c].phase = "refresh" /\ call[c].answer.kind = "token"
            => call[c].answer.token \notin req[c].refused
=============================================================================
