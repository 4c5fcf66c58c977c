------------------------- MODULE AuthManagerProofs -------------------------
(***************************************************************************)
(* Proofs about AuthManager, for any number of callers and tokens: no call *)
(* is answered with a token that had expired before it was asked for,      *)
(* nobody refreshes while a usable token is cached, and a ForceRefresh     *)
(* that no other call overlaps delivers a token newer than all issued      *)
(* before it.                                                              *)
(***************************************************************************)
EXTENDS AuthManager, TLAPS

\* Whatever the manager holds was issued by somebody.
Known == /\ cached \in 0..issued /\ db \in 0..issued /\ flight.token \in 0..issued
         /\ flight.old \subseteq 1..issued
         /\ \A c \in Callers : call[c].since \in 0..issued

\* The callers of a flight are exactly those that wait, and none flies empty.
FlightManned ==
    /\ \A c \in Callers : c \in flight.callers <=> call[c].pc = "wait"
    /\ flight.step = "none" <=> flight.callers = {}

\* What had expired when the flight took off stays expired.
ExpiredStays == flight.old \cap valid = {}

\* A token on its way to the callers had not expired when the flight took off.
FlightFresh == flight.step \in {"install", "leave"} => flight.token \notin flight.old

\* Once an unforced flight has missed the cache, nothing usable gets into it
\* before the flight installs its own token: there is only one flight.
StillNeeded ==
    flight.step \in {"read", "refresh"} /\ ~flight.forced => cached \notin valid

\* How far a forced call that nobody overlaps has got: the flag it raised is
\* there until its own flight takes it, and that flight then refreshes.
AloneProgress(c) ==
    call[c].forced /\ call[c].alone =>
        /\ Busy(c) => (\A d \in Callers : Busy(d) => d = c) /\ call[c].answer = NoAnswer
        /\ call[c].pc \in {"lookup", "do"} => forceRefresh /\ cached = None
        /\ call[c].pc = "wait" =>
              /\ flight.step = "begin" => forceRefresh
              /\ flight.step \in {"read", "refresh"} => flight.forced
              /\ flight.step \in {"install", "leave"} => flight.token > call[c].since

AuthIInv ==
    /\ AuthTypeOK /\ Known /\ FlightManned
    /\ ExpiredStays /\ FlightFresh
    /\ StillNeeded
    /\ \A c \in Callers : AloneProgress(c)
    /\ ForcedAloneIsReal

USE MaxTokensAssumption
----------------------------------------------------------------------------
LEMMA InitAuthIInv == AuthInit => AuthIInv
<1> SUFFICES ASSUME AuthInit PROVE AuthIInv
  OBVIOUS
<1>1. Idle \in Call /\ NoFlight \in Flight
  BY DEF Idle, Call, NoAnswer, Answer, None, NoFlight, Flight
<1>2. AuthTypeOK
  <2>1. call \in [Callers -> Call] /\ flight \in Flight
    BY <1>1 DEF AuthInit
  <2>2. db \in 0..MaxTokens /\ issued \in 0..MaxTokens /\ cached \in 0..MaxTokens
    BY DEF AuthInit, None
  <2>3. valid \in SUBSET (1..issued)
    BY DEF AuthInit
  <2> QED
    BY <2>1, <2>2, <2>3 DEF AuthInit, AuthTypeOK
<1>3. Known /\ FlightManned /\ ExpiredStays /\ FlightFresh /\ StillNeeded
  BY DEF AuthInit, Known, FlightManned, ExpiredStays, FlightFresh, StillNeeded,
         NoFlight, Idle, None
<1>4. (\A c \in Callers : AloneProgress(c)) /\ ForcedAloneIsReal
  BY DEF AuthInit, AloneProgress, ForcedAloneIsReal, Idle
<1> QED
  BY <1>2, <1>3, <1>4 DEF AuthIInv

----------------------------------------------------------------------------
\* How the helpers change the callers' records.
LEMMA Landing ==
  ASSUME AuthTypeOK, FlightManned, NEW answer \in Answer, Land(answer)
  PROVE  /\ flight' = NoFlight /\ call' \in [Callers -> Call]
         /\ \A c \in Callers :
               IF call[c].pc = "wait"
               THEN call'[c].pc = "done" /\ call'[c].answer = answer
                       /\ call'[c].forced = call[c].forced
                       /\ call'[c].since = call[c].since
                       /\ call'[c].alone = call[c].alone /\ call'[c].old = call[c].old
               ELSE call'[c] = call[c]
<1>1. call' = [c \in Callers |->
                  IF c \in flight.callers
                  THEN [call[c] EXCEPT !.pc = "done", !.answer = answer]
                  ELSE call[c]]
  BY DEF Land
<1>2. \A c \in Callers : [call[c] EXCEPT !.pc = "done", !.answer = answer] \in Call
  BY DEF AuthTypeOK, Call
<1>3. call' \in [Callers -> Call]
  BY <1>1, <1>2 DEF AuthTypeOK
<1>4. \A c \in Callers : c \in flight.callers <=> call[c].pc = "wait"
  BY DEF FlightManned
<1>5. \A c \in Callers :
        LET r == [call[c] EXCEPT !.pc = "done", !.answer = answer]
        IN  r.pc = "done" /\ r.answer = answer /\ r.forced = call[c].forced
               /\ r.since = call[c].since /\ r.alone = call[c].alone /\ r.old = call[c].old
  BY DEF AuthTypeOK, Call
<1>6. flight' = NoFlight
  BY DEF Land
<1> QED
  BY <1>1, <1>3, <1>4, <1>5, <1>6

LEMMA Finishing ==
  ASSUME AuthTypeOK, NEW c \in Callers, NEW answer \in Answer, Finish(c, answer)
  PROVE  /\ call' \in [Callers -> Call]
         /\ \A d \in Callers : d # c => call'[d] = call[d]
         /\ call'[c].pc = "done" /\ call'[c].answer = answer /\ call'[c].old = call[c].old
         /\ call'[c].forced = call[c].forced /\ call'[c].since = call[c].since
         /\ call'[c].alone = call[c].alone
  BY DEF Finish, AuthTypeOK, Call

LEMMA Advancing ==
  ASSUME AuthTypeOK, NEW c \in Callers, NEW pc \in {"do", "wait"},
         call' = [call EXCEPT ![c].pc = pc]
  PROVE  /\ call' \in [Callers -> Call]
         /\ \A d \in Callers : d # c => call'[d] = call[d]
         /\ call'[c].old = call[c].old
         /\ call'[c].pc = pc /\ call'[c].answer = call[c].answer
         /\ call'[c].forced = call[c].forced /\ call'[c].since = call[c].since
         /\ call'[c].alone = call[c].alone
  BY DEF AuthTypeOK, Call

LEMMA Beginning ==
  ASSUME AuthTypeOK, NEW c \in Callers, NEW forced \in BOOLEAN, Begin(c, forced)
  PROVE  /\ call' \in [Callers -> Call]
         /\ call[c].pc = "idle" /\ call'[c].pc = "lookup" /\ call'[c].forced = forced
         /\ call'[c].answer = NoAnswer /\ call'[c].old = Expired
         /\ call'[c].since = IF forced THEN issued ELSE 0
         /\ call'[c].alone = (forced => \A e \in Callers : ~Busy(e))
         /\ \A d \in Callers : d # c =>
               /\ call'[d].pc = call[d].pc /\ call'[d].forced = call[d].forced
               /\ call'[d].answer = call[d].answer /\ call'[d].since = call[d].since
               /\ call'[d].old = call[d].old
               /\ call'[d].alone = (call[d].alone /\ ~(call[d].forced /\ Busy(d)))
<1> DEFINE mine == [pc |-> "lookup", forced |-> forced,
                    since |-> IF forced THEN issued ELSE 0,
                    alone |-> forced => \A e \in Callers : ~Busy(e),
                    old |-> Expired, answer |-> NoAnswer]
           other(d) == [call[d] EXCEPT !.alone = @ /\ ~(call[d].forced /\ Busy(d))]
<1>1. call' = [d \in Callers |-> IF d = c THEN mine ELSE other(d)] /\ call[c].pc = "idle"
  BY DEF Begin
<1>2. mine \in Call
  <2>1. Expired \subseteq Tokens
    BY DEF Expired, Tokens, AuthTypeOK
  <2> QED
    BY <2>1 DEF Call, AuthTypeOK, NoAnswer, Answer, None
<1>3. \A d \in Callers : call[d] \in Call
  BY DEF AuthTypeOK
<1>4. \A d \in Callers :
        /\ other(d) \in Call
        /\ other(d).pc = call[d].pc /\ other(d).forced = call[d].forced
        /\ other(d).answer = call[d].answer /\ other(d).since = call[d].since
        /\ other(d).old = call[d].old
        /\ other(d).alone = (call[d].alone /\ ~(call[d].forced /\ Busy(d)))
  BY <1>3 DEF Call, Busy
<1>5. /\ mine.pc = "lookup" /\ mine.forced = forced /\ mine.answer = NoAnswer
      /\ mine.old = Expired
      /\ mine.since = IF forced THEN issued ELSE 0
      /\ mine.alone = (forced => \A e \in Callers : ~Busy(e))
  OBVIOUS
<1> HIDE DEF mine, other
<1> QED
  BY <1>1, <1>2, <1>4, <1>5

----------------------------------------------------------------------------
\* A landing keeps the invariant, if it answers a lone forced call honestly.
LEMMA LandKeeps ==
  ASSUME AuthIInv, NEW answer \in Answer, Land(answer), flight.step # "none",
         UNCHANGED <<providerVars, cached>>, forceRefresh' \in BOOLEAN,
         \A c \in Callers :
            call[c].pc = "wait" /\ call[c].forced /\ call[c].alone /\ answer.kind = "token"
               => answer.token > call[c].since
  PROVE  AuthIInv'
<1>1. /\ flight' = NoFlight /\ call' \in [Callers -> Call]
      /\ \A c \in Callers :
            IF call[c].pc = "wait"
            THEN call'[c].pc = "done" /\ call'[c].answer = answer
                    /\ call'[c].forced = call[c].forced
                    /\ call'[c].since = call[c].since
                    /\ call'[c].alone = call[c].alone
            ELSE call'[c] = call[c]
  BY Landing DEF AuthIInv
<1>2. NoFlight \in Flight /\ NoFlight.step = "none" /\ NoFlight.token = 0
         /\ NoFlight.old = {} /\ NoFlight.callers = {} /\ ~NoFlight.forced
  BY DEF NoFlight, Flight, None
<1>3. PICK w \in Callers : call[w].pc = "wait"
  <2>1. PICK w \in flight.callers : TRUE
    BY DEF AuthIInv, FlightManned
  <2>2. w \in Callers
    BY DEF AuthIInv, AuthTypeOK, Flight
  <2> QED
    BY <2>1, <2>2 DEF AuthIInv, FlightManned
<1>4. AuthTypeOK'
  BY <1>1, <1>2 DEF AuthIInv, AuthTypeOK, providerVars
<1>5. Known'
  <2>1. \A c \in Callers : call'[c].since = call[c].since
    BY <1>1
  <2> QED
    BY <1>1, <1>2, <2>1 DEF AuthIInv, AuthTypeOK, Known, providerVars
<1>6. FlightManned'
  <2>1. \A c \in Callers : call'[c].pc # "wait"
    BY <1>1
  <2> QED
    BY <1>1, <1>2, <2>1 DEF FlightManned
<1>7. ExpiredStays' /\ FlightFresh' /\ StillNeeded'
  BY <1>1, <1>2 DEF ExpiredStays, FlightFresh, StillNeeded
<1>8. ASSUME NEW c \in Callers PROVE AloneProgress(c)'
  <2> SUFFICES ASSUME call'[c].forced, call'[c].alone
               PROVE  ~Busy(c)'
    BY DEF AloneProgress, Busy
  <2>1. CASE call[c].pc = "wait"
    BY <1>1, <2>1 DEF Busy
  <2>2. CASE call[c].pc # "wait"
    <3>1. call'[c] = call[c]
      BY <1>1, <2>2
    <3>2. ~Busy(c)
      BY <1>3, <2>2, <3>1 DEF AuthIInv, AloneProgress, Busy
    <3> QED
      BY <3>1, <3>2 DEF Busy
  <2> QED
    BY <2>1, <2>2
<1>9. ForcedAloneIsReal'
  <2> SUFFICES ASSUME NEW c \in Callers, call'[c].forced, call'[c].alone,
                      call'[c].answer.kind = "token"
               PROVE  call'[c].answer.token > call'[c].since
    BY DEF ForcedAloneIsReal
  <2>1. CASE call[c].pc = "wait"
    BY <1>1, <2>1
  <2>2. CASE call[c].pc # "wait"
    BY <1>1, <2>2 DEF AuthIInv, ForcedAloneIsReal
  <2> QED
    BY <2>1, <2>2
<1> QED
  BY <1>4, <1>5, <1>6, <1>7, <1>8, <1>9 DEF AuthIInv

\* A step that leaves the callers alone keeps what the invariant says of them,
\* if it does not disturb a lone forced call.
LEMMA CallersKept ==
  ASSUME AuthIInv, UNCHANGED call, flight'.callers = flight.callers,
         (flight'.step = "none") = (flight.step = "none"),
         forceRefresh => forceRefresh' \/ flight.step # "none",
         cached = None => cached' = None \/ flight.step # "none",
         flight'.step = "begin" /\ forceRefresh => forceRefresh',
         flight'.step = "begin" => flight.step = "begin",
         \A c \in Callers : call[c].pc = "wait" /\ call[c].forced /\ call[c].alone =>
            /\ flight'.step \in {"read", "refresh"} => flight'.forced
            /\ flight'.step \in {"install", "leave"} => flight'.token > call[c].since
  PROVE  FlightManned' /\ (\A c \in Callers : AloneProgress(c)') /\ ForcedAloneIsReal'
<1>1. FlightManned'
  BY DEF AuthIInv, FlightManned
<1>2. ASSUME NEW c \in Callers PROVE AloneProgress(c)'
  <2> SUFFICES ASSUME call[c].forced, call[c].alone
               PROVE  AloneProgress(c)'
    BY DEF AloneProgress
  <2>1. AloneProgress(c) /\ FlightManned
    BY DEF AuthIInv
  <2>2. CASE ~Busy(c)
    BY <2>2 DEF AloneProgress, Busy
  <2>3. CASE call[c].pc \in {"lookup", "do"}
    <3>1. flight.step = "none"
      <4>1. \A d \in Callers : call[d].pc # "wait"
        BY <2>1, <2>3 DEF AloneProgress, Busy
      <4>2. flight.callers \subseteq Callers
        BY DEF AuthIInv, AuthTypeOK, Flight
      <4> QED
        BY <2>1, <4>1, <4>2 DEF FlightManned
    <3> QED
      BY <2>1, <2>3, <3>1 DEF AloneProgress, Busy
  <2>4. CASE call[c].pc = "wait"
    <3>1. flight'.step = "begin" => forceRefresh'
      BY <2>1, <2>4 DEF AloneProgress
    <3> QED
      BY <2>1, <2>4, <3>1 DEF AloneProgress, Busy
  <2> QED
    BY <2>2, <2>3, <2>4 DEF Busy
<1>3. ForcedAloneIsReal'
  BY DEF AuthIInv, ForcedAloneIsReal
<1> QED
  BY <1>1, <1>2, <1>3

----------------------------------------------------------------------------
\* One caller of a lone forced call's manager: while it is busy nobody else is,
\* and before it boards there is no flight.
LEMMA NoFlightBeforeBoarding ==
  ASSUME AuthIInv, \A c \in Callers : call[c].pc # "wait"
  PROVE  flight.step = "none" /\ flight.callers = {}
<1>1. flight.callers \subseteq Callers
  BY DEF AuthIInv, AuthTypeOK, Flight
<1> QED
  BY <1>1 DEF AuthIInv, FlightManned

\* A step of one caller that the others do not notice.
LEMMA CallerMoves ==
  ASSUME AuthIInv, NEW c \in Callers, call' \in [Callers -> Call],
         \A d \in Callers : d # c => call'[d] = call[d],
         UNCHANGED <<providerVars, cached, forceRefresh, flight>>,
         call[c].pc # "wait", call'[c].pc # "wait",
         Busy(c)' => Busy(c), call'[c].since \in 0..issued,
         AloneProgress(c)',
         call'[c].forced /\ call'[c].alone /\ call'[c].answer.kind = "token"
            => call'[c].answer.token > call'[c].since
  PROVE  AuthIInv'
<1>1. AuthTypeOK'
  BY DEF AuthIInv, AuthTypeOK, providerVars
<1>2. Known'
  BY DEF AuthIInv, Known, providerVars
<1>3. FlightManned'
  <2>1. \A d \in Callers : call'[d].pc = "wait" <=> call[d].pc = "wait"
    OBVIOUS
  <2> QED
    BY <2>1 DEF AuthIInv, FlightManned
<1>4. ExpiredStays' /\ FlightFresh' /\ StillNeeded'
  BY DEF AuthIInv, ExpiredStays, FlightFresh, StillNeeded, providerVars
<1>5. ASSUME NEW d \in Callers, d # c PROVE AloneProgress(d)'
  <2>1. call'[d] = call[d] /\ AloneProgress(d)
    BY <1>5 DEF AuthIInv
  <2>2. \A e \in Callers : Busy(e)' => Busy(e)
    BY DEF Busy
  <2>3. Busy(d)' = Busy(d)
    BY <2>1 DEF Busy
  <2> HIDE DEF Busy
  <2> QED
    BY <2>1, <2>2, <2>3 DEF AloneProgress
<1>6. ForcedAloneIsReal'
  BY DEF AuthIInv, ForcedAloneIsReal
<1> QED
  BY <1>1, <1>2, <1>3, <1>4, <1>5, <1>6 DEF AuthIInv

LEMMA AskKeyKeeps ==
  ASSUME AuthIInv, NEW c \in Callers, AskKey(c)
  PROVE  AuthIInv'
<1>1. Key \in Answer /\ Key.kind = "key"
  BY DEF Key, Answer, None
<1>2. /\ call' \in [Callers -> Call] /\ \A d \in Callers : d # c => call'[d] = call[d]
      /\ call'[c].pc = "done" /\ call'[c].answer = Key
      /\ call'[c].forced = call[c].forced /\ call'[c].since = call[c].since
      /\ call'[c].alone = call[c].alone
  BY <1>1, Finishing DEF AskKey, AuthIInv
<1>3. call'[c].since \in 0..issued
  BY <1>2 DEF AuthIInv, Known
<1>4. AloneProgress(c)'
  BY <1>2 DEF AloneProgress, Busy
<1> QED
  BY <1>1, <1>2, <1>3, <1>4, CallerMoves DEF AskKey, Busy

LEMMA LookupKeeps ==
  ASSUME AuthIInv, NEW c \in Callers, Lookup(c)
  PROVE  AuthIInv'
<1>1. call[c].pc = "lookup" /\ UNCHANGED <<providerVars, cached, forceRefresh, flight>>
  BY DEF Lookup
<1>2. CASE cached \in valid
  <2>1. Token(cached) \in Answer
    BY DEF Token, Answer, AuthIInv, AuthTypeOK
  <2>2. /\ call' \in [Callers -> Call] /\ \A d \in Callers : d # c => call'[d] = call[d]
        /\ call'[c].pc = "done"
        /\ call'[c].forced = call[c].forced /\ call'[c].since = call[c].since
        /\ call'[c].alone = call[c].alone
    BY <1>2, <2>1, Finishing DEF Lookup, AuthIInv
  <2>3. call'[c].since \in 0..issued
    BY <2>2 DEF AuthIInv, Known
  <2>4. ~(call[c].forced /\ call[c].alone)
    <3>1. cached # None
      BY <1>2 DEF AuthIInv, AuthTypeOK, None
    <3> QED
      BY <1>1, <3>1 DEF AuthIInv, AloneProgress
  <2>5. AloneProgress(c)'
    BY <2>2 DEF AloneProgress, Busy
  <2> QED
    BY <1>1, <2>2, <2>3, <2>4, <2>5, CallerMoves DEF Busy
<1>3. CASE cached \notin valid
  <2>1. /\ call' \in [Callers -> Call] /\ \A d \in Callers : d # c => call'[d] = call[d]
        /\ call'[c].pc = "do" /\ call'[c].answer = call[c].answer
        /\ call'[c].forced = call[c].forced /\ call'[c].since = call[c].since
        /\ call'[c].alone = call[c].alone
    BY <1>3, Advancing DEF Lookup, AuthIInv
  <2>2. call'[c].since \in 0..issued
    BY <2>1 DEF AuthIInv, Known
  <2>3. AloneProgress(c)'
    <3>1. AloneProgress(c)
      BY DEF AuthIInv
    <3>2. \A d \in Callers : Busy(d)' => Busy(d)
      BY <1>1, <2>1 DEF Busy
    <3> QED
      BY <1>1, <2>1, <3>1, <3>2 DEF AloneProgress, Busy
  <2>4. call'[c].forced /\ call'[c].alone /\ call'[c].answer.kind = "token"
            => call'[c].answer.token > call'[c].since
    BY <2>1 DEF AuthIInv, ForcedAloneIsReal
  <2> QED
    BY <1>1, <2>1, <2>2, <2>3, <2>4, CallerMoves DEF Busy
<1> QED
  BY <1>2, <1>3

LEMMA ReturnKeeps ==
  ASSUME AuthIInv, NEW c \in Callers, Return(c)
  PROVE  AuthIInv'
<1>1. /\ call[c].pc = "done" /\ call' = [call EXCEPT ![c] = Idle]
      /\ UNCHANGED <<providerVars, cached, forceRefresh, flight>>
  BY DEF Return
<1>2. Idle \in Call /\ Idle.pc = "idle" /\ ~Idle.forced /\ Idle.since = 0
  BY DEF Idle, Call, NoAnswer, Answer, None
<1>3. /\ call' \in [Callers -> Call] /\ \A d \in Callers : d # c => call'[d] = call[d]
      /\ call'[c] = Idle
  BY <1>1, <1>2 DEF AuthIInv, AuthTypeOK
<1>4. call'[c].since \in 0..issued
  BY <1>2, <1>3 DEF AuthIInv, AuthTypeOK
<1>5. AloneProgress(c)'
  BY <1>2, <1>3 DEF AloneProgress
<1> QED
  BY <1>1, <1>2, <1>3, <1>4, <1>5, CallerMoves DEF Busy

\* A call starts: it overlaps, and is overlapped by, every call in progress.
LEMMA BeginKeeps ==
  ASSUME AuthIInv, NEW c \in Callers, NEW forced \in BOOLEAN, Begin(c, forced),
         UNCHANGED <<providerVars, flight>>,
         IF forced THEN forceRefresh' /\ forceRefresh' \in BOOLEAN /\ cached' = None
                   ELSE UNCHANGED <<cached, forceRefresh>>
  PROVE  AuthIInv'
<1>1. /\ call' \in [Callers -> Call]
      /\ call[c].pc = "idle" /\ call'[c].pc = "lookup" /\ call'[c].forced = forced
      /\ call'[c].answer = NoAnswer
      /\ call'[c].since = IF forced THEN issued ELSE 0
      /\ call'[c].alone = (forced => \A e \in Callers : ~Busy(e))
      /\ \A d \in Callers : d # c =>
            /\ call'[d].pc = call[d].pc /\ call'[d].forced = call[d].forced
            /\ call'[d].answer = call[d].answer /\ call'[d].since = call[d].since
            /\ call'[d].alone = (call[d].alone /\ ~(call[d].forced /\ Busy(d)))
  BY Beginning DEF AuthIInv
<1>2. AuthTypeOK'
  BY <1>1 DEF AuthIInv, AuthTypeOK, providerVars, None
<1>3. Known'
  <2>1. \A d \in Callers : call'[d].since \in 0..issued
    BY <1>1 DEF AuthIInv, AuthTypeOK, Known
  <2>2. cached' \in 0..issued
    BY DEF AuthIInv, AuthTypeOK, Known, None
  <2> QED
    BY <2>1, <2>2 DEF AuthIInv, Known, providerVars
<1>4. \A d \in Callers : call'[d].pc = "wait" <=> call[d].pc = "wait"
  BY <1>1
<1>5. FlightManned'
  BY <1>4 DEF AuthIInv, FlightManned
<1>6. ExpiredStays' /\ FlightFresh'
  BY DEF AuthIInv, ExpiredStays, FlightFresh, providerVars
<1>7. StillNeeded'
  BY DEF AuthIInv, AuthTypeOK, StillNeeded, providerVars, None
<1>8. ASSUME NEW d \in Callers PROVE AloneProgress(d)'
  <2>1. CASE d = c
    <3> SUFFICES ASSUME forced, \A e \in Callers : ~Busy(e)
                 PROVE  AloneProgress(c)'
      BY <1>1, <2>1 DEF AloneProgress
    <3>1. \A e \in Callers : Busy(e)' => e = c
      BY <1>1 DEF Busy
    <3> QED
      BY <1>1, <2>1, <3>1 DEF AloneProgress
  <2>2. CASE d # c
    <3> SUFFICES ASSUME call'[d].forced, call'[d].alone PROVE ~Busy(d)'
      BY <1>1, <2>2 DEF AloneProgress, Busy
    <3> QED
      BY <1>1, <2>2 DEF Busy
  <2> QED
    BY <2>1, <2>2
<1>9. ForcedAloneIsReal'
  <2> SUFFICES ASSUME NEW d \in Callers, call'[d].forced, call'[d].alone,
                      call'[d].answer.kind = "token"
               PROVE  call'[d].answer.token > call'[d].since
    BY DEF ForcedAloneIsReal
  <2>1. d # c
    BY <1>1 DEF NoAnswer
  <2> QED
    BY <1>1, <2>1 DEF AuthIInv, AuthTypeOK, Call, ForcedAloneIsReal
<1> QED
  BY <1>2, <1>3, <1>5, <1>6, <1>7, <1>8, <1>9 DEF AuthIInv

LEMMA DoKeeps ==
  ASSUME AuthIInv, NEW c \in Callers, Do(c)
  PROVE  AuthIInv'
<1>1. /\ call[c].pc = "do"
      /\ call' = [call EXCEPT ![c].pc = "wait", ![c].old = flight'.old]
      /\ UNCHANGED <<providerVars, cached, forceRefresh>>
  BY DEF Do
<1>2. /\ flight \in Flight /\ Expired \subseteq Tokens /\ flight.callers \subseteq Callers
      /\ Expired \subseteq 1..issued /\ Expired \cap valid = {}
  <2>1. 1..issued \subseteq 1..MaxTokens
    BY DEF AuthIInv, AuthTypeOK
  <2> QED
    BY <2>1 DEF AuthIInv, AuthTypeOK, Tokens, Flight, Expired
<1>3. /\ flight' \in Flight
      /\ flight.step = "none" =>
            flight'.step = "begin" /\ flight'.callers = {c} /\ flight'.token = 0
               /\ flight'.old = Expired /\ ~flight'.forced
      /\ flight.step # "none" =>
            flight'.step = flight.step /\ flight'.callers = flight.callers \cup {c}
               /\ flight'.token = flight.token /\ flight'.old = flight.old
               /\ flight'.forced = flight.forced
  <2>1. CASE flight.step = "none"
    <3>1. flight' = [step |-> "begin", forced |-> FALSE, token |-> 0,
                     old |-> Expired, callers |-> {c}]
      BY <2>1 DEF Do, NoFlight, None
    <3> QED
      BY <1>2, <2>1, <3>1 DEF Flight
  <2>2. CASE flight.step # "none"
    BY <1>2, <2>2 DEF Do, Flight
  <2> QED
    BY <2>1, <2>2
<1>4. /\ call' \in [Callers -> Call] /\ \A d \in Callers : d # c => call'[d] = call[d]
      /\ call'[c].pc = "wait" /\ call'[c].answer = call[c].answer
      /\ call'[c].forced = call[c].forced /\ call'[c].since = call[c].since
      /\ call'[c].alone = call[c].alone
  <2>1. flight'.old \in SUBSET Tokens
    BY <1>3 DEF Flight
  <2> QED
    BY <1>1, <2>1 DEF AuthIInv, AuthTypeOK, Call
<1>5. AuthTypeOK'
  BY <1>1, <1>4, <1>3 DEF AuthIInv, AuthTypeOK, providerVars
<1>6. Known'
  <2>1. \A d \in Callers : call'[d].since \in 0..issued
    BY <1>4 DEF AuthIInv, Known
  <2>2. flight'.token \in 0..issued /\ flight'.old \subseteq 1..issued
    BY <1>2, <1>3 DEF AuthIInv, AuthTypeOK, Known
  <2> QED
    BY <1>1, <2>1, <2>2 DEF AuthIInv, Known, providerVars
<1>7. flight.step = "none" => flight.callers = {}
  BY DEF AuthIInv, FlightManned
<1>8. FlightManned'
  BY <1>4, <1>3, <1>7 DEF AuthIInv, FlightManned
<1>9. ExpiredStays' /\ FlightFresh'
  BY <1>1, <1>2, <1>3 DEF AuthIInv, ExpiredStays, FlightFresh, providerVars
<1>10. StillNeeded'
  BY <1>1, <1>3 DEF AuthIInv, StillNeeded, providerVars
<1>11. ASSUME NEW d \in Callers PROVE AloneProgress(d)'
  <2>1. AloneProgress(d) /\ Busy(c)
    BY <1>1 DEF AuthIInv, Busy
  <2>2. \A e \in Callers : Busy(e)' = Busy(e)
    BY <1>1, <1>4 DEF Busy
  <2>3. CASE d # c
    BY <1>4, <2>1, <2>2, <2>3 DEF AloneProgress, Busy
  <2>4. CASE d = c
    <3> SUFFICES ASSUME call[c].forced, call[c].alone PROVE AloneProgress(c)'
      BY <1>4, <2>4 DEF AloneProgress
    <3>1. (\A e \in Callers : Busy(e) => e = c) /\ call[c].answer = NoAnswer /\ forceRefresh
      BY <1>1, <2>1, <2>4 DEF AloneProgress
    <3>2. \A e \in Callers : call[e].pc # "wait"
      BY <1>1, <3>1 DEF Busy
    <3>3. flight'.step = "begin" /\ forceRefresh'
      BY <1>1, <1>3, <3>1, <3>2, NoFlightBeforeBoarding
    <3>4. \A e \in Callers : Busy(e)' => e = c
      BY <2>2, <3>1
    <3> QED
      BY <1>4, <2>4, <3>1, <3>3, <3>4 DEF AloneProgress
  <2> QED
    BY <2>3, <2>4
<1>12. ForcedAloneIsReal'
  BY <1>4 DEF AuthIInv, ForcedAloneIsReal
<1> QED
  BY <1>5, <1>6, <1>8, <1>9, <1>10, <1>11, <1>12 DEF AuthIInv

----------------------------------------------------------------------------
\* The steps of the flight.
LEMMA ConsumeFlagKeeps == AuthIInv /\ ConsumeFlag => AuthIInv'
<1> SUFFICES ASSUME AuthIInv, ConsumeFlag PROVE AuthIInv'
  OBVIOUS
<1>1. /\ flight.step = "begin" /\ forceRefresh' = FALSE
      /\ UNCHANGED <<providerVars, cached>>
  BY DEF ConsumeFlag
<1>2. \A c \in Callers : call[c].pc = "wait" /\ call[c].forced /\ call[c].alone => forceRefresh
  BY <1>1 DEF AuthIInv, AloneProgress
<1>3. CASE ~forceRefresh /\ cached \in valid
  <2>1. Land(Token(cached)) /\ Token(cached) \in Answer
    BY <1>3 DEF ConsumeFlag, Token, Answer, AuthIInv, AuthTypeOK
  <2> QED
    BY <1>1, <1>2, <1>3, <2>1, LandKeeps
<1>4. CASE ~(~forceRefresh /\ cached \in valid)
  <2>1. flight' = [flight EXCEPT !.step = "read", !.forced = forceRefresh] /\ UNCHANGED call
    BY <1>4 DEF ConsumeFlag
  <2>2. /\ flight' \in Flight /\ flight'.step = "read" /\ flight'.forced = forceRefresh
        /\ flight'.token = flight.token /\ flight'.old = flight.old
        /\ flight'.callers = flight.callers
    BY <2>1 DEF AuthIInv, AuthTypeOK, Flight
  <2>3. AuthTypeOK' /\ Known'
    BY <1>1, <2>1, <2>2 DEF AuthIInv, AuthTypeOK, Known, providerVars
  <2>4. ExpiredStays' /\ FlightFresh' /\ StillNeeded'
    BY <1>1, <1>4, <2>2 DEF AuthIInv, ExpiredStays, FlightFresh, StillNeeded, providerVars
  <2>5. FlightManned' /\ (\A c \in Callers : AloneProgress(c)') /\ ForcedAloneIsReal'
    BY <1>1, <1>2, <2>1, <2>2, CallersKept
  <2> QED
    BY <2>3, <2>4, <2>5 DEF AuthIInv
<1> QED
  BY <1>3, <1>4

LEMMA FailureLands ==
  ASSUME AuthIInv, flight.step # "none", Land(Failure),
         UNCHANGED <<providerVars, cached, forceRefresh>>
  PROVE  AuthIInv'
<1>1. Failure \in Answer /\ Failure.kind = "error"
  BY DEF Failure, Answer, None
<1> QED
  BY <1>1, LandKeeps DEF AuthIInv, AuthTypeOK

LEMMA ReadFromDBKeeps == AuthIInv /\ ReadFromDB => AuthIInv'
<1> SUFFICES ASSUME AuthIInv, ReadFromDB PROVE AuthIInv'
  OBVIOUS
<1>1. flight.step = "read" /\ UNCHANGED <<providerVars, cached, forceRefresh>>
  BY DEF ReadFromDB
<1>2. CASE Land(Failure)
  BY <1>1, <1>2, FailureLands
<1>3. CASE ~Land(Failure)
  <2> DEFINE next == IF ~flight.forced /\ db \in valid THEN "install" ELSE "refresh"
  <2>1. flight' = [flight EXCEPT !.token = db, !.step = next] /\ UNCHANGED call
    BY <1>3 DEF ReadFromDB
  <2>2. /\ flight' \in Flight /\ flight'.step = next /\ flight'.forced = flight.forced
        /\ flight'.token = db /\ flight'.old = flight.old
        /\ flight'.callers = flight.callers
    BY <2>1 DEF AuthIInv, AuthTypeOK, Flight
  <2>3. AuthTypeOK' /\ Known'
    BY <1>1, <2>1, <2>2 DEF AuthIInv, AuthTypeOK, Known, providerVars
  <2>4. ExpiredStays' /\ FlightFresh' /\ StillNeeded'
    BY <1>1, <2>2 DEF AuthIInv, ExpiredStays, FlightFresh, StillNeeded, providerVars
  <2>5. \A c \in Callers : call[c].pc = "wait" /\ call[c].forced /\ call[c].alone
                              => flight.forced
    BY <1>1 DEF AuthIInv, AloneProgress
  <2>6. FlightManned' /\ (\A c \in Callers : AloneProgress(c)') /\ ForcedAloneIsReal'
    BY <1>1, <2>1, <2>2, <2>5, CallersKept
  <2> QED
    BY <2>3, <2>4, <2>6 DEF AuthIInv
<1> QED
  BY <1>2, <1>3

LEMMA RefreshKeeps == AuthIInv /\ Refresh => AuthIInv'
<1> SUFFICES ASSUME AuthIInv, Refresh PROVE AuthIInv'
  OBVIOUS
<1>1. flight.step = "refresh" /\ UNCHANGED <<apiKey, db, cached, forceRefresh>>
  BY DEF Refresh
<1>2. CASE Land(Failure) /\ UNCHANGED <<issued, valid>>
  BY <1>1, <1>2, FailureLands DEF providerVars
<1>3. CASE ~(Land(Failure) /\ UNCHANGED <<issued, valid>>)
  <2>1. /\ issued < MaxTokens /\ issued' = issued + 1
        /\ valid' \in {valid, valid \cup {issued'}}
        /\ flight' = [flight EXCEPT !.step = "install", !.token = issued'] /\ UNCHANGED call
    BY <1>3 DEF Refresh
  <2>2. issued \in Nat /\ issued' \in 0..MaxTokens /\ valid \subseteq 1..issued
    BY <2>1 DEF AuthIInv, AuthTypeOK
  <2>3. /\ flight' \in Flight /\ flight'.step = "install"
        /\ flight'.token = issued' /\ flight'.old = flight.old
        /\ flight'.callers = flight.callers
    BY <2>1, <2>2 DEF AuthIInv, AuthTypeOK, Flight
  <2>4. AuthTypeOK'
    BY <1>1, <2>1, <2>2, <2>3 DEF AuthIInv, AuthTypeOK
  <2>5. Known'
    BY <1>1, <2>1, <2>2, <2>3 DEF AuthIInv, Known
  <2>6. ExpiredStays' /\ FlightFresh' /\ StillNeeded'
    BY <2>1, <2>2, <2>3 DEF AuthIInv, Known, ExpiredStays, FlightFresh, StillNeeded
  <2>7. \A c \in Callers : flight'.token > call[c].since
    BY <2>1, <2>2, <2>3 DEF AuthIInv, Known
  <2>8. FlightManned' /\ (\A c \in Callers : AloneProgress(c)') /\ ForcedAloneIsReal'
    BY <1>1, <2>1, <2>3, <2>7, CallersKept
  <2> QED
    BY <2>4, <2>5, <2>6, <2>8 DEF AuthIInv
<1> QED
  BY <1>2, <1>3

LEMMA InstallKeeps == AuthIInv /\ Install => AuthIInv'
<1> SUFFICES ASSUME AuthIInv, Install PROVE AuthIInv'
  OBVIOUS
<1>1. /\ flight.step = "install" /\ cached' = flight.token
      /\ flight' = [flight EXCEPT !.step = "leave"]
      /\ UNCHANGED <<providerVars, forceRefresh, call>>
  BY DEF Install
<1>2. /\ flight' \in Flight /\ flight'.step = "leave" /\ flight'.forced = flight.forced
      /\ flight'.token = flight.token /\ flight'.old = flight.old
      /\ flight'.callers = flight.callers
  BY <1>1 DEF AuthIInv, AuthTypeOK, Flight
<1>3. AuthTypeOK' /\ Known'
  <2>1. flight.token \in 0..MaxTokens
    BY DEF AuthIInv, AuthTypeOK, Flight
  <2> QED
    BY <1>1, <1>2, <2>1 DEF AuthIInv, AuthTypeOK, Known, providerVars
<1>4. ExpiredStays' /\ FlightFresh' /\ StillNeeded'
  BY <1>1, <1>2 DEF AuthIInv, ExpiredStays, FlightFresh, StillNeeded, providerVars
<1>5. \A c \in Callers : call[c].pc = "wait" /\ call[c].forced /\ call[c].alone
                            => flight.token > call[c].since
  BY <1>1 DEF AuthIInv, AloneProgress
<1>6. FlightManned' /\ (\A c \in Callers : AloneProgress(c)') /\ ForcedAloneIsReal'
  BY <1>1, <1>2, <1>5, CallersKept
<1> QED
  BY <1>3, <1>4, <1>6 DEF AuthIInv

LEMMA LeaveKeeps == AuthIInv /\ Leave => AuthIInv'
<1> SUFFICES ASSUME AuthIInv, Leave PROVE AuthIInv'
  OBVIOUS
<1>1. /\ flight.step = "leave" /\ Land(Token(flight.token))
      /\ UNCHANGED <<providerVars, cached, forceRefresh>>
  BY DEF Leave
<1>2. Token(flight.token) \in Answer /\ Token(flight.token).token = flight.token
  BY DEF AuthIInv, AuthTypeOK, Flight, Token, Answer
<1>3. \A c \in Callers : call[c].pc = "wait" /\ call[c].forced /\ call[c].alone
                            => flight.token > call[c].since
  BY <1>1 DEF AuthIInv, AloneProgress
<1> QED
  BY <1>1, <1>2, <1>3, LandKeeps DEF AuthIInv, AuthTypeOK

----------------------------------------------------------------------------
\* Nobody's call is involved when the cache is dropped, kiro-cli writes or a
\* token ages.
LEMMA OutsideKeeps ==
  AuthIInv /\ (InvalidateCache \/ CliWrites \/ Expire) => AuthIInv'
<1> SUFFICES ASSUME AuthIInv, InvalidateCache \/ CliWrites \/ Expire PROVE AuthIInv'
  OBVIOUS
<1>1. UNCHANGED <<apiKey, forceRefresh, flight, call>>
  BY DEF InvalidateCache, CliWrites, Expire, providerVars
<1>2. cached' \in {cached, None}
  BY DEF InvalidateCache, CliWrites, Expire
<1>3. issued \in Nat /\ valid \subseteq 1..issued
  BY DEF AuthIInv, AuthTypeOK
<1>4. \/ issued' = issued /\ valid' \subseteq valid /\ db' \in {db, None}
      \/ /\ issued < MaxTokens /\ issued' = issued + 1 /\ valid' = valid \cup {issued'}
         /\ db' = issued' /\ UNCHANGED cached
  BY DEF InvalidateCache, CliWrites, Expire, providerVars
<1>5. AuthTypeOK'
  <2>1. issued' \in 0..MaxTokens /\ db' \in 0..MaxTokens /\ cached' \in 0..MaxTokens
    BY <1>2, <1>3, <1>4 DEF AuthIInv, AuthTypeOK, None
  <2>2. valid' \in SUBSET (1..issued')
    <3>1. issued <= issued' /\ issued' \in Nat
      BY <1>3, <1>4
    <3>2. 1..issued \subseteq 1..issued'
      BY <1>3, <3>1
    <3>3. \A t \in valid' : t \in valid \/ (t = issued' /\ issued' = issued + 1)
      BY <1>4
    <3>4. \A t \in valid : t \in 1..issued'
      BY <1>3, <3>2
    <3>5. issued' = issued + 1 => issued' \in 1..issued'
      BY <1>3, <3>1
    <3>6. \A t \in valid' : t \in 1..issued'
      BY <3>3, <3>4, <3>5
    <3> QED
      BY <3>6
  <2> QED
    BY <1>1, <2>1, <2>2 DEF AuthIInv, AuthTypeOK
<1>6. Known'
  BY <1>1, <1>2, <1>3, <1>4 DEF AuthIInv, Known, None
<1>7. ExpiredStays' /\ FlightFresh'
  BY <1>1, <1>3, <1>4 DEF AuthIInv, Known, ExpiredStays, FlightFresh
<1>8. StillNeeded'
  BY <1>1, <1>2, <1>3, <1>4 DEF AuthIInv, Known, StillNeeded, None
<1>9. FlightManned' /\ (\A c \in Callers : AloneProgress(c)') /\ ForcedAloneIsReal'
  <2>1. \A c \in Callers : call[c].pc = "wait" /\ call[c].forced /\ call[c].alone =>
            /\ flight.step \in {"read", "refresh"} => flight.forced
            /\ flight.step \in {"install", "leave"} => flight.token > call[c].since
    BY DEF AuthIInv, AloneProgress
  <2> QED
    BY <1>1, <1>2, <2>1, CallersKept
<1> QED
  BY <1>5, <1>6, <1>7, <1>8, <1>9 DEF AuthIInv

LEMMA StepAuthIInv == AuthIInv /\ [AuthNext]_authVars => AuthIInv'
<1> SUFFICES ASSUME AuthIInv, [AuthNext]_authVars PROVE AuthIInv'
  OBVIOUS
<1>1. ASSUME NEW c \in Callers, AskKey(c) \/ Lookup(c) \/ Return(c) \/ Do(c) PROVE AuthIInv'
  BY <1>1, AskKeyKeeps, LookupKeeps, ReturnKeeps, DoKeeps
<1>2. ASSUME NEW c \in Callers, GetToken(c) PROVE AuthIInv'
  BY <1>2, BeginKeeps DEF GetToken
<1>3. ASSUME NEW c \in Callers, ForceRefresh(c) PROVE AuthIInv'
  BY <1>3, BeginKeeps DEF ForceRefresh
<1>4. CASE FlightStep
  BY <1>4, ConsumeFlagKeeps, ReadFromDBKeeps, RefreshKeeps, InstallKeeps, LeaveKeeps
     DEF FlightStep
<1>5. CASE InvalidateCache \/ Provider
  BY <1>5, OutsideKeeps DEF Provider
<1>6. CASE UNCHANGED authVars
  BY <1>6 DEF authVars, providerVars, AuthIInv, AuthTypeOK, Known, FlightManned,
              ExpiredStays, FlightFresh, StillNeeded, AloneProgress, Busy,
              ForcedAloneIsReal
<1> QED
  BY <1>1, <1>2, <1>3, <1>4, <1>5, <1>6 DEF AuthNext, CallStep

----------------------------------------------------------------------------
\* What a call must not be answered with was issued before, and stays expired;
\* a call that waits is bound by its flight.
OldStays ==
    /\ \A c \in Callers : call[c].old \subseteq 1..issued /\ call[c].old \cap valid = {}
    /\ \A c \in Callers : call[c].pc = "wait" => call[c].old = flight.old

Unanswered == \A c \in Callers : Busy(c) => call[c].answer = NoAnswer

ServedIInv == OldStays /\ Unanswered /\ NoExpiredTokenServed

LEMMA InitServedIInv == AuthInit => ServedIInv
  BY DEF AuthInit, ServedIInv, OldStays, Unanswered, NoExpiredTokenServed, Idle, NoAnswer, Busy

\* Tokens are issued and expire under calls that go on as they were.
LEMMA QuietServes ==
  ASSUME AuthIInv, ServedIInv, UNCHANGED call, flight'.old = flight.old,
         \/ issued' = issued /\ valid' \subseteq valid
         \/ issued' = issued + 1 /\ valid' \subseteq valid \cup {issued'}
  PROVE  ServedIInv'
<1>1. issued \in Nat
  BY DEF AuthIInv, AuthTypeOK
<1> QED
  BY <1>1 DEF ServedIInv, OldStays, Unanswered, NoExpiredTokenServed, Busy

\* A flight lands with a token that had not expired when it took off.
LEMMA LandServes ==
  ASSUME AuthIInv, ServedIInv, NEW answer \in Answer, Land(answer),
         UNCHANGED providerVars,
         answer.kind = "token" => answer.token \notin flight.old
  PROVE  ServedIInv'
<1>1. AuthTypeOK /\ FlightManned
  BY DEF AuthIInv
<1>2. \A c \in Callers :
         /\ call'[c].old = call[c].old /\ call'[c].pc # "wait"
         /\ IF call[c].pc = "wait" THEN call'[c].answer = answer
                                   ELSE call'[c].answer = call[c].answer
  BY <1>1, Landing
<1>3. OldStays'
  BY <1>2 DEF ServedIInv, OldStays, providerVars
<1>4. NoExpiredTokenServed'
  BY <1>2 DEF ServedIInv, OldStays, NoExpiredTokenServed
<1>5. Unanswered'
  BY <1>1, Landing DEF ServedIInv, Unanswered, Busy
<1> QED
  BY <1>3, <1>4, <1>5 DEF ServedIInv

\* One caller moves, and what it then must not be answered with is known.
LEMMA CallerServes ==
  ASSUME AuthIInv, ServedIInv, NEW c \in Callers, UNCHANGED providerVars,
         \A d \in Callers \ {c} :
            /\ call'[d].old = call[d].old /\ call'[d].answer = call[d].answer
            /\ call'[d].pc = call[d].pc
            /\ call[d].pc = "wait" => flight'.old = flight.old,
         call'[c].old \subseteq 1..issued, call'[c].old \cap valid = {},
         call'[c].pc = "wait" => call'[c].old = flight'.old,
         Busy(c)' => call'[c].answer = NoAnswer,
         call'[c].answer.kind = "token" => call'[c].answer.token \notin call'[c].old
  PROVE  ServedIInv'
<1>1. OldStays' /\ NoExpiredTokenServed'
  BY DEF ServedIInv, OldStays, NoExpiredTokenServed, providerVars
<1>2. Unanswered'
  BY DEF ServedIInv, Unanswered, Busy
<1> QED
  BY <1>1, <1>2 DEF ServedIInv

\* A call is answered on the spot, with a key or from the cache, or goes to
\* the flight, or its caller takes the answer and goes on.
LEMMA AnsweringServes ==
  ASSUME AuthIInv, ServedIInv, NEW c \in Callers, AskKey(c) \/ Lookup(c) \/ Return(c)
  PROVE  ServedIInv'
<1>1. AuthTypeOK /\ UNCHANGED providerVars /\ UNCHANGED flight /\ call[c].pc # "wait"
  BY DEF AuthIInv, AskKey, Lookup, Return
<1>2. call[c].old \subseteq 1..issued /\ call[c].old \cap valid = {}
  BY DEF ServedIInv, OldStays
<1>3. CASE AskKey(c)
  <2>1. Finish(c, Key) /\ Key \in Answer /\ Key.kind = "key"
    BY <1>3 DEF AskKey, Key, Answer, None
  <2> QED
    BY <1>1, <1>2, <2>1, Finishing, CallerServes DEF Busy
<1>4. CASE Lookup(c) /\ cached \in valid
  <2>1. Finish(c, Token(cached)) /\ Token(cached) \in Answer /\ Token(cached).token = cached
    BY <1>1, <1>4 DEF Lookup, Token, Answer, AuthTypeOK
  <2> QED
    BY <1>1, <1>2, <1>4, <2>1, Finishing, CallerServes DEF Busy
<1>5. CASE Lookup(c) /\ cached \notin valid
  <2>1. call' = [call EXCEPT ![c].pc = "do"]
    BY <1>5 DEF Lookup
  <2>2. call[c].answer = NoAnswer
    BY <1>5 DEF Lookup, ServedIInv, Unanswered, Busy
  <2> QED
    BY <1>1, <1>2, <2>1, <2>2, Advancing, CallerServes DEF NoAnswer
<1>6. CASE Return(c)
  <2>1. call' = [call EXCEPT ![c] = Idle]
    BY <1>6 DEF Return
  <2>2. /\ \A d \in Callers \ {c} : call'[d] = call[d]
        /\ call'[c].old = {} /\ call'[c].pc = "idle" /\ call'[c].answer.kind = "none"
    BY <1>1, <2>1 DEF AuthTypeOK, Idle, NoAnswer
  <2> QED
    BY <1>1, <2>2, CallerServes DEF Busy
<1> QED
  BY <1>3, <1>4, <1>5, <1>6

LEMMA BeginServes ==
  ASSUME AuthIInv, ServedIInv, NEW c \in Callers, NEW forced \in BOOLEAN,
         Begin(c, forced), UNCHANGED <<providerVars, flight>>
  PROVE  ServedIInv'
<1>1. /\ call'[c].pc = "lookup" /\ call'[c].answer = NoAnswer /\ call'[c].old = Expired
      /\ \A d \in Callers : d # c =>
            /\ call'[d].pc = call[d].pc /\ call'[d].answer = call[d].answer
            /\ call'[d].old = call[d].old
  BY Beginning DEF AuthIInv
<1>2. Expired \subseteq 1..issued /\ Expired \cap valid = {}
  BY DEF Expired
<1> QED
  BY <1>1, <1>2, CallerServes DEF NoAnswer

\* Whoever boards is bound by its flight; if it takes off, by what has expired.
LEMMA DoServes ==
  ASSUME AuthIInv, ServedIInv, NEW c \in Callers, Do(c)
  PROVE  ServedIInv'
<1>1. /\ call[c].pc = "do" /\ UNCHANGED providerVars
      /\ call' = [call EXCEPT ![c].pc = "wait", ![c].old = flight'.old]
  BY DEF Do
<1>2. /\ \A d \in Callers \ {c} : call'[d] = call[d]
      /\ call'[c].pc = "wait" /\ call'[c].old = flight'.old
      /\ call'[c].answer = call[c].answer
  BY <1>1 DEF AuthIInv, AuthTypeOK, Call
<1>3. flight'.old = IF flight.step = "none" THEN Expired ELSE flight.old
  BY DEF Do, NoFlight, AuthIInv, AuthTypeOK, Flight
<1>4. flight'.old \subseteq 1..issued /\ flight'.old \cap valid = {}
  BY <1>3 DEF Expired, AuthIInv, Known, ExpiredStays
<1>5. \A d \in Callers \ {c} : call[d].pc = "wait" => flight'.old = flight.old
  BY <1>3 DEF AuthIInv, FlightManned
<1>6. call[c].answer = NoAnswer
  BY <1>1 DEF ServedIInv, Unanswered, Busy
<1>7. call'[c].answer = NoAnswer /\ call'[c].answer.kind # "token"
  BY <1>2, <1>6 DEF NoAnswer
<1>8. \A d \in Callers \ {c} :
         /\ call'[d].old = call[d].old /\ call'[d].answer = call[d].answer
         /\ call'[d].pc = call[d].pc
         /\ call[d].pc = "wait" => flight'.old = flight.old
  BY <1>2, <1>5
<1>9. UNCHANGED providerVars /\ call'[c].old = flight'.old
         /\ call'[c].old \subseteq 1..issued /\ call'[c].old \cap valid = {}
  BY <1>1, <1>2, <1>4
<1> QED
  BY <1>7, <1>8, <1>9, CallerServes

LEMMA FlightServes == AuthIInv /\ ServedIInv /\ FlightStep => ServedIInv'
<1> SUFFICES ASSUME AuthIInv, ServedIInv, FlightStep PROVE ServedIInv'
  OBVIOUS
<1>1. flight \in Flight /\ cached \in 0..MaxTokens /\ db \in 0..MaxTokens
         /\ flight.old \cap valid = {}
  BY DEF AuthIInv, AuthTypeOK, ExpiredStays
<1>2. Failure \in Answer /\ Failure.kind = "error"
  BY DEF Failure, Answer, None
<1>3. CASE ConsumeFlag
  <2>1. CASE ~forceRefresh /\ cached \in valid
    <3>1. Land(Token(cached)) /\ UNCHANGED providerVars
      BY <1>3, <2>1 DEF ConsumeFlag
    <3>2. Token(cached) \in Answer /\ Token(cached).token = cached
      BY <1>1 DEF Token, Answer
    <3> QED
      BY <1>1, <2>1, <3>1, <3>2, LandServes
  <2>2. CASE ~(~forceRefresh /\ cached \in valid)
    <3>1. flight'.old = flight.old /\ UNCHANGED call /\ UNCHANGED providerVars
      BY <1>1, <1>3, <2>2 DEF ConsumeFlag, Flight
    <3> QED
      BY <3>1, QuietServes DEF providerVars
  <2> QED
    BY <2>1, <2>2
<1>4. CASE ReadFromDB
  <2>1. CASE Land(Failure)
    BY <1>2, <1>4, <2>1, LandServes DEF ReadFromDB
  <2>2. CASE ~Land(Failure)
    <3>1. flight'.old = flight.old /\ UNCHANGED call /\ UNCHANGED providerVars
      BY <1>1, <1>4, <2>2 DEF ReadFromDB, Flight
    <3> QED
      BY <3>1, QuietServes DEF providerVars
  <2> QED
    BY <2>1, <2>2
<1>5. CASE Refresh
  <2>1. CASE Land(Failure) /\ UNCHANGED <<issued, valid>>
    BY <1>2, <1>5, <2>1, LandServes DEF Refresh, providerVars
  <2>2. CASE ~(Land(Failure) /\ UNCHANGED <<issued, valid>>)
    <3>1. /\ issued' = issued + 1 /\ valid' \in {valid, valid \cup {issued'}}
          /\ UNCHANGED call /\ flight'.old = flight.old
      BY <1>1, <1>5, <2>2 DEF Refresh, Flight
    <3> QED
      BY <3>1, QuietServes
  <2> QED
    BY <2>1, <2>2
<1>6. CASE Install
  <2>1. flight'.old = flight.old /\ UNCHANGED call /\ UNCHANGED providerVars
    BY <1>1, <1>6 DEF Install, Flight
  <2> QED
    BY <2>1, QuietServes DEF providerVars
<1>7. CASE Leave
  <2>1. Land(Token(flight.token)) /\ UNCHANGED providerVars /\ flight.token \notin flight.old
    BY <1>7 DEF Leave, AuthIInv, FlightFresh
  <2>2. Token(flight.token) \in Answer /\ Token(flight.token).token = flight.token
    BY <1>1 DEF Token, Answer, Flight
  <2> QED
    BY <2>1, <2>2, LandServes
<1> QED
  BY <1>3, <1>4, <1>5, <1>6, <1>7 DEF FlightStep

LEMMA StepServedIInv == AuthIInv /\ ServedIInv /\ [AuthNext]_authVars => ServedIInv'
<1> SUFFICES ASSUME AuthIInv, ServedIInv, [AuthNext]_authVars PROVE ServedIInv'
  OBVIOUS
<1>1. ASSUME NEW c \in Callers, AskKey(c) \/ Lookup(c) \/ Return(c) \/ Do(c)
      PROVE  ServedIInv'
  BY <1>1, AnsweringServes, DoServes
<1>2. ASSUME NEW c \in Callers, GetToken(c) \/ ForceRefresh(c) PROVE ServedIInv'
  BY <1>2, BeginServes DEF GetToken, ForceRefresh
<1>3. CASE FlightStep
  BY <1>3, FlightServes
<1>4. CASE InvalidateCache \/ Provider
  <2>1. /\ UNCHANGED <<flight, call>>
        /\ \/ issued' = issued /\ valid' \subseteq valid
           \/ issued' = issued + 1 /\ valid' \subseteq valid \cup {issued'}
    BY <1>4 DEF InvalidateCache, Provider, CliWrites, Expire, providerVars
  <2> QED
    BY <2>1, QuietServes
<1>5. CASE UNCHANGED authVars
  BY <1>5, QuietServes DEF authVars, providerVars
<1> QED
  BY <1>1, <1>2, <1>3, <1>4, <1>5 DEF AuthNext, CallStep

----------------------------------------------------------------------------
\* The inductive invariant holds of every reachable state.
THEOREM AuthInvariance == AuthSpec => []AuthIInv
  BY InitAuthIInv, StepAuthIInv, PTL DEF AuthSpec

\* Every variable of the manager keeps its type.
THEOREM AuthTypeCorrect == AuthSpec => []AuthTypeOK
<1>1. AuthIInv => AuthTypeOK
  BY DEF AuthIInv
<1> QED
  BY <1>1, AuthInvariance, PTL

\* However tokens age, and whether the answer comes from the cache on the spot,
\* from the flight's second look at it, from the database or from the endpoint,
\* no call is answered with a token that had expired before it was asked for:
\* when the call began, or when the flight that answers it took off.
THEOREM AuthNoExpiredTokenServed == AuthSpec => []NoExpiredTokenServed
<1>1. ServedIInv => NoExpiredTokenServed
  BY DEF ServedIInv
<1>2. AuthSpec => [](AuthIInv /\ ServedIInv)
  BY InitAuthIInv, StepAuthIInv, InitServedIInv, StepServedIInv, PTL DEF AuthSpec
<1> QED
  BY <1>1, <1>2, PTL

\* However many callers miss the cache at once, the refresh endpoint is called
\* without force only while no usable token is cached.
THEOREM AuthRefreshOnlyWhenNeeded == AuthSpec => []RefreshOnlyWhenNeeded
<1>1. AuthIInv => RefreshOnlyWhenNeeded
  BY DEF AuthIInv, StillNeeded, RefreshOnlyWhenNeeded
<1> QED
  BY <1>1, AuthInvariance, PTL

\* A ForceRefresh that no other call overlaps ends with an error or with a
\* token issued after it was called.
THEOREM AuthForcedAloneIsReal == AuthSpec => []ForcedAloneIsReal
<1>1. AuthIInv => ForcedAloneIsReal
  BY DEF AuthIInv
<1> QED
  BY <1>1, AuthInvariance, PTL
=============================================================================
