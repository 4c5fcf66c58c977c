-------------------------- MODULE ServerToolsProofs --------------------------
(***************************************************************************)
(* Proofs about ServerTools, for any tools, rounds, uses, retries and      *)
(* frames: what one request can cost, that its message is closed once,     *)
(* that the model and the client are told the same of every server tool,   *)
(* that the turn is the client's once it has calls to answer, and that a   *)
(* second run of the loop replaces nothing that was sent.                  *)
(***************************************************************************)
EXTENDS ServerTools, SequenceTheorems, TLAPS

\* A round goes on only if its answer ended well, and a tool runs only if it was
\* called.
RoundContinues ==
    /\ pc = "read" => ended \in {"eof", "localStop"}
    /\ pc \in {"use", "search", "consult", "subcall"} => called # None

\* Writes are not lost.
Reachable == stream => ~gone

\* A round is paid for when the upstream is called, a consultation with all its
\* retries when it is counted.
CallsOfUse == 1 + AdvisorEmptyRetries

Costs ==
    /\ calls.executor <= (IF run = 1 THEN 0 ELSE MaxRounds) + round + (IF pc = "call" THEN 0 ELSE 1)
    /\ pc = "subcall" => uses > 0
    /\ calls.advisor <= IF pc = "subcall" THEN (uses - 1) * CallsOfUse + tries ELSE uses * CallsOfUse

\* A message that is closed, unless by an overrun, belongs to a round that
\* stopped locally without a server tool, or to a loop that is over.
ClosedOnce ==
    ~overran =>
        /\ message.stops <= 1 /\ ~message.late
        /\ message.stops = 1 =>
             \/ pc \in {"ended", "read"} /\ ended = "localStop" /\ called = None
             \/ pc \in {"answered", "retry", "send", "done"}

\* The JSON form takes over an answer's content when it has read it.
AfterRead == {"answered", "use", "search", "consult", "subcall", "next", "close", "send"}
ContentTaken == IF stream THEN ~gone ELSE pc \in AfterRead \/ reply = "message"

Failing == pc = "fail" \/ reply = "error"

\* What the message says of client calls is what the accumulator has seen, and
\* a closed message gives its stop reason.
ReasonTold ==
    \/ ~stream \/ pc \in {"answered", "send"} \/ reply = "message"
    \/ pc \in {"ended", "read"} /\ ended = "localStop"

TurnTold ==
    /\ pc = "call" => ~message.client
    /\ message.client => acc.tool
    /\ ContentTaken /\ ~Failing =>
         /\ acc.tool => message.client
         /\ ReasonTold => message.reason = StopReason(acc)

\* The client sees of every server tool what the model is told.
ToolsTold ==
    /\ Reachable /\ ~Failing =>
         /\ message.use # None => pc \in {"search", "consult", "subcall"}
         /\ msgs = message.results
    /\ \A i \in DOMAIN msgs : msgs[i].refs \cap deferred = {}

\* The loop starts again only behind a buffer, and replies once.
RetryUnseen ==
    /\ pc = "retry" => ~promoted
    /\ reply # None => pc = "done"

IInv == TypeOK /\ RoundContinues /\ Costs /\ ClosedOnce /\ TurnTold /\ ToolsTold /\ RetryUnseen

USE RoundsAssumption
----------------------------------------------------------------------------
(* What the operators on accumulators and messages do. *)

LEMMA AccumulatorFacts ==
  ASSUME NEW a \in Accumulators, NEW kind, NEW halts \in BOOLEAN, NEW left \in BOOLEAN
  PROVE  /\ Accumulate(a, kind, halts, left) \in Accumulators
         /\ Accumulate(a, kind, halts, left).tool <=> a.tool \/ kind = "tool"
  BY DEF Accumulators, Accumulate

LEMMA FinalizeFacts ==
  ASSUME NEW a \in Accumulators
  PROVE  /\ Finalize(a) \in Accumulators
         /\ Finalize(a).tool <=> a.tool
         /\ StopReason(Finalize(a)) = StopReason(a)
  BY DEF Accumulators, Finalize, StopReason

LEMMA NewAccFacts == NewAcc \in Accumulators /\ ~NewAcc.tool
  BY DEF NewAcc, Accumulators

LEMMA BlockFacts ==
  ASSUME NEW m \in Messages
  PROVE  /\ Block(m) \in Messages
         /\ Block(m).stops = m.stops /\ Block(m).use = m.use /\ Block(m).results = m.results
         /\ Block(m).reason = m.reason /\ (Block(m).client <=> m.client)
         /\ m.stops = 0 => (Block(m).late <=> m.late)
         /\ m.stops \in Nat /\ m.results \in Seq(Results)
  <1>1. m.stops \in Nat /\ m.results \in Seq(Results)
    BY DEF Messages
  <1>2. /\ Block(m).stops = m.stops /\ Block(m).use = m.use /\ Block(m).results = m.results
        /\ Block(m).reason = m.reason
    BY DEF Block, Messages
  <1>3. Block(m).client <=> m.client
    BY DEF Block, Messages
  <1>4. m.stops = 0 => (Block(m).late <=> m.late)
    BY <1>1 DEF Block, Messages
  <1>5. Block(m) \in Messages
    BY <1>1 DEF Block, Messages
  <1> QED
    BY <1>1, <1>2, <1>3, <1>4, <1>5

LEMMA FrameFacts ==
  ASSUME NEW m \in Messages, NEW kind
  PROVE  LET f == ShowFrame(m, kind) IN
         /\ f \in Messages /\ f.stops = m.stops /\ f.use = m.use /\ f.results = m.results
         /\ f.client <=> m.client \/ kind = "tool"
         /\ m.stops = 0 => (f.late <=> m.late)
  <1>1. CASE kind = "tool"
    <2>1. ShowFrame(m, kind) = [Block(m) EXCEPT !.client = TRUE]
      BY <1>1 DEF ShowFrame
    <2>2. ASSUME NEW s \in Messages
          PROVE  LET t == [s EXCEPT !.client = TRUE] IN
                 /\ t \in Messages /\ t.stops = s.stops /\ t.use = s.use /\ t.results = s.results
                 /\ t.client /\ t.late = s.late
      BY DEF Messages
    <2>3. Block(m) \in Messages
      BY BlockFacts
    <2>4. LET t == ShowFrame(m, kind) IN
          /\ t \in Messages /\ t.stops = Block(m).stops /\ t.use = Block(m).use
          /\ t.results = Block(m).results /\ t.client /\ t.late = Block(m).late
      BY <2>1, <2>2, <2>3
    <2> QED
      BY <1>1, <2>4, BlockFacts
  <1>2. CASE kind \in {"text", "reasoning"}
    BY <1>2, BlockFacts DEF ShowFrame
  <1>3. CASE kind \notin {"tool", "text", "reasoning"}
    BY <1>3 DEF ShowFrame, Messages
  <1> QED
    BY <1>1, <1>2, <1>3

LEMMA CloseFacts ==
  ASSUME NEW m \in Messages, NEW a
  PROVE  LET c == Close(m, a) IN
         /\ c \in Messages /\ c.stops = m.stops + 1 /\ c.use = m.use /\ c.results = m.results
         /\ c.client <=> m.client
         /\ c.reason = StopReason(a)
         /\ m.stops = 0 => (c.late <=> m.late)
  <1> DEFINE shown == IF a.held THEN Block(m) ELSE m
             marked == [shown EXCEPT !.open = TRUE, !.reason = StopReason(a)]
  <1>1. /\ shown \in Messages /\ shown.stops = m.stops /\ shown.use = m.use
        /\ shown.results = m.results /\ (shown.client <=> m.client)
        /\ m.stops = 0 => (shown.late <=> m.late)
    BY BlockFacts
  <1>2. Close(m, a) = [shown EXCEPT !.open = TRUE, !.stops = @ + 1, !.reason = StopReason(a)]
    BY DEF Close
  <1> HIDE DEF shown
  <1>3. StopReason(a) \in {None, "stopped", "tool_use", "end_turn"}
    BY DEF StopReason
  <1>4. marked \in Messages
    BY <1>1, <1>3 DEF Messages
  <1>5. shown.stops + 1 \in Nat
    BY <1>1 DEF Messages
  <1>6. ASSUME NEW s \in Messages, NEW n \in Nat PROVE [s EXCEPT !.stops = n] \in Messages
    BY DEF Messages
  <1>7. Close(m, a) = [marked EXCEPT !.stops = shown.stops + 1]
    BY <1>1, <1>2 DEF Messages
  <1>8. Close(m, a) \in Messages
    BY <1>4, <1>5, <1>6, <1>7
  <1> QED
    BY <1>1, <1>2, <1>8 DEF Messages

LEMMA UseFacts ==
  ASSUME NEW m \in Messages, NEW tool \in Tools
  PROVE  LET u == ShowUse(m, tool) IN
         /\ u \in Messages /\ u.stops = m.stops /\ u.use = tool /\ u.results = m.results
         /\ u.client <=> m.client
         /\ u.reason = m.reason
         /\ m.stops = 0 => (u.late <=> m.late)
  <1>1. Block(m) \in Messages
    BY BlockFacts
  <1> QED
    BY <1>1, BlockFacts DEF ShowUse, Messages

LEMMA ResultFacts ==
  ASSUME NEW m \in Messages, NEW result \in Results
  PROVE  LET r == ShowResult(m, result) IN
         /\ r \in Messages /\ r.stops = m.stops /\ r.use = None
         /\ r.results = Append(m.results, result)
         /\ r.client <=> m.client
         /\ r.reason = m.reason
         /\ m.stops = 0 => (r.late <=> m.late)
  <1>1. Block(m) \in Messages /\ Append(m.results, result) \in Seq(Results)
    BY BlockFacts
  <1>2. ASSUME NEW s \in Messages, NEW q \in Seq(Results)
        PROVE  LET t == [s EXCEPT !.use = None, !.results = q] IN
               /\ t \in Messages /\ t.stops = s.stops /\ t.use = None /\ t.results = q
               /\ t.client = s.client /\ t.reason = s.reason /\ t.late = s.late
    BY DEF Messages
  <1>3. ShowResult(m, result) = [Block(m) EXCEPT !.use = None, !.results = Append(m.results, result)]
    BY BlockFacts DEF ShowResult
  <1>4. LET t == ShowResult(m, result) IN
        /\ t \in Messages /\ t.stops = Block(m).stops /\ t.use = None
        /\ t.results = Append(m.results, result)
        /\ t.client = Block(m).client /\ t.reason = Block(m).reason /\ t.late = Block(m).late
    <2> DEFINE b == Block(m)
               q == Append(m.results, result)
    <2>1. b \in Messages /\ q \in Seq(Results) /\ ShowResult(m, result) = [b EXCEPT !.use = None, !.results = q]
      BY <1>1, <1>3
    <2> HIDE DEF b, q
    <2>2. LET t == [b EXCEPT !.use = None, !.results = q] IN
          /\ t \in Messages /\ t.stops = b.stops /\ t.use = None /\ t.results = q
          /\ t.client = b.client /\ t.reason = b.reason /\ t.late = b.late
      BY <1>2, <2>1
    <2> QED
      BY <2>1, <2>2 DEF b, q
  <1> QED
    BY <1>4, BlockFacts

LEMMA NewMessageFacts ==
  /\ NewMessage \in Messages
  /\ NewMessage.stops = 0 /\ ~NewMessage.late /\ ~NewMessage.client
  /\ NewMessage.use = None /\ NewMessage.results = <<>>
  BY DEF NewMessage, Messages, None

LEMMA MaxRoundsNat == MaxRounds \in Nat \ {0}
  BY DEF MaxRounds

LEMMA ShowTypes ==
  ASSUME TypeOK, NEW m \in Messages, NEW visible \in BOOLEAN, Show(m, visible)
  PROVE  message' \in Messages /\ promoted' \in BOOLEAN
  BY DEF Show, TypeOK

----------------------------------------------------------------------------
(* Types. *)

LEMMA InitTypeOK == Init => TypeOK
  <1> SUFFICES ASSUME Init PROVE TypeOK
    OBVIOUS
  <1>1. NewMessage \in Messages /\ NewAcc \in Accumulators
    BY NewMessageFacts, NewAccFacts
  <1>2. 0 \in 0..(MaxRounds - 1) /\ 0 \in 0..MaxFrames /\ 0 \in 0..AdvisorEmptyRetries /\ 0 \in 0..MaxUses
    BY MaxRoundsNat
  <1>3. calls \in [executor : Nat, advisor : Nat]
    BY DEF Init
  <1>4. /\ stream \in BOOLEAN /\ preflight \in BOOLEAN /\ drain \in BOOLEAN /\ tools \subseteq Tools
        /\ run \in 1..2 /\ pc = "call" /\ acc \in Accumulators /\ message \in Messages
        /\ called = None /\ ended = None /\ msgs \in Seq(Results)
    BY <1>1 DEF Init
  <1>5. /\ round \in 0..(MaxRounds - 1) /\ frames \in 0..MaxFrames /\ deferred \subseteq DeferredTools
        /\ tries \in 0..AdvisorEmptyRetries /\ uses \in 0..MaxUses
        /\ promoted \in BOOLEAN /\ reply = None /\ gone \in BOOLEAN
        /\ finals \in Nat /\ overran \in BOOLEAN
    BY <1>2 DEF Init
  <1> QED
    BY <1>3, <1>4, <1>5 DEF TypeOK

\* Reading an answer.
LEMMA ParseTypes == ASSUME TypeOK, Call \/ ParseEnds \/ ErrorFrame \/ ServerToolFrame PROVE TypeOK'
  <1> USE DEF goto, request, toolVars, outVars, history, loopVars
  <1>1. ASSUME Call PROVE TypeOK'
    <2>1. calls.executor + 1 \in Nat /\ calls' \in [executor : Nat, advisor : Nat]
      BY <1>1 DEF Call, TypeOK
    <2>2. NewAcc \in Accumulators
      BY DEF NewAcc, Accumulators
    <2>3. MaxRounds' = MaxRounds
      BY <1>1 DEF MaxRounds, Call
    <2>4. UNCHANGED <<request, run, round, tries, toolVars, outVars, gone, overran>>
      BY <1>1 DEF Call
    <2>5. /\ pc' \in {"parse", "fail"} /\ frames' \in 0..MaxFrames /\ called' \in Tools \cup {None}
          /\ ended' \in {None, "streamErr", "readErr", "eof", "localStop"}
          /\ acc' \in Accumulators /\ finals' \in Nat
      BY <1>1, <2>2 DEF Call, TypeOK
    <2> QED
      BY <2>1, <2>3, <2>4, <2>5 DEF TypeOK
  <1>2. ASSUME ParseEnds PROVE TypeOK'
    <2>1. UNCHANGED <<request, run, round, frames, acc, called, tries, toolVars, outVars, gone, history>> /\ MaxRounds' = MaxRounds
      BY <1>2 DEF ParseEnds, MaxRounds
    <2>3. /\ pc' = "ended" /\ ended' \in {None, "streamErr", "readErr", "eof", "localStop"}
      BY <1>2 DEF ParseEnds, EndParse, TypeOK
    <2> QED
      BY <2>1, <2>3 DEF TypeOK
  <1>3. ASSUME ErrorFrame PROVE TypeOK'
    <2>1. UNCHANGED <<request, run, round, acc, called, tries, toolVars, outVars, gone, history>> /\ MaxRounds' = MaxRounds
      BY <1>3 DEF ErrorFrame, MaxRounds
    <2>3. /\ pc' = "ended" /\ frames' \in 0..MaxFrames
          /\ ended' \in {None, "streamErr", "readErr", "eof", "localStop"}
      BY <1>3 DEF ErrorFrame, EndParse, TypeOK
    <2> QED
      BY <2>1, <2>3 DEF TypeOK
  <1>4. ASSUME ServerToolFrame PROVE TypeOK'
    <2>1. UNCHANGED <<request, run, round, pc, acc, ended, tries, toolVars, outVars, gone, history>> /\ MaxRounds' = MaxRounds
      BY <1>4 DEF ServerToolFrame, MaxRounds
    <2>3. /\ called' \in Tools \cup {None} /\ frames' \in 0..MaxFrames
      BY <1>4 DEF ServerToolFrame, TypeOK
    <2> QED
      BY <2>1, <2>3 DEF TypeOK
  <1> QED
    BY <1>1, <1>2, <1>3, <1>4

\* What a content frame of a stream does, before a server tool is called and
\* after it.
FrameShown ==
    /\ pc = "parse" /\ stream /\ frames' \in 0..MaxFrames
    /\ UNCHANGED <<request, run, round, called, tries, toolVars, reply, gone, calls>>
    /\ acc' \in Accumulators /\ finals' \in Nat /\ overran' \in BOOLEAN
    /\ message' \in Messages /\ promoted' \in BOOLEAN
    /\ \/ pc' = "parse" /\ ended' = ended /\ message'.stops = message.stops
       \/ pc' = "ended" /\ ended' = "streamErr" /\ message' = message
       \/ /\ pc' = "ended" /\ ended' = "localStop"
          /\ message'.stops \in {message.stops, message.stops + 1}
          /\ ~gone => message'.reason = StopReason(acc')
    /\ overran => overran'
    /\ message'.stops # message.stops => called = None \/ overran'
    /\ message.stops = 0 => (message'.late <=> message.late)
    /\ message'.use = message.use /\ message'.results = message.results
    /\ message.client => message'.client
    /\ acc.tool => acc'.tool
    /\ message'.client => message.client \/ acc'.tool
    /\ ~gone /\ acc'.tool => acc.tool \/ message'.client

LEMMA StreamFrameShown == ASSUME TypeOK, StreamFrame PROVE FrameShown
  <1> USE DEF goto, EndParse, outVars
  <1>1. /\ pc = "parse" /\ stream /\ frames' \in 0..MaxFrames
        /\ UNCHANGED <<request, run, round, called, tries, toolVars, gone, calls, overran>>
        /\ called = None
    BY DEF StreamFrame, TypeOK
  <1>2. acc \in Accumulators /\ message \in Messages /\ finals \in Nat /\ message.stops \in Nat
        /\ promoted \in BOOLEAN /\ overran \in BOOLEAN
    BY DEF TypeOK, Messages
  <1>3. CASE gone
    <2>1. /\ pc' = "ended" /\ ended' = "streamErr"
          /\ UNCHANGED <<acc, message, promoted, reply, finals>>
      BY <1>3 DEF StreamFrame
    <2> QED
      BY <1>1, <1>2, <1>3, <2>1 DEF FrameShown
  <1>4. CASE ~gone
    <2> DEFINE A(kind, halts, left) == IF Live(acc, kind) THEN Accumulate(acc, kind, halts, left) ELSE acc
               M(kind) == IF Live(acc, kind) THEN ShowFrame(message, kind) ELSE message
               V(kind) == Live(acc, kind) /\ kind \in {"text", "tool"}
    <2>1. PICK kind \in FrameKinds, halts \in BOOLEAN, left \in BOOLEAN :
             /\ UNCHANGED reply
             /\ IF Live(acc, kind) /\ A(kind, halts, left).stop /\ ~(drain /\ A(kind, halts, left).tool)
                THEN /\ EndParse("localStop")
                     /\ acc' = Finalize(A(kind, halts, left)) /\ finals' = finals + 1
                     /\ Show(Close(M(kind), A(kind, halts, left)), V(kind) \/ A(kind, halts, left).held)
                ELSE /\ acc' = A(kind, halts, left) /\ Show(M(kind), V(kind))
                     /\ UNCHANGED <<pc, ended, finals>>
      BY <1>4 DEF StreamFrame
    <2> DEFINE a == A(kind, halts, left)
               m == M(kind)
    <2>7. /\ UNCHANGED reply
          /\ IF Live(acc, kind) /\ a.stop /\ ~(drain /\ a.tool)
             THEN /\ EndParse("localStop")
                  /\ acc' = Finalize(a) /\ finals' = finals + 1
                  /\ Show(Close(m, a), V(kind) \/ a.held)
             ELSE /\ acc' = a /\ Show(m, V(kind))
                  /\ UNCHANGED <<pc, ended, finals>>
      BY <2>1
    <2>2. a \in Accumulators /\ (a.tool <=> acc.tool \/ (Live(acc, kind) /\ kind = "tool"))
      BY <1>2, AccumulatorFacts
    <2>3. /\ m \in Messages /\ m.stops = message.stops /\ m.use = message.use
          /\ m.results = message.results
          /\ m.client <=> message.client \/ (Live(acc, kind) /\ kind = "tool")
          /\ message.stops = 0 => (m.late <=> message.late)
      BY <1>2, FrameFacts
    <2> HIDE DEF a, m
    <2>4. /\ Close(m, a) \in Messages /\ Close(m, a).stops = m.stops + 1
          /\ Close(m, a).use = m.use /\ Close(m, a).results = m.results
          /\ Close(m, a).client <=> m.client
          /\ Close(m, a).reason = StopReason(a)
          /\ m.stops = 0 => (Close(m, a).late <=> m.late)
          /\ Finalize(a) \in Accumulators /\ (Finalize(a).tool <=> a.tool)
          /\ StopReason(Finalize(a)) = StopReason(a)
      BY <2>2, <2>3, CloseFacts, FinalizeFacts
    <2>5. CASE Live(acc, kind) /\ a.stop /\ ~(drain /\ a.tool)
      <3>1. /\ pc' = "ended" /\ ended' = "localStop" /\ acc' = Finalize(a) /\ finals' = finals + 1
            /\ message' = Close(m, a) /\ reply' = reply
        BY <1>4, <2>7, <2>5 DEF Show
      <3>2. promoted' \in BOOLEAN
        BY <1>4, <2>7, <2>5 DEF Show
      <3> QED
        BY <1>1, <1>2, <1>4, <2>2, <2>3, <2>4, <3>1, <3>2 DEF FrameShown
    <2>6. CASE ~(Live(acc, kind) /\ a.stop /\ ~(drain /\ a.tool))
      <3>1. /\ pc' = pc /\ ended' = ended /\ acc' = a /\ finals' = finals /\ reply' = reply
            /\ message' = m
        BY <1>1, <1>4, <2>7, <2>6 DEF Show
      <3>2. promoted' \in BOOLEAN
        BY <1>4, <2>7, <2>6 DEF Show
      <3> QED
        BY <1>1, <1>2, <1>4, <2>2, <2>3, <3>1, <3>2 DEF FrameShown
    <2> QED
      BY <2>5, <2>6
  <1> QED
    BY <1>3, <1>4

LEMMA TailFrameShown == ASSUME TypeOK, TailFrame PROVE FrameShown
  <1> USE DEF goto, EndParse, outVars
  <1>1. /\ pc = "parse" /\ stream /\ frames' \in 0..MaxFrames /\ called # None
        /\ UNCHANGED <<request, run, round, called, tries, toolVars, reply, gone, calls>>
    BY DEF TailFrame, TypeOK
  <1>2. acc \in Accumulators /\ message \in Messages /\ finals \in Nat /\ message.stops \in Nat
        /\ promoted \in BOOLEAN /\ overran \in BOOLEAN
    BY DEF TypeOK, Messages
  <1> DEFINE A(kind, halts, left) == IF Live(acc, kind) THEN Accumulate(acc, kind, halts, left) ELSE acc
             M(kind) == IF Live(acc, kind) /\ kind = "tool" THEN ShowFrame(message, kind) ELSE message
             V(kind) == Live(acc, kind) /\ kind = "tool"
  <1>3. PICK kind \in {"tool", "redacted", "other"}, halts \in BOOLEAN, left \in BOOLEAN :
           IF Live(acc, kind) /\ kind = "tool" /\ halts /\ ~drain
           THEN /\ EndParse("localStop")
                /\ acc' = Finalize(A(kind, halts, left)) /\ finals' = finals + 1 /\ overran' = TRUE
                /\ Show(Close(M(kind), A(kind, halts, left)), TRUE)
           ELSE /\ acc' = A(kind, halts, left) /\ Show(M(kind), V(kind))
                /\ UNCHANGED <<pc, ended, finals, overran>>
    BY DEF TailFrame
  <1> DEFINE a == A(kind, halts, left)
             m == M(kind)
             over == Live(acc, kind) /\ kind = "tool" /\ halts /\ ~drain
  <1>4. IF over
        THEN /\ EndParse("localStop")
             /\ acc' = Finalize(a) /\ finals' = finals + 1 /\ overran' = TRUE
             /\ Show(Close(m, a), TRUE)
        ELSE /\ acc' = a /\ Show(m, V(kind))
             /\ UNCHANGED <<pc, ended, finals, overran>>
    BY <1>3
  <1>5. a \in Accumulators /\ (a.tool <=> acc.tool \/ V(kind))
    BY <1>2, AccumulatorFacts
  <1>6. /\ m \in Messages /\ m.stops = message.stops /\ m.use = message.use
        /\ m.results = message.results
        /\ m.client <=> message.client \/ V(kind)
        /\ message.stops = 0 => (m.late <=> message.late)
    BY <1>2, FrameFacts
  <1> HIDE DEF a, m, over
  <1>7. /\ Close(m, a) \in Messages /\ Close(m, a).stops = m.stops + 1
        /\ Close(m, a).use = m.use /\ Close(m, a).results = m.results
        /\ Close(m, a).client <=> m.client
        /\ Close(m, a).reason = StopReason(a)
        /\ m.stops = 0 => (Close(m, a).late <=> m.late)
        /\ Finalize(a) \in Accumulators /\ (Finalize(a).tool <=> a.tool)
        /\ StopReason(Finalize(a)) = StopReason(a)
    BY <1>5, <1>6, CloseFacts, FinalizeFacts
  <1>8. CASE over
    <2>1. /\ pc' = "ended" /\ ended' = "localStop" /\ acc' = Finalize(a) /\ finals' = finals + 1
          /\ overran' = TRUE
      BY <1>4, <1>8
    <2>2. /\ message' = IF gone THEN message ELSE Close(m, a)
          /\ promoted' \in BOOLEAN
      BY <1>1, <1>2, <1>4, <1>8 DEF Show
    <2>3. CASE gone
      BY <1>1, <1>2, <1>5, <1>6, <1>7, <2>1, <2>2, <2>3 DEF FrameShown
    <2>4. CASE ~gone
      BY <1>1, <1>2, <1>5, <1>6, <1>7, <2>1, <2>2, <2>4 DEF FrameShown
    <2> QED
      BY <2>3, <2>4
  <1>9. CASE ~over
    <2>1. pc' = pc /\ ended' = ended /\ acc' = a /\ finals' = finals /\ overran' = overran
      BY <1>4, <1>9
    <2>2. /\ message' = IF gone THEN message ELSE m
          /\ promoted' \in BOOLEAN
      BY <1>1, <1>2, <1>4, <1>9 DEF Show
    <2>3. CASE gone
      BY <1>1, <1>2, <1>5, <1>6, <2>1, <2>2, <2>3 DEF FrameShown
    <2>4. CASE ~gone
      BY <1>1, <1>2, <1>5, <1>6, <2>1, <2>2, <2>4 DEF FrameShown
    <2> QED
      BY <2>3, <2>4
  <1> QED
    BY <1>8, <1>9

LEMMA JsonFrameRead ==
  ASSUME TypeOK, JsonFrame
  PROVE  /\ pc = "parse" /\ pc' = "parse" /\ ~stream /\ frames' \in 0..MaxFrames
         /\ UNCHANGED <<request, run, round, pc, called, ended, tries, toolVars, outVars, gone, history>>
         /\ acc' \in Accumulators /\ (acc.tool => acc'.tool)
  <1>1. acc \in Accumulators
    BY DEF TypeOK
  <1>2. PICK kind \in FrameKinds, halts \in BOOLEAN, left \in BOOLEAN :
           acc' = IF Live(acc, kind) THEN Accumulate(acc, kind, halts, left) ELSE acc
    BY DEF JsonFrame
  <1>3. acc' \in Accumulators /\ (acc.tool => acc'.tool)
    BY <1>1, <1>2, AccumulatorFacts
  <1> QED
    BY <1>3 DEF JsonFrame, TypeOK

\* A round that runs a server tool: the result is shown and recorded, or the
\* client is gone.
LEMMA AnswerFacts ==
  ASSUME TypeOK, called # None, NEW outcome \in Outcomes, NEW refs \in SUBSET DeferredTools,
         Answer(outcome, refs)
  PROVE  LET result == [tool |-> called, outcome |-> outcome, refs |-> refs] IN
         /\ result \in Results
         /\ message' \in Messages /\ promoted' \in BOOLEAN /\ msgs' \in Seq(Results)
         /\ \/ pc' = "done" /\ stream /\ gone /\ UNCHANGED <<message, promoted, msgs>>
            \/ /\ pc' = "next" /\ Reachable
               /\ message' = ShowResult(message, result) /\ msgs' = Append(msgs, result)
               /\ ~stream => promoted' = promoted
  <1> DEFINE result == [tool |-> called, outcome |-> outcome, refs |-> refs]
  <1>1. result \in Results
    BY DEF TypeOK, Results
  <1>2. /\ message \in Messages /\ promoted \in BOOLEAN /\ msgs \in Seq(Results)
        /\ stream \in BOOLEAN /\ gone \in BOOLEAN
    BY DEF TypeOK
  <1>3. ShowResult(message, result) \in Messages /\ Append(msgs, result) \in Seq(Results)
    BY <1>1, <1>2, ResultFacts
  <1>4. \/ stream /\ gone /\ pc' = "done" /\ UNCHANGED <<message, promoted, msgs>>
        \/ /\ ~stream \/ ~gone
           /\ Show(ShowResult(message, result), TRUE)
           /\ msgs' = Append(msgs, result) /\ pc' = "next"
    BY DEF Answer, goto
  <1> HIDE DEF result
  <1>5. CASE stream /\ gone
    BY <1>1, <1>2, <1>4, <1>5 DEF result
  <1>6. CASE ~(stream /\ gone)
    <2>1. /\ message' = ShowResult(message, result) /\ promoted' \in BOOLEAN
          /\ ~stream => promoted' = promoted
      BY <1>2, <1>4, <1>6 DEF Show
    <2> QED
      BY <1>1, <1>2, <1>3, <1>4, <1>6, <2>1 DEF result, Reachable
  <1> QED
    BY <1>5, <1>6

LEMMA FrameTypes == ASSUME TypeOK, StreamFrame \/ TailFrame \/ JsonFrame PROVE TypeOK'
  <1>1. CASE StreamFrame \/ TailFrame
    <2>1. FrameShown
      BY <1>1, StreamFrameShown, TailFrameShown
    <2>2. MaxRounds' = MaxRounds
      BY <2>1 DEF FrameShown, MaxRounds, request
    <2> QED
      BY <2>1, <2>2 DEF FrameShown, TypeOK, request, toolVars
  <1>2. CASE JsonFrame
    <2>1. MaxRounds' = MaxRounds
      BY <1>2, JsonFrameRead DEF MaxRounds, request
    <2> QED
      BY <1>2, <2>1, JsonFrameRead DEF TypeOK, request, toolVars, outVars, history
  <1> QED
    BY <1>1, <1>2

LEMMA RoundTypes == ASSUME TypeOK, Ended \/ Read \/ Answered \/ Retry \/ NextRound PROVE TypeOK'
  <1> USE DEF goto, request, toolVars, outVars, history, loopVars
  <1>1. ASSUME Ended PROVE TypeOK'
    <2>1. UNCHANGED <<request, run, round, acc, called, ended, tries, toolVars, outVars, gone, history>> /\ MaxRounds' = MaxRounds
      BY <1>1 DEF Ended, MaxRounds
    <2>2. pc' \in {"done", "fail", "read"} /\ frames' \in 0..MaxFrames
      BY <1>1 DEF Ended, TypeOK
    <2> QED
      BY <2>1, <2>2 DEF TypeOK
  <1>2. ASSUME Read PROVE TypeOK'
    <2>1. UNCHANGED <<request, run, round, frames, called, ended, tries, toolVars, reply, gone, calls, overran>> /\ MaxRounds' = MaxRounds
      BY <1>2 DEF Read, MaxRounds
    <2>2. /\ Finalize(acc) \in Accumulators /\ Close(message, acc) \in Messages
          /\ StopReason(acc) \in {"stopped", "tool_use", "end_turn"}
      BY FinalizeFacts, CloseFacts DEF TypeOK, StopReason
    <2>3. pc' \in {"use", "answered"} /\ acc' \in Accumulators /\ finals' \in Nat
      BY <1>2, <2>2 DEF Read, TypeOK
    <2>4. message' \in Messages /\ promoted' \in BOOLEAN
      <3>1. CASE ~stream
        <4>1. /\ message' = [message EXCEPT !.open = TRUE, !.client = @ \/ acc.tool,
                                            !.reason = StopReason(acc)]
              /\ promoted' = promoted
          BY <1>2, <3>1 DEF Read
        <4> QED
          BY <2>2, <4>1 DEF TypeOK, Messages
      <3>2. CASE stream /\ called = None /\ ended = "eof"
        <4>1. Show(Close(message, acc), acc.held) /\ acc.held \in BOOLEAN
          BY <1>2, <3>2 DEF Read, TypeOK, Accumulators
        <4> QED
          BY <2>2, <4>1, ShowTypes
      <3>3. CASE stream /\ ~(called = None /\ ended = "eof")
        BY <1>2, <3>3 DEF Read, TypeOK
      <3> QED
        BY <3>1, <3>2, <3>3
    <2> QED
      BY <2>1, <2>3, <2>4 DEF TypeOK
  <1>3. ASSUME Answered PROVE TypeOK'
    <2>1. UNCHANGED <<request, run, round, frames, acc, called, ended, tries, toolVars, outVars, gone, history>> /\ MaxRounds' = MaxRounds
      BY <1>3 DEF Answered, MaxRounds
    <2>2. pc' \in {"retry", "send", "done"}
      BY <1>3 DEF Answered, TypeOK
    <2> QED
      BY <2>1, <2>2 DEF TypeOK
  <1>4. ASSUME Retry PROVE TypeOK'
    <2>1. UNCHANGED <<request, frames, called, ended, tries, uses, deferred, promoted, reply, gone, history>> /\ MaxRounds' = MaxRounds
      BY <1>4 DEF Retry, MaxRounds
    <2>2. NewAcc \in Accumulators /\ NewMessage \in Messages /\ 0 \in 0..(MaxRounds - 1)
      BY NewAccFacts, NewMessageFacts, MaxRoundsNat
    <2>3. message' \in Messages
      BY <1>4, <2>2 DEF Retry
    <2>4. CASE run = 1
      <3>1. run' = 2 /\ round' = 0 /\ msgs' = <<>> /\ acc' = NewAcc /\ pc' = "call"
        BY <1>4, <2>4 DEF Retry
      <3>2. msgs' \in Seq(Results)
        BY <3>1
      <3> QED
        BY <2>1, <2>2, <2>3, <3>1, <3>2 DEF TypeOK
    <2>5. CASE run # 1
      <3>1. UNCHANGED <<run, round, msgs, acc>> /\ pc' = "fail"
        BY <1>4, <2>5 DEF Retry
      <3> QED
        BY <2>1, <2>3, <3>1 DEF TypeOK
    <2> QED
      BY <2>4, <2>5
  <1>5. ASSUME NextRound PROVE TypeOK'
    <2>1. UNCHANGED <<request, run, frames, acc, called, ended, tries, toolVars, outVars, gone, history>> /\ MaxRounds' = MaxRounds
      BY <1>5 DEF NextRound, MaxRounds
    <2>2. /\ pc' \in {"call", "close", "send"}
          /\ round' \in 0..(MaxRounds - 1)
      BY <1>5, MaxRoundsNat DEF NextRound, TypeOK
    <2> QED
      BY <2>1, <2>2 DEF TypeOK
  <1> QED
    BY <1>1, <1>2, <1>3, <1>4, <1>5

LEMMA EndTypes == ASSUME TypeOK, CloseStream \/ Send \/ Fail \/ ClientGone PROVE TypeOK'
  <1> USE DEF goto, request, toolVars, outVars, history, loopVars
  <1>1. ASSUME CloseStream PROVE TypeOK'
    <2>1. UNCHANGED <<request, run, round, frames, called, ended, tries, toolVars, reply, gone, calls, overran>> /\ MaxRounds' = MaxRounds
      BY <1>1 DEF CloseStream, MaxRounds
    <2>2. /\ Finalize(acc) \in Accumulators /\ Close(message, acc) \in Messages
          /\ StopReason(acc) \in {"stopped", "tool_use", "end_turn"}
      BY FinalizeFacts, CloseFacts DEF TypeOK, StopReason
    <2>3. pc' = "send" /\ acc' \in Accumulators /\ finals' \in Nat
      BY <1>1, <2>2 DEF CloseStream, TypeOK
    <2>4. Show(Close(message, acc), acc.held) /\ acc.held \in BOOLEAN
      BY <1>1 DEF CloseStream, TypeOK, Accumulators
    <2>5. message' \in Messages /\ promoted' \in BOOLEAN
      BY <2>2, <2>4, ShowTypes
    <2> QED
      BY <2>1, <2>3, <2>5 DEF TypeOK
  <1>2. ASSUME Send PROVE TypeOK'
    <2>1. UNCHANGED <<request, run, round, frames, acc, called, ended, tries, toolVars, gone, history>> /\ MaxRounds' = MaxRounds
      BY <1>2 DEF Send, MaxRounds
    <2>2. [message EXCEPT !.stops = 1] \in Messages
      BY DEF TypeOK, Messages
    <2>3. /\ pc' = "done" /\ message' \in Messages
          /\ promoted' \in BOOLEAN /\ reply' \in {None, "message", "error"}
      BY <1>2, <2>2 DEF Send, TypeOK
    <2> QED
      BY <2>1, <2>3 DEF TypeOK
  <1>3. ASSUME Fail PROVE TypeOK'
    <2>1. UNCHANGED <<request, run, round, frames, acc, called, ended, tries, toolVars, promoted, gone, history>> /\ MaxRounds' = MaxRounds
      BY <1>3 DEF Fail, MaxRounds
    <2>2. NewMessage \in Messages /\ [message EXCEPT !.late = @ \/ message.stops > 0] \in Messages
      BY NewMessageFacts DEF TypeOK, Messages
    <2>3. /\ pc' = "done" /\ message' \in Messages
          /\ reply' \in {None, "message", "error"}
      BY <1>3, <2>2 DEF Fail, TypeOK
    <2> QED
      BY <2>1, <2>3 DEF TypeOK
  <1>4. ASSUME ClientGone PROVE TypeOK'
    <2>1. UNCHANGED <<request, loopVars, toolVars, outVars, history>> /\ MaxRounds' = MaxRounds
      BY <1>4 DEF ClientGone, MaxRounds
    <2>2. gone' \in BOOLEAN
      BY <1>4 DEF ClientGone, TypeOK
    <2> QED
      BY <2>1, <2>2 DEF TypeOK
  <1> QED
    BY <1>1, <1>2, <1>3, <1>4

LEMMA UseShown ==
  ASSUME TypeOK, RoundContinues, Use
  PROVE  /\ pc = "use" /\ called \in Tools /\ message' \in Messages /\ promoted' \in BOOLEAN
         /\ UNCHANGED <<request, run, round, frames, acc, called, ended, toolVars, reply, gone, history>>
         /\ \/ pc' = "fail" /\ UNCHANGED <<message, promoted, tries>>
            \/ /\ pc' \in {"consult", "search"} /\ tries' = 0
               /\ message' = IF Reachable THEN ShowUse(message, called) ELSE message
               /\ ~stream => promoted' = promoted
  <1> USE DEF goto
  <1>1. /\ called \in Tools /\ message \in Messages /\ promoted \in BOOLEAN
        /\ stream \in BOOLEAN /\ gone \in BOOLEAN
    BY DEF Use, TypeOK, RoundContinues
  <1>2. ShowUse(message, called) \in Messages
    BY <1>1, UseFacts
  <1>3. /\ pc = "use"
        /\ UNCHANGED <<request, run, round, frames, acc, called, ended, toolVars, reply, gone, history>>
        /\ \/ pc' = "fail" /\ UNCHANGED <<message, promoted, tries>>
           \/ /\ pc' \in {"consult", "search"} /\ tries' = 0
              /\ Show(ShowUse(message, called), TRUE)
    BY DEF Use
  <1>4. ASSUME Show(ShowUse(message, called), TRUE)
        PROVE  /\ message' = IF Reachable THEN ShowUse(message, called) ELSE message
               /\ ~stream => promoted' = promoted
               /\ promoted' \in BOOLEAN
    BY <1>1, <1>4 DEF Show, Reachable
  <1> QED
    BY <1>1, <1>2, <1>3, <1>4

\* The tools that answer: what they do besides.
ToolRun(outcome, refs) ==
    /\ outcome \in Outcomes /\ refs \in SUBSET DeferredTools
    /\ Answer(outcome, refs)
    /\ deferred' \subseteq deferred /\ refs \cap deferred' = {}

LEMMA ToolSteps ==
  ASSUME TypeOK, RoundContinues, Search \/ Consult \/ Subcall
  PROVE  /\ pc \in {"search", "consult", "subcall"} /\ called # None
         /\ UNCHANGED <<request, run, round, frames, acc, called, ended, reply, gone, finals, overran>>
         /\ calls'.executor = calls.executor /\ calls' \in [executor : Nat, advisor : Nat]
         /\ deferred' \subseteq deferred
         /\ tries' \in 0..AdvisorEmptyRetries /\ uses' \in 0..MaxUses
         /\ \/ \E outcome, refs : ToolRun(outcome, refs)
            \/ /\ pc' = "subcall"
               /\ UNCHANGED <<msgs, message, promoted, deferred>>
         /\ \/ /\ pc \in {"search", "consult"} /\ UNCHANGED <<uses, calls, tries>>
               /\ pc' # "subcall"
            \/ /\ pc = "consult" /\ pc' = "subcall" /\ uses' = uses + 1 /\ UNCHANGED <<calls, tries>>
            \/ /\ pc = "subcall" /\ uses' = uses /\ calls'.advisor = calls.advisor + 1
               /\ \/ pc' = "subcall" /\ tries' = tries + 1
                  \/ pc' # "subcall" /\ tries' = 0
  <1> USE DEF goto
  <1>1. /\ calls \in [executor : Nat, advisor : Nat] /\ deferred \subseteq DeferredTools
        /\ tries \in 0..AdvisorEmptyRetries /\ uses \in 0..MaxUses
    BY DEF TypeOK
  <1>2. \A outcome, refs : Answer(outcome, refs) => pc' \in {"done", "next"}
    BY DEF Answer
  <1>3. CASE Search
    <2>1. /\ pc = "search" /\ called # None
          /\ UNCHANGED <<request, run, round, frames, acc, called, ended, tries, uses, reply, gone, history>>
      BY <1>3 DEF Search, RoundContinues
    <2>2. \E outcome, refs : ToolRun(outcome, refs)
      <3>1. CASE \E found \in SUBSET deferred : deferred' = deferred \ found /\ Answer("ok", found)
        <4>1. PICK found \in SUBSET deferred : deferred' = deferred \ found /\ Answer("ok", found)
          BY <3>1
        <4>2. ToolRun("ok", found)
          BY <1>1, <4>1 DEF ToolRun, Outcomes
        <4> QED
          BY <4>2
      <3>2. CASE Answer("error", {}) /\ UNCHANGED deferred
        <4>1. ToolRun("error", {})
          BY <3>2 DEF ToolRun, Outcomes
        <4> QED
          BY <4>1
      <3> QED
        BY <1>3, <3>1, <3>2 DEF Search
    <2> QED
      BY <1>1, <1>2, <2>1, <2>2 DEF ToolRun, history
  <1>4. CASE Consult
    <2>1. /\ pc = "consult" /\ called # None
          /\ UNCHANGED <<request, run, round, frames, acc, called, ended, tries, deferred, reply, gone, history>>
      BY <1>4 DEF Consult, RoundContinues
    <2>2. \/ uses' = uses /\ \E outcome \in {"error", "max_uses"} : Answer(outcome, {})
          \/ uses < MaxUses /\ uses' = uses + 1 /\ pc' = "subcall" /\ UNCHANGED <<msgs, message, promoted>>
      BY <1>4 DEF Consult
    <2>3. ASSUME NEW outcome \in {"error", "max_uses"}, Answer(outcome, {}) PROVE ToolRun(outcome, {})
      BY <2>1, <2>3 DEF ToolRun, Outcomes
    <2>4. CASE uses' = uses /\ \E outcome \in {"error", "max_uses"} : Answer(outcome, {})
      <3>1. \E outcome, refs : ToolRun(outcome, refs)
        BY <2>3, <2>4
      <3> QED
        BY <1>1, <1>2, <2>1, <2>4, <3>1 DEF history
    <2>5. CASE uses < MaxUses /\ uses' = uses + 1 /\ pc' = "subcall" /\ UNCHANGED <<msgs, message, promoted>>
      BY <1>1, <2>1, <2>5 DEF history
    <2> QED
      BY <2>2, <2>4, <2>5
  <1>5. CASE Subcall
    <2>1. /\ pc = "subcall" /\ called # None
          /\ UNCHANGED <<request, run, round, frames, acc, called, ended, uses, deferred, reply, gone,
                         finals, overran>>
      BY <1>5 DEF Subcall, RoundContinues
    <2>2. calls' = [calls EXCEPT !.advisor = @ + 1] /\ calls.advisor + 1 \in Nat
      BY <1>1, <1>5 DEF Subcall
    <2>3. /\ calls'.executor = calls.executor /\ calls'.advisor = calls.advisor + 1
          /\ calls' \in [executor : Nat, advisor : Nat]
      BY <1>1, <2>2
    <2>4. \/ tries < AdvisorEmptyRetries /\ tries' = tries + 1 /\ UNCHANGED <<pc, msgs, message, promoted>>
          \/ tries' = 0 /\ \E outcome \in {"ok", "error"} : Answer(outcome, {})
      BY <1>5 DEF Subcall
    <2>5. ASSUME NEW outcome \in {"ok", "error"}, Answer(outcome, {}) PROVE ToolRun(outcome, {})
      BY <2>1, <2>5 DEF ToolRun, Outcomes
    <2>6. CASE tries < AdvisorEmptyRetries /\ tries' = tries + 1 /\ UNCHANGED <<pc, msgs, message, promoted>>
      BY <1>1, <2>1, <2>3, <2>6
    <2>7. CASE tries' = 0 /\ \E outcome \in {"ok", "error"} : Answer(outcome, {})
      <3>1. \E outcome, refs : ToolRun(outcome, refs)
        BY <2>5, <2>7
      <3> QED
        BY <1>1, <1>2, <2>1, <2>3, <2>7, <3>1
    <2> QED
      BY <2>4, <2>6, <2>7
  <1> QED
    BY <1>3, <1>4, <1>5

LEMMA ToolTypes == ASSUME TypeOK, RoundContinues, Use \/ Search \/ Consult \/ Subcall PROVE TypeOK'
  <1> USE DEF request, toolVars, outVars, history
  <1>1. CASE Use
    <2>1. MaxRounds' = MaxRounds
      BY <1>1, UseShown DEF MaxRounds
    <2>2. tries' \in 0..AdvisorEmptyRetries /\ pc' \in {"consult", "search", "fail"}
      BY <1>1, UseShown DEF TypeOK
    <2>3. /\ message' \in Messages /\ promoted' \in BOOLEAN
          /\ UNCHANGED <<request, run, round, frames, acc, called, ended, toolVars, reply, gone, history>>
      BY <1>1, UseShown
    <2> QED
      BY <2>1, <2>2, <2>3 DEF TypeOK
  <1>2. CASE Search \/ Consult \/ Subcall
    <2>1. /\ called # None
          /\ UNCHANGED <<request, run, round, frames, acc, called, ended, reply, gone, finals, overran>>
          /\ calls' \in [executor : Nat, advisor : Nat]
          /\ deferred' \subseteq deferred
          /\ tries' \in 0..AdvisorEmptyRetries /\ uses' \in 0..MaxUses
          /\ \/ \E outcome, refs : ToolRun(outcome, refs)
             \/ pc' = "subcall" /\ UNCHANGED <<msgs, message, promoted>>
      BY <1>2, ToolSteps
    <2>2. MaxRounds' = MaxRounds
      BY <2>1 DEF MaxRounds
    <2>3. /\ message' \in Messages /\ promoted' \in BOOLEAN /\ msgs' \in Seq(Results)
          /\ pc' \in {"subcall", "done", "next"}
      <3>1. ASSUME NEW outcome, NEW refs, ToolRun(outcome, refs)
            PROVE  /\ message' \in Messages /\ promoted' \in BOOLEAN /\ msgs' \in Seq(Results)
                   /\ pc' \in {"done", "next"}
        BY <2>1, <3>1, AnswerFacts DEF ToolRun
      <3>2. CASE UNCHANGED <<msgs, message, promoted>> /\ pc' = "subcall"
        BY <3>2 DEF TypeOK
      <3> QED
        BY <2>1, <3>1, <3>2
    <2> QED
      BY <2>1, <2>2, <2>3 DEF TypeOK
  <1> QED
    BY <1>1, <1>2

LEMMA TypeStep == ASSUME TypeOK, RoundContinues, [Next]_vars PROVE TypeOK' /\ RoundContinues'
  <1>1. CASE Next
    <2>1. TypeOK'
      BY <1>1, ParseTypes, FrameTypes, RoundTypes, EndTypes, ToolTypes
         DEF Next, Handler, Parse, RunTool
    <2>2. RoundContinues'
      <3>1. CASE Use \/ Search \/ Consult \/ Subcall
        BY <3>1, UseShown, ToolSteps DEF RoundContinues, ToolRun, Answer, goto
      <3>2. CASE Call \/ Ended \/ Answered \/ Retry \/ NextRound \/ CloseStream \/ Send \/ Fail
                 \/ ClientGone
        BY <3>2 DEF RoundContinues, Call, Ended, Answered, Retry, NextRound, CloseStream, Send, Fail,
                    ClientGone, loopVars, goto
      <3>3. CASE Read
        BY <3>3 DEF RoundContinues, Read, goto
      <3>4. CASE ParseEnds \/ ErrorFrame \/ ServerToolFrame
        BY <3>4 DEF RoundContinues, ParseEnds, ErrorFrame, ServerToolFrame, EndParse, goto
      <3>5. CASE StreamFrame \/ TailFrame
        BY <3>5, StreamFrameShown, TailFrameShown DEF RoundContinues, FrameShown
      <3>6. CASE JsonFrame
        BY <3>6, JsonFrameRead DEF RoundContinues
      <3> QED
        BY <1>1, <3>1, <3>2, <3>3, <3>4, <3>5, <3>6 DEF Next, Handler, Parse, RunTool
    <2> QED
      BY <2>1, <2>2
  <1>2. CASE UNCHANGED vars
    BY <1>2 DEF TypeOK, RoundContinues, MaxRounds, vars, request, loopVars, toolVars, outVars, history
  <1> QED
    BY <1>1, <1>2

\* Frames that add nothing to the answer, and its end.
Reading == ParseEnds \/ ErrorFrame \/ ServerToolFrame

----------------------------------------------------------------------------
(* What a request costs. *)

LEMMA CostsStep == ASSUME TypeOK, RoundContinues, Costs, [Next]_vars PROVE Costs'
  <1> USE DEF request, toolVars, outVars, history, loopVars, goto
  <1>1. /\ calls.executor \in Nat /\ calls.advisor \in Nat /\ MaxRounds \in Nat \ {0}
        /\ round \in 0..(MaxRounds - 1) /\ run \in 1..2
        /\ tries \in 0..AdvisorEmptyRetries /\ uses \in Nat
        /\ AdvisorEmptyRetries \in Nat /\ CallsOfUse = 1 + AdvisorEmptyRetries
    BY MaxRoundsNat DEF TypeOK, CallsOfUse
  <1>2. CallsOfUse' = CallsOfUse
    BY DEF CallsOfUse
  <1>3. CASE Call
    <2>1. calls'.executor = calls.executor + 1 /\ calls'.advisor = calls.advisor
      BY <1>3 DEF Call, TypeOK
    <2>2. UNCHANGED <<run, round, tools, tries, uses>> /\ pc = "call" /\ pc' \in {"parse", "fail"}
      BY <1>3 DEF Call
    <2>3. MaxRounds' = MaxRounds
      BY <2>2 DEF MaxRounds
    <2> QED
      BY <1>1, <1>2, <2>1, <2>2, <2>3 DEF Costs
  <1>4. ASSUME UNCHANGED <<calls, run, round, tools, tries, uses>>,
               pc # "call" \/ pc' = "call", pc' = "call" => pc = "call",
               pc' = "subcall" <=> pc = "subcall"
        PROVE  Costs'
    <2>1. MaxRounds' = MaxRounds
      BY <1>4 DEF MaxRounds
    <2> QED
      BY <1>1, <1>2, <1>4, <2>1 DEF Costs
  <1>5. CASE Reading \/ Ended \/ Read \/ Answered \/ CloseStream \/ Send \/ Fail \/ ClientGone
    BY <1>4, <1>5 DEF Reading, ParseEnds, ErrorFrame, ServerToolFrame, EndParse, Ended, Read, Answered,
                      CloseStream, Send, Fail, ClientGone
  <1>6. CASE StreamFrame \/ TailFrame
    BY <1>4, <1>6, StreamFrameShown, TailFrameShown DEF FrameShown
  <1>7. CASE JsonFrame
    BY <1>4, <1>7, JsonFrameRead
  <1>8. CASE UNCHANGED vars
    BY <1>4, <1>8 DEF vars
  <1>9. CASE Retry
    <2>1. UNCHANGED <<calls, tools, tries, uses>> /\ pc = "retry"
      BY <1>9 DEF Retry
    <2>2. MaxRounds' = MaxRounds
      BY <2>1 DEF MaxRounds
    <2>3. \/ run = 1 /\ run' = 2 /\ round' = 0 /\ pc' = "call"
          \/ UNCHANGED <<run, round>> /\ pc' = "fail"
      BY <1>9 DEF Retry
    <2> QED
      BY <1>1, <1>2, <2>1, <2>2, <2>3 DEF Costs
  <1>10. CASE NextRound
    <2>1. UNCHANGED <<calls, tools, tries, uses, run>> /\ pc = "next"
      BY <1>10 DEF NextRound
    <2>2. MaxRounds' = MaxRounds
      BY <2>1 DEF MaxRounds
    <2>3. \/ round' = round + 1 /\ pc' = "call"
          \/ round' = round /\ pc' \in {"close", "send"}
      BY <1>10 DEF NextRound
    <2> QED
      BY <1>1, <1>2, <2>1, <2>2, <2>3 DEF Costs
  <1>11. CASE Use
    <2>1. UNCHANGED <<calls, tools, uses, run, round>> /\ pc = "use" /\ pc' \in {"fail", "consult", "search"}
      BY <1>11, UseShown
    <2>2. MaxRounds' = MaxRounds
      BY <2>1 DEF MaxRounds
    <2> QED
      BY <1>1, <1>2, <2>1, <2>2 DEF Costs
  <1>12. CASE Search \/ Consult \/ Subcall
    <2>1. UNCHANGED <<tools, run, round>> /\ calls'.executor = calls.executor
          /\ pc \in {"search", "consult", "subcall"}
      BY <1>12, ToolSteps
    <2>2. pc' \in {"subcall", "done", "next"}
      BY <1>12, ToolSteps DEF ToolRun, Answer
    <2>3. MaxRounds' = MaxRounds
      BY <2>1 DEF MaxRounds
    <2>4. CASE pc \in {"search", "consult"} /\ UNCHANGED <<uses, calls, tries>> /\ pc' # "subcall"
      BY <1>1, <1>2, <2>1, <2>2, <2>3, <2>4 DEF Costs
    <2>5. CASE pc = "consult" /\ pc' = "subcall" /\ uses' = uses + 1 /\ UNCHANGED <<calls, tries>>
      <3>1. (uses' - 1) * CallsOfUse = uses * CallsOfUse
        BY <1>1, <2>5
      <3> QED
        BY <1>1, <1>2, <2>1, <2>3, <2>5, <3>1 DEF Costs
    <2>6. CASE /\ pc = "subcall" /\ uses' = uses /\ calls'.advisor = calls.advisor + 1
               /\ \/ pc' = "subcall" /\ tries' = tries + 1
                  \/ pc' # "subcall" /\ tries' = 0
      <3>1. uses > 0 /\ uses * CallsOfUse = (uses - 1) * CallsOfUse + CallsOfUse
        BY <1>1, <2>6 DEF Costs
      <3>2. (uses - 1) * CallsOfUse \in Int /\ uses * CallsOfUse \in Int
        BY <1>1
      <3> QED
        BY <1>1, <1>2, <2>1, <2>2, <2>3, <2>6, <3>1, <3>2 DEF Costs
    <2> QED
      BY <1>12, <2>4, <2>5, <2>6, ToolSteps
  <1> QED
    BY <1>3, <1>5, <1>6, <1>7, <1>8, <1>9, <1>10, <1>11, <1>12 DEF Next, Handler, Parse, RunTool, Reading

----------------------------------------------------------------------------
(* The message is closed once. *)

\* Steps that write nothing and stay where the message may be as it is.
LEMMA QuietClosedOnce ==
  ASSUME ClosedOnce, UNCHANGED <<message, ended, called>>, overran => overran',
         \/ pc' \in {"answered", "retry", "send", "done"}
         \/ pc' = pc
         \/ pc = "ended" /\ pc' = "read"
         \/ message.stops # 1
  PROVE  ClosedOnce'
  BY DEF ClosedOnce

LEMMA ClosedOnceStep == ASSUME TypeOK, RoundContinues, ClosedOnce, [Next]_vars PROVE ClosedOnce'
  <1> USE DEF request, toolVars, outVars, history, loopVars, goto
  <1>1. acc \in Accumulators /\ message \in Messages /\ message.stops \in Nat /\ stream \in BOOLEAN
    BY DEF TypeOK, Messages
  <1>2. CASE Call
    <2>1. UNCHANGED <<message, overran>> /\ pc = "call"
      BY <1>2 DEF Call
    <2> QED
      BY <2>1 DEF ClosedOnce
  <1>3. CASE Reading
    <2>1. UNCHANGED <<message, overran>> /\ pc = "parse"
      BY <1>3 DEF Reading, ParseEnds, ErrorFrame, ServerToolFrame
    <2> QED
      BY <2>1 DEF ClosedOnce
  <1>4. CASE StreamFrame \/ TailFrame
    <2>1. FrameShown
      BY <1>4, StreamFrameShown, TailFrameShown
    <2>2. SUFFICES ASSUME ~overran' PROVE ClosedOnce'
      BY DEF ClosedOnce
    <2>3. ~overran /\ message.stops = 0 /\ ~message.late
      BY <1>1, <2>1, <2>2 DEF FrameShown, ClosedOnce
    <2> QED
      BY <2>1, <2>2, <2>3 DEF FrameShown, ClosedOnce
  <1>5. CASE JsonFrame
    BY <1>5, JsonFrameRead DEF ClosedOnce
  <1>6. CASE Ended
    <2>1. UNCHANGED <<message, ended, called, overran>> /\ pc = "ended"
      BY <1>6 DEF Ended
    <2>2. pc' \in {"done", "read"} \/ (pc' = "fail" /\ ended # "localStop")
      BY <1>6 DEF Ended
    <2> QED
      BY <2>1, <2>2 DEF ClosedOnce
  <1>7. CASE Read
    <2>1. UNCHANGED <<called, ended, overran>> /\ pc = "read"
          /\ pc' = IF called # None THEN "use" ELSE "answered"
      BY <1>7 DEF Read
    <2>2. CASE ~stream
      <3>1. message'.stops = message.stops /\ message'.late = message.late
        BY <1>1, <1>7, <2>2 DEF Read, Messages
      <3> QED
        BY <2>1, <3>1 DEF ClosedOnce
    <2>3. CASE stream /\ called = None /\ ended = "eof"
      <3>1. message' \in {message, Close(message, acc)}
        BY <1>7, <2>3 DEF Read, Show
      <3>2. /\ Close(message, acc).stops = message.stops + 1
            /\ message.stops = 0 => (Close(message, acc).late <=> message.late)
        BY <1>1, CloseFacts
      <3> QED
        BY <1>1, <2>1, <2>3, <3>1, <3>2 DEF ClosedOnce
    <2>4. CASE stream /\ ~(called = None /\ ended = "eof")
      <3>1. UNCHANGED message
        BY <1>7, <2>4 DEF Read
      <3> QED
        BY <2>1, <3>1 DEF ClosedOnce
    <2> QED
      BY <2>2, <2>3, <2>4
  <1>8. CASE Answered \/ ClientGone \/ UNCHANGED vars
    BY <1>8, QuietClosedOnce DEF Answered, ClientGone, vars
  <1>9. CASE Retry
    <2>1. message' = NewMessage
      BY <1>9 DEF Retry
    <2> QED
      BY <2>1, NewMessageFacts DEF ClosedOnce
  <1>10. CASE Use
    <2>1. /\ pc = "use" /\ called \in Tools /\ UNCHANGED <<called, ended, overran>>
          /\ message' \in {message, ShowUse(message, called)}
      BY <1>10, UseShown
    <2>2. /\ ShowUse(message, called).stops = message.stops
          /\ message.stops = 0 => (ShowUse(message, called).late <=> message.late)
      BY <1>1, <2>1, UseFacts
    <2> QED
      BY <1>1, <2>1, <2>2 DEF ClosedOnce
  <1>11. CASE Search \/ Consult \/ Subcall
    <2>1. /\ pc \in {"search", "consult", "subcall"} /\ called # None /\ UNCHANGED <<called, ended, overran>>
          /\ (\E outcome, refs : ToolRun(outcome, refs)) \/ UNCHANGED message
      BY <1>11, ToolSteps
    <2>2. ASSUME NEW outcome, NEW refs, ToolRun(outcome, refs) PROVE ClosedOnce'
      <3> DEFINE result == [tool |-> called, outcome |-> outcome, refs |-> refs]
      <3>1. result \in Results /\ message' \in {message, ShowResult(message, result)}
        BY <2>1, <2>2, AnswerFacts DEF ToolRun
      <3> HIDE DEF result
      <3>2. /\ ShowResult(message, result).stops = message.stops
            /\ message.stops = 0 => (ShowResult(message, result).late <=> message.late)
        BY <1>1, <3>1, ResultFacts
      <3> QED
        BY <1>1, <2>1, <3>1, <3>2 DEF ClosedOnce
    <2>3. CASE UNCHANGED message
      BY <2>1, <2>3 DEF ClosedOnce
    <2> QED
      BY <2>1, <2>2, <2>3
  <1>12. CASE NextRound
    <2>1. UNCHANGED <<message, overran>> /\ pc = "next"
      BY <1>12 DEF NextRound
    <2> QED
      BY <2>1 DEF ClosedOnce
  <1>13. CASE CloseStream
    <2>1. /\ pc = "close" /\ pc' = "send" /\ UNCHANGED overran
          /\ message' \in {message, Close(message, acc)}
      BY <1>13 DEF CloseStream, Show
    <2>2. /\ Close(message, acc).stops = message.stops + 1
          /\ message.stops = 0 => (Close(message, acc).late <=> message.late)
      BY <1>1, CloseFacts
    <2> QED
      BY <1>1, <2>1, <2>2 DEF ClosedOnce
  <1>14. CASE Send
    <2> DEFINE m == [message EXCEPT !.stops = 1]
    <2>1. pc = "send" /\ pc' = "done" /\ UNCHANGED overran /\ (message' = message \/ message' = m)
      BY <1>14 DEF Send
    <2>2. m.stops = 1 /\ m.late = message.late
      BY <1>1 DEF Messages
    <2> HIDE DEF m
    <2> QED
      BY <1>1, <2>1, <2>2 DEF ClosedOnce
  <1>15. CASE Fail
    <2> DEFINE m == [message EXCEPT !.late = @ \/ message.stops > 0]
    <2>1. /\ pc = "fail" /\ pc' = "done" /\ UNCHANGED overran
          /\ message' = message \/ message' = NewMessage \/ message' = m
      BY <1>15 DEF Fail
    <2>2. m.stops = message.stops /\ (m.late <=> message.late \/ message.stops > 0)
      BY <1>1 DEF Messages
    <2>3. ~overran => message.stops = 0
      BY <1>1, <2>1 DEF ClosedOnce
    <2> HIDE DEF m
    <2> QED
      BY <1>1, <2>1, <2>2, <2>3, NewMessageFacts DEF ClosedOnce
  <1> QED
    BY <1>2, <1>3, <1>4, <1>5, <1>6, <1>7, <1>8, <1>9, <1>10, <1>11, <1>12, <1>13, <1>14, <1>15
       DEF Next, Handler, Parse, RunTool, Reading

----------------------------------------------------------------------------
(* The second run, and the turn. *)

LEMMA RetryUnseenStep == ASSUME TypeOK, RoundContinues, RetryUnseen, [Next]_vars PROVE RetryUnseen'
  <1> USE DEF request, toolVars, outVars, history, loopVars, goto
  <1>1. CASE Call \/ Reading \/ JsonFrame \/ Ended \/ Read \/ Retry \/ NextRound \/ CloseStream
    BY <1>1 DEF RetryUnseen, Call, Reading, ParseEnds, ErrorFrame, ServerToolFrame, EndParse, JsonFrame,
                Ended, Read, Retry, NextRound, CloseStream
  <1>2. CASE StreamFrame \/ TailFrame
    BY <1>2, StreamFrameShown, TailFrameShown DEF RetryUnseen, FrameShown
  <1>3. CASE Answered
    BY <1>3 DEF RetryUnseen, Answered, WorthRetry
  <1>4. CASE Use
    BY <1>4, UseShown DEF RetryUnseen
  <1>5. CASE Search \/ Consult \/ Subcall
    BY <1>5, ToolSteps DEF RetryUnseen, ToolRun, Answer
  <1>6. CASE Send \/ Fail \/ ClientGone \/ UNCHANGED vars
    BY <1>6 DEF RetryUnseen, Send, Fail, ClientGone, vars
  <1> QED
    BY <1>1, <1>2, <1>3, <1>4, <1>5, <1>6 DEF Next, Handler, Parse, RunTool, Reading

LEMMA TurnToldStep == ASSUME TypeOK, RoundContinues, RetryUnseen, TurnTold, [Next]_vars PROVE TurnTold'
  <1> USE DEF request, toolVars, outVars, history, loopVars, goto
  <1>1. acc \in Accumulators /\ message \in Messages /\ stream \in BOOLEAN /\ gone \in BOOLEAN
    BY DEF TypeOK
  <1>2. pc # "done" => reply = None
    BY DEF RetryUnseen
  <1> USE DEF TurnTold, ContentTaken, Failing, ReasonTold, AfterRead, None
  <1>3. CASE Call
    <2>1. /\ pc = "call" /\ UNCHANGED <<message, reply, stream, gone>>
          /\ \/ pc' = "parse" /\ acc' = NewAcc /\ ended' = None
             \/ pc' = "fail" /\ acc' = acc
      BY <1>3 DEF Call
    <2> QED
      BY <1>2, <2>1, NewAccFacts
  <1>4. CASE Reading
    <2>1. /\ pc = "parse" /\ UNCHANGED <<message, reply, stream, gone, acc>>
          /\ pc' \in {"parse", "ended"} /\ (pc' = "ended" => ended' # "localStop")
      BY <1>4 DEF Reading, ParseEnds, ErrorFrame, ServerToolFrame, EndParse
    <2> QED
      BY <1>2, <2>1
  <1>5. CASE StreamFrame \/ TailFrame
    <2>1. FrameShown
      BY <1>5, StreamFrameShown, TailFrameShown
    <2> QED
      BY <1>1, <1>2, <2>1 DEF FrameShown
  <1>6. CASE JsonFrame
    BY <1>2, <1>6, JsonFrameRead
  <1>7. CASE Ended
    <2>1. /\ pc = "ended" /\ UNCHANGED <<message, reply, stream, gone, acc, ended>>
          /\ (stream /\ gone /\ pc' = "done") \/ pc' \in {"fail", "read"}
      BY <1>7 DEF Ended
    <2> QED
      BY <1>2, <2>1
  <1>8. CASE Read
    <2>1. /\ pc = "read" /\ UNCHANGED <<called, ended, reply, stream, gone>>
          /\ pc' = IF called # None THEN "use" ELSE "answered"
      BY <1>8 DEF Read
    <2>2. CASE ~stream
      <3>1. /\ acc' = Finalize(acc) /\ (message'.client <=> message.client \/ acc.tool)
            /\ message'.reason = StopReason(acc)
        BY <1>1, <1>8, <2>2 DEF Read, Messages
      <3>2. (acc'.tool <=> acc.tool) /\ StopReason(acc') = StopReason(acc)
        BY <1>1, <3>1, FinalizeFacts
      <3> QED
        BY <1>2, <2>1, <2>2, <3>1, <3>2
    <2>3. CASE stream /\ called = None /\ ended = "eof"
      <3>1. acc' = Finalize(acc) /\ message' = IF gone THEN message ELSE Close(message, acc)
        BY <1>8, <2>3 DEF Read, Show
      <3>2. (acc'.tool <=> acc.tool) /\ StopReason(acc') = StopReason(acc)
        BY <1>1, <3>1, FinalizeFacts
      <3>3. (Close(message, acc).client <=> message.client) /\ Close(message, acc).reason = StopReason(acc)
        BY <1>1, CloseFacts
      <3> QED
        BY <1>1, <1>2, <2>1, <2>3, <3>1, <3>2, <3>3
    <2>4. CASE stream /\ ~(called = None /\ ended = "eof")
      <3>1. UNCHANGED <<acc, message>>
        BY <1>8, <2>4 DEF Read
      <3>2. ended = "localStop" \/ pc' = "use"
        BY <2>1, <2>4 DEF RoundContinues
      <3> QED
        BY <1>2, <2>1, <2>4, <3>1, <3>2
    <2> QED
      BY <2>2, <2>3, <2>4
  <1>9. CASE Answered
    <2>1. /\ pc = "answered" /\ UNCHANGED <<message, acc, reply, stream, gone>>
          /\ pc' \in {"retry", "send"} \/ (stream /\ gone /\ pc' = "done")
      BY <1>9 DEF Answered
    <2> QED
      BY <1>2, <2>1
  <1>10. CASE Retry
    <2>1. /\ pc = "retry" /\ message' = NewMessage /\ UNCHANGED <<reply, stream, gone>>
          /\ (pc' = "call" /\ acc' = NewAcc) \/ pc' = "fail"
      BY <1>10 DEF Retry
    <2> QED
      BY <1>2, <2>1, NewAccFacts, NewMessageFacts
  <1>11. CASE Use
    <2>1. /\ pc = "use" /\ called \in Tools /\ UNCHANGED <<acc, reply, stream, gone>>
          /\ pc' \in {"fail", "consult", "search"}
          /\ message' = message \/ message' = ShowUse(message, called)
      BY <1>11, UseShown
    <2>2. /\ ShowUse(message, called).client <=> message.client
          /\ ShowUse(message, called).reason = message.reason
      BY <1>1, <2>1, UseFacts
    <2> QED
      BY <1>2, <2>1, <2>2
  <1>12. CASE Search \/ Consult \/ Subcall
    <2>1. /\ pc \in {"search", "consult", "subcall"} /\ called # None
          /\ UNCHANGED <<acc, reply, stream, gone>>
          /\ \/ \E outcome, refs : ToolRun(outcome, refs)
             \/ UNCHANGED message /\ pc' = "subcall"
      BY <1>12, ToolSteps
    <2>2. ASSUME NEW outcome, NEW refs, ToolRun(outcome, refs) PROVE TurnTold'
      <3> DEFINE result == [tool |-> called, outcome |-> outcome, refs |-> refs]
      <3>1. /\ result \in Results
            /\ \/ message' = message /\ pc' = "done" /\ stream /\ gone
               \/ message' = ShowResult(message, result) /\ pc' = "next"
        BY <2>1, <2>2, AnswerFacts DEF ToolRun
      <3> HIDE DEF result
      <3>2. /\ ShowResult(message, result).client <=> message.client
            /\ ShowResult(message, result).reason = message.reason
        BY <1>1, <3>1, ResultFacts
      <3> QED
        BY <1>2, <2>1, <3>1, <3>2
    <2>3. CASE UNCHANGED message /\ pc' = "subcall"
      BY <1>2, <2>1, <2>3
    <2> QED
      BY <2>1, <2>2, <2>3
  <1>13. CASE NextRound
    <2>1. /\ pc = "next" /\ UNCHANGED <<message, acc, reply, stream, gone>>
          /\ \/ pc' = "call" /\ ~acc.tool
             \/ pc' = IF stream THEN "close" ELSE "send"
      BY <1>13 DEF NextRound
    <2> QED
      BY <1>2, <2>1
  <1>14. CASE CloseStream
    <2>1. /\ pc = "close" /\ pc' = "send" /\ UNCHANGED <<reply, stream, gone>> /\ acc' = Finalize(acc)
          /\ message' = IF stream /\ gone THEN message ELSE Close(message, acc)
      BY <1>14 DEF CloseStream, Show
    <2>2. (acc'.tool <=> acc.tool) /\ StopReason(acc') = StopReason(acc)
      BY <1>1, <2>1, FinalizeFacts
    <2>3. (Close(message, acc).client <=> message.client) /\ Close(message, acc).reason = StopReason(acc)
      BY <1>1, CloseFacts
    <2> QED
      BY <1>1, <1>2, <2>1, <2>2, <2>3
  <1>15. CASE Send
    <2> DEFINE m == [message EXCEPT !.stops = 1]
    <2>1. /\ pc = "send" /\ pc' = "done" /\ UNCHANGED <<acc, stream, gone>>
          /\ message' = message \/ message' = m
          /\ (stream /\ gone) \/ reply' = "message"
      BY <1>15 DEF Send
    <2>2. m.client = message.client /\ m.reason = message.reason
      BY <1>1 DEF Messages
    <2> HIDE DEF m
    <2> QED
      BY <1>2, <2>1, <2>2
  <1>16. CASE Fail
    <2> DEFINE m == [message EXCEPT !.late = @ \/ message.stops > 0]
    <2>1. /\ pc = "fail" /\ pc' = "done" /\ UNCHANGED <<acc, stream, gone>>
          /\ message' = message \/ message' = NewMessage \/ message' = m
          /\ (stream /\ gone) \/ reply' = "error"
      BY <1>16 DEF Fail
    <2>2. m.client = message.client
      BY <1>1 DEF Messages
    <2> HIDE DEF m
    <2> QED
      BY <1>2, <2>1, <2>2, NewMessageFacts
  <1>17. CASE ClientGone \/ UNCHANGED vars
    BY <1>1, <1>17 DEF ClientGone, vars
  <1> QED
    BY <1>3, <1>4, <1>5, <1>6, <1>7, <1>8, <1>9, <1>10, <1>11, <1>12, <1>13, <1>14, <1>15, <1>16, <1>17
       DEF Next, Handler, Parse, RunTool, Reading

----------------------------------------------------------------------------
(* The tools. *)

\* Steps that leave the conversation and the tools alone, and of the message
\* what it says of tools.
LEMMA QuietToolsTold ==
  ASSUME TypeOK, ToolsTold, RetryUnseen, UNCHANGED <<msgs, deferred, stream>>, gone => gone',
         \/ message'.use = message.use /\ message'.results = message.results
         \/ ~Reachable,
         pc = "fail" => ~Reachable \/ reply' = "error",
         pc # "fail" => reply' # "error",
         pc \notin {"search", "consult", "subcall", "done"}
  PROVE  ToolsTold'
  <1>1. Reachable' => Reachable
    BY DEF Reachable, TypeOK
  <1>2. Reachable' /\ ~Failing' => Reachable /\ ~Failing
    BY <1>1 DEF Failing, RetryUnseen, None
  <1> QED
    BY <1>1, <1>2 DEF ToolsTold

LEMMA ToolsToldStep ==
  ASSUME TypeOK, RoundContinues, RetryUnseen, ToolsTold, [Next]_vars PROVE ToolsTold'
  <1> USE DEF request, toolVars, outVars, history, loopVars, goto
  <1>1. /\ acc \in Accumulators /\ message \in Messages /\ stream \in BOOLEAN /\ gone \in BOOLEAN
        /\ msgs \in Seq(Results)
    BY DEF TypeOK
  <1>2. pc # "done" => reply = None
    BY DEF RetryUnseen
  <1>3. CASE Call \/ Reading \/ JsonFrame \/ Ended \/ Answered \/ NextRound
    <2>1. /\ UNCHANGED <<msgs, deferred, stream, gone, message, reply>>
          /\ pc \notin {"search", "consult", "subcall", "fail", "done"}
      BY <1>3 DEF Call, Reading, ParseEnds, ErrorFrame, ServerToolFrame, JsonFrame, Ended, Answered, NextRound
    <2> QED
      BY <1>2, <2>1, QuietToolsTold DEF None
  <1>4. CASE StreamFrame \/ TailFrame
    <2>1. FrameShown
      BY <1>4, StreamFrameShown, TailFrameShown
    <2> QED
      BY <1>2, <2>1, QuietToolsTold DEF FrameShown, None
  <1>5. CASE Read
    <2>1. UNCHANGED <<msgs, deferred, stream, gone, reply>> /\ pc = "read"
      BY <1>5 DEF Read
    <2>2. message'.use = message.use /\ message'.results = message.results
      <3>1. CASE ~stream
        BY <1>1, <1>5, <3>1 DEF Read, Messages
      <3>2. CASE stream
        <4>1. message' = message \/ message' = Close(message, acc)
          BY <1>5, <3>2 DEF Read, Show
        <4> QED
          BY <1>1, <4>1, CloseFacts
      <3> QED
        BY <3>1, <3>2
    <2> QED
      BY <1>2, <2>1, <2>2, QuietToolsTold DEF None
  <1>6. CASE CloseStream
    <2>1. UNCHANGED <<msgs, deferred, stream, gone, reply>> /\ pc = "close"
      BY <1>6 DEF CloseStream
    <2>2. message' = message \/ message' = Close(message, acc)
      BY <1>6 DEF CloseStream, Show
    <2> QED
      BY <1>1, <1>2, <2>1, <2>2, CloseFacts, QuietToolsTold DEF None
  <1>7. CASE Send
    <2> DEFINE m == [message EXCEPT !.stops = 1]
    <2>1. /\ UNCHANGED <<msgs, deferred, stream, gone>> /\ pc = "send" /\ reply' # "error"
          /\ message' = message \/ message' = m
      BY <1>2, <1>7 DEF Send, None
    <2>2. m.use = message.use /\ m.results = message.results
      BY <1>1 DEF Messages
    <2> HIDE DEF m
    <2> QED
      BY <2>1, <2>2, QuietToolsTold
  <1>8. CASE Fail
    <2>1. UNCHANGED <<msgs, deferred, stream, gone>> /\ (~Reachable \/ reply' = "error")
      BY <1>8 DEF Fail, Reachable
    <2>2. ~(Reachable' /\ ~Failing')
      BY <2>1 DEF Reachable, Failing
    <2> QED
      BY <2>1, <2>2 DEF ToolsTold
  <1>9. CASE ClientGone \/ UNCHANGED vars
    <2>1. CASE ~Reachable'
      BY <1>9, <2>1 DEF ToolsTold, ClientGone, vars
    <2>2. CASE Reachable'
      BY <1>9, <2>2 DEF ToolsTold, ClientGone, vars, Reachable, Failing
    <2> QED
      BY <2>1, <2>2
  <1>10. CASE Retry
    <2>1. UNCHANGED <<deferred, stream, gone, reply>> /\ message' = NewMessage
      BY <1>10 DEF Retry
    <2>2. CASE run = 1
      <3>1. msgs' = <<>> /\ pc' = "call"
        BY <1>10, <2>2 DEF Retry
      <3> QED
        BY <2>1, <3>1, NewMessageFacts DEF ToolsTold
    <2>3. CASE run # 1
      <3>1. msgs' = msgs /\ pc' = "fail"
        BY <1>10, <2>3 DEF Retry
      <3> QED
        BY <2>1, <3>1 DEF ToolsTold, Failing
    <2> QED
      BY <2>2, <2>3
  <1>11. CASE Use
    <2>1. /\ pc = "use" /\ called \in Tools /\ UNCHANGED <<msgs, deferred, stream, gone, reply>>
          /\ \/ pc' = "fail"
             \/ /\ pc' \in {"consult", "search"}
                /\ message' = IF Reachable THEN ShowUse(message, called) ELSE message
      BY <1>11, UseShown
    <2>2. ShowUse(message, called).results = message.results
      BY <1>1, <2>1, UseFacts
    <2>3. Reachable' <=> Reachable
      BY <2>1 DEF Reachable
    <2> QED
      BY <1>2, <2>1, <2>2, <2>3 DEF ToolsTold, Failing, None
  <1>12. CASE Search \/ Consult \/ Subcall
    <2>1. /\ pc \in {"search", "consult", "subcall"} /\ called # None
          /\ UNCHANGED <<stream, gone, reply>> /\ deferred' \subseteq deferred
          /\ \/ \E outcome, refs : ToolRun(outcome, refs)
             \/ UNCHANGED <<msgs, message>> /\ pc' = "subcall"
      BY <1>12, ToolSteps
    <2>2. (Reachable' <=> Reachable) /\ ~Failing
      BY <1>2, <2>1 DEF Reachable, Failing, None
    <2>3. ASSUME NEW outcome, NEW refs, ToolRun(outcome, refs) PROVE ToolsTold'
      <3> DEFINE result == [tool |-> called, outcome |-> outcome, refs |-> refs]
      <3>1. /\ result \in Results /\ result.refs \cap deferred' = {}
            /\ \/ pc' = "done" /\ ~Reachable /\ UNCHANGED <<message, msgs>>
               \/ /\ pc' = "next" /\ Reachable
                  /\ message' = ShowResult(message, result) /\ msgs' = Append(msgs, result)
        BY <2>1, <2>3, AnswerFacts DEF ToolRun, Reachable
      <3> HIDE DEF result
      <3>2. CASE pc' = "done" /\ ~Reachable /\ UNCHANGED <<message, msgs>>
        BY <2>1, <2>2, <3>2 DEF ToolsTold
      <3>3. CASE /\ pc' = "next" /\ Reachable
                 /\ message' = ShowResult(message, result) /\ msgs' = Append(msgs, result)
        <4>1. message'.use = None /\ message'.results = Append(message.results, result)
          BY <1>1, <3>1, <3>3, ResultFacts
        <4>2. msgs = message.results
          BY <2>2, <3>3 DEF ToolsTold
        <4>3. ASSUME NEW i \in DOMAIN msgs' PROVE msgs'[i].refs \cap deferred' = {}
          <5>1. Len(msgs) \in Nat /\ DOMAIN msgs' = 1..(Len(msgs) + 1)
            BY <1>1, <3>1, <3>3
          <5>2. CASE i = Len(msgs) + 1
            <6>1. msgs'[i] = result
              BY <1>1, <3>1, <3>3, <5>2
            <6> QED
              BY <3>1, <6>1
          <5>3. CASE i # Len(msgs) + 1
            <6>1. i \in DOMAIN msgs /\ msgs'[i] = msgs[i]
              BY <1>1, <3>1, <3>3, <5>1, <5>3
            <6>2. msgs[i].refs \cap deferred = {}
              BY <6>1 DEF ToolsTold
            <6> QED
              BY <2>1, <6>1, <6>2
          <5> QED
            BY <5>2, <5>3
        <4> QED
          BY <3>3, <4>1, <4>2, <4>3 DEF ToolsTold
      <3> QED
        BY <3>1, <3>2, <3>3
    <2>4. CASE UNCHANGED <<msgs, message>> /\ pc' = "subcall"
      BY <2>1, <2>2, <2>4 DEF ToolsTold
    <2> QED
      BY <2>1, <2>3, <2>4
  <1> QED
    BY <1>3, <1>4, <1>5, <1>6, <1>7, <1>8, <1>9, <1>10, <1>11, <1>12
       DEF Next, Handler, Parse, RunTool, Reading

----------------------------------------------------------------------------
(* The invariant, and the theorems. *)

LEMMA InitIInv == Init => IInv
  <1> SUFFICES ASSUME Init PROVE IInv
    OBVIOUS
  <1>1. TypeOK
    BY InitTypeOK
  <1>2. /\ run = 1 /\ round = 0 /\ pc = "call" /\ acc = NewAcc /\ called = None /\ uses = 0
        /\ msgs = <<>> /\ message = NewMessage /\ promoted = FALSE /\ reply = None
        /\ calls.executor = 0 /\ calls.advisor = 0
    BY DEF Init
  <1>3. uses * CallsOfUse = 0
    BY <1>2 DEF CallsOfUse
  <1>4. Costs
    BY <1>2, <1>3 DEF Costs
  <1>5. ClosedOnce
    BY <1>2, NewMessageFacts DEF ClosedOnce
  <1>6. TurnTold
    BY <1>2, NewMessageFacts, NewAccFacts DEF TurnTold, ContentTaken, AfterRead, ReasonTold, Init, None
  <1>7. ToolsTold
    BY <1>2, NewMessageFacts DEF ToolsTold
  <1>8. RetryUnseen /\ RoundContinues
    BY <1>2 DEF RetryUnseen, RoundContinues
  <1> QED
    BY <1>1, <1>4, <1>5, <1>6, <1>7, <1>8 DEF IInv

LEMMA IInvStep == IInv /\ [Next]_vars => IInv'
  BY TypeStep, CostsStep, ClosedOnceStep, RetryUnseenStep, TurnToldStep, ToolsToldStep DEF IInv

LEMMA IInvAlways == Spec => []IInv
  <1>1. Init => IInv
    BY InitIInv
  <1>2. IInv /\ [Next]_vars => IInv'
    BY IInvStep
  <1> QED
    BY <1>1, <1>2, PTL DEF Spec

\* The state of the loop is of its types, however often it runs.
THEOREM ServerToolsTypes == Spec => []TypeOK
  <1>1. IInv => TypeOK
    BY DEF IInv
  <1> QED
    BY <1>1, IInvAlways, PTL

\* One request costs at most two runs of MaxRounds upstream calls, and MaxUses
\* consultations with their retries, whatever the model calls and however the
\* calls end.
THEOREM CallsAreBounded == Spec => []CallsBounded
  <1>1. ASSUME IInv PROVE CallsBounded
    <2>0. TypeOK /\ Costs
      BY <1>1 DEF IInv
    <2>1. /\ calls.executor \in Nat /\ calls.advisor \in Nat /\ MaxRounds \in Nat \ {0}
          /\ round \in 0..(MaxRounds - 1) /\ tries \in 0..AdvisorEmptyRetries /\ uses \in 0..MaxUses
          /\ CallsOfUse \in Nat /\ tries <= CallsOfUse
      BY <2>0, MaxRoundsNat DEF TypeOK, CallsOfUse
    <2>2. calls.executor <= 2 * MaxRounds
      BY <2>0, <2>1 DEF Costs
    <2>3. calls.advisor <= uses * CallsOfUse
      <3>1. uses > 0 => uses * CallsOfUse = (uses - 1) * CallsOfUse + CallsOfUse
        BY <2>1
      <3>2. (uses - 1) * CallsOfUse \in Int /\ uses * CallsOfUse \in Int
        BY <2>1
      <3> QED
        BY <2>0, <2>1, <3>1, <3>2 DEF Costs
    <2>4. uses * CallsOfUse <= MaxUses * CallsOfUse
      <3>1. MaxUses * CallsOfUse = uses * CallsOfUse + (MaxUses - uses) * CallsOfUse
        BY <2>1
      <3>2. (MaxUses - uses) * CallsOfUse >= 0
        BY <2>1
      <3> QED
        BY <2>1, <3>1, <3>2
    <2> QED
      BY <2>1, <2>2, <2>3, <2>4 DEF CallsBounded, CallsOfUse
  <1> QED
    BY <1>1, IInvAlways, PTL

\* The message of a request is closed once and nothing follows, whatever it is
\* put together from, unless a call in the tail overruns.
THEOREM MessageEndsAtMostOnce == Spec => []MessageEndsOnce
  <1>1. IInv => MessageEndsOnce
    BY DEF IInv, ClosedOnce, MessageEndsOnce
  <1> QED
    BY <1>1, IInvAlways, PTL

\* The model is told of every server tool what the client was shown.
THEOREM ToolsAreAnswered == Spec => []ServerToolsAnswered
  <1>1. ASSUME IInv PROVE ServerToolsAnswered
    <2>1. SUFFICES ASSUME ~gone, pc = "call" \/ reply = "message"
          PROVE  /\ message.use = None /\ msgs = message.results
                 /\ \A i \in DOMAIN msgs : msgs[i].refs \cap deferred = {}
      BY DEF ServerToolsAnswered
    <2>2. Reachable /\ ~Failing /\ pc \notin {"search", "consult", "subcall"}
      BY <1>1, <2>1 DEF IInv, RetryUnseen, Reachable, Failing, None
    <2> QED
      BY <1>1, <2>2 DEF IInv, ToolsTold
  <1> QED
    BY <1>1, IInvAlways, PTL

\* The model is not asked again over the client's head, and the stop reason
\* tells the client whether it has calls to answer.
THEOREM TurnIsTheClients == Spec => []TurnBelongsToClient
  <1>1. ASSUME IInv PROVE TurnBelongsToClient
    <2>1. pc = "call" => ~message.client
      BY <1>1 DEF IInv, TurnTold
    <2>2. ASSUME reply = "message", ~gone
          PROVE  /\ message.reason = "tool_use" => message.client
                 /\ message.client => message.reason \in {"tool_use", "stopped"}
      <3>1. pc = "done" /\ ContentTaken /\ ~Failing /\ ReasonTold
        BY <1>1, <2>2 DEF IInv, RetryUnseen, ContentTaken, Failing, ReasonTold, None
      <3>2. (acc.tool => message.client) /\ (message.client => acc.tool) /\ message.reason = StopReason(acc)
        BY <1>1, <3>1 DEF IInv, TurnTold
      <3> QED
        BY <3>2 DEF StopReason
    <2> QED
      BY <2>1, <2>2 DEF TurnBelongsToClient
  <1> QED
    BY <1>1, IInvAlways, PTL

\* The loop starts again only if nothing of its first run was sent.
THEOREM OneRunIsShown == Spec => OneRunShown
  <1>1. ASSUME IInv, Next, run' # run PROVE ~promoted /\ reply = None /\ message' = NewMessage
    <2>1. CASE Retry
      BY <1>1, <2>1 DEF IInv, RetryUnseen, Retry
    <2>2. CASE ~Retry
      <3>1. Use \/ Search \/ Consult \/ Subcall => run' = run
        BY <1>1, UseShown, ToolSteps DEF IInv
      <3>2. StreamFrame \/ TailFrame \/ JsonFrame => run' = run
        BY DEF StreamFrame, TailFrame, JsonFrame
      <3>3. Call \/ Reading \/ Ended \/ Read \/ Answered => run' = run
        BY DEF Call, Reading, ParseEnds, ErrorFrame, ServerToolFrame, Ended, Read, Answered
      <3>4. NextRound \/ CloseStream \/ Send \/ Fail \/ ClientGone => run' = run
        BY DEF NextRound, CloseStream, Send, Fail, ClientGone, loopVars
      <3> QED
        BY <1>1, <2>2, <3>1, <3>2, <3>3, <3>4 DEF Next, Handler, Parse, RunTool, Reading
    <2> QED
      BY <2>1, <2>2
  <1>2. IInv /\ [Next]_vars => [run' # run => ~promoted /\ reply = None /\ message' = NewMessage]_vars
    BY <1>1
  <1> QED
    BY <1>2, IInvAlways, PTL DEF Spec, OneRunShown
=============================================================================
