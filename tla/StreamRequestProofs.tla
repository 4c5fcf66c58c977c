------------------------ MODULE StreamRequestProofs ------------------------
(***************************************************************************)
(* Proofs about StreamRequest.  For any number of frames, writes and       *)
(* keep-alives: what the client sees implements ClientView, comes from one *)
(* attempt, and answers the request unless the client went away or the     *)
(* socket failed.                                                          *)
(***************************************************************************)
EXTENDS StreamRequest, StreamSessionProofs

Labels == {"call", "headers", "start", "parse", "read", "emit", "framed", "stopped", "ended",
           "finished", "retry", "final", "closing", "reply", "return", "done"}
Ops    == SseKinds \cup {"promote", "flush"}

ReqTypeOK ==
    /\ pc \in Labels
    /\ resume \in {"call", "framed", "stopped", "finished", "closing"}
    /\ todo \in Seq(Ops)
    /\ attempt \in Nat /\ frames \in Nat /\ base \in Nat
    /\ request \in [stream : BOOLEAN, drain : BOOLEAN]
    /\ writer \in [started : BOOLEAN, fired : BOOLEAN, err : BOOLEAN]
    /\ acc \in Accumulators
    /\ ended \in {"none", "streamErr", "localStop", "readErr", "eof"}
    /\ cause \in {"none", "call", "retryable", "fatal", "exhausted"}
    /\ gone \in BOOLEAN

Leaving == pc \in {"return", "done"}

\* Where the handler stands when the message is complete, or is about to be.
Completing ==
    \/ pc = "emit" /\ resume \in {"stopped", "finished"}
    \/ pc \in {"stopped", "finished"}
    \/ pc = "ended" /\ ended = "localStop"

\* Where WriteFinalError's callback is at work.
Closing == pc = "closing" \/ (pc = "emit" /\ resume = "closing")

Kept(kind) == \E k \in DOMAIN kept : kept[k].kind = kind
Due(op)    == \E i \in DOMAIN todo : todo[i] = op

\* What is left to write ends with this kind, or what was written did.
WillEndWith(kind) ==
    IF todo \in {<<>>, <<"flush">>}
    THEN kept # <<>> /\ kept[Len(kept)].kind = kind
    ELSE todo[Len(todo)] = kind

OpensFirst(ops) == \A i \in DOMAIN ops : ops[i] = "message_start" => i = 1
----------------------------------------------------------------------------
\* The handler's place, and what it says of the session.
Places ==
    /\ pc = "emit" => resume # "call"
    /\ pc # "emit" => todo = <<>>
    /\ pc = "ended" => ended # "none"
    /\ pc # "reply"
    /\ Stopped \/ finalized => Leaving
    /\ finalizing <=> Closing

\* Why the session may refuse a write before the handler leaves.
Refusals ==
    /\ gone => cancelled
    /\ cancelled => gone \/ firstErr \/ Stopped
    /\ writer.err => gone \/ firstErr

\* What is kept belongs to this attempt; a new one starts with nothing.
ThisAttempt ==
    /\ base <= written
    /\ \A k \in DOMAIN kept : kept[k].id > base
    /\ pc = "call" => ~promoted /\ buf = <<>>
    /\ pc = "retry" => ~promoted

\* The message is opened before anything else is made of it ...
Opening ==
    /\ OpensFirst(todo)
    /\ todo # <<>> \/ Completing => writer.started
    /\ writer.started /\ ~cancelled /\ ~Leaving /\ pc \notin {"call", "final"} =>
          Kept("message_start") \/ Due("message_start")
    /\ ~Leaving /\ promoted => writer.started /\ ~Due("message_start")
    /\ promoted => Kept("message_start")

\* ... and closed where the handler knows it.
ClosingOnce ==
    /\ Kept("message_stop") \/ Due("message_stop") =>
          Completing \/ Leaving \/ pc = "retry" \/ (pc = "ended" /\ cancelled)
    /\ Completing => gone \/ firstErr \/ WillEndWith("message_stop")

\* Errors are written by WriteFinalError's callback and by nobody else.
Erring ==
    /\ Kept("error") => finalizing \/ finalized
    /\ Due("error") => finalizing
    /\ Closing => gone \/ firstErr \/ WillEndWith("error")

\* The session's own items on the wire, and the response's head.
OwnOnWire ==
    /\ committed => wire # <<>>
    /\ \A i \in DOMAIN wire :
          \/ Semantic(wire[i]) /\ wire[i].kind \in SseKinds
          \/ wire[i] = KeepAlive
          \/ finalized /\ i = Len(wire) /\ wire[i] \in {SseError, JsonBody}

SseHead  == [code |-> "ok", type |-> "sse"]
JsonHead == [code |-> "error", type |-> "json"]

Header ==
    /\ contentType = "none" =>
          pc \in {"call", "headers", "final", "return", "done"} /\ hb = "none" /\ ~promoted /\ wire = <<>>
             /\ head = NoHead
    /\ contentType = "json" => finalized
    /\ head \in {NoHead, SseHead, JsonHead}
    /\ wire # <<>> => head # NoHead
    /\ head = JsonHead => finalized /\ \A i \in DOMAIN wire : wire[i] = JsonBody

Outcome == Leaving => gone \/ firstErr \/ AnsweredInForm

StreamInv ==
    /\ IInv /\ DInv
    /\ Places /\ Refusals /\ ThisAttempt /\ Opening /\ ClosingOnce /\ Erring
    /\ OwnOnWire /\ Header /\ Outcome

\* A request that is not streamed has no session to speak of, and writes once.
PlainInv ==
    /\ pc \in {"call", "parse", "read", "ended", "retry", "final", "reply", "return", "done"}
    /\ hb = "none" /\ stop = "no" /\ buf = <<>> /\ kept = <<>> /\ todo = <<>>
    /\ ~promoted /\ ~finalizing /\ ~finalized
    /\ ~Leaving => wire = <<>> /\ head = NoHead /\ ~torn /\ ~firstErr
    /\ wire = <<>> \/ (wire = <<JsonBody>> /\ head \in [code : {"ok", "error"}, type : {"json"}])
    /\ wire = <<>> => ~torn
    /\ Leaving => firstErr \/ (wire = <<JsonBody>> /\ ~torn)

RInv ==
    /\ ReqTypeOK /\ TypeOK
    /\ IF request.stream THEN StreamInv ELSE PlainInv

USE SseKindsAssumption
----------------------------------------------------------------------------
\* What the session's operations do to what the handler's part of the
\* invariant speaks of.
LEMMA WriteEffect ==
  ASSUME IInv, NEW op \in SseKinds, Write(op)
  PROVE  /\ ~firstErr /\ ~cancelled
         /\ kept' = Append(kept, [kind |-> op, id |-> written + 1])
         /\ written' = written + 1
         /\ UNCHANGED <<contentType, promoted, finalizing, finalized, hb, stop>>
         /\ firstErr' \in BOOLEAN /\ cancelled' = firstErr'
<1>1. /\ ~Unavailable
      /\ written' = written + 1
      /\ kept' = Append(kept, [kind |-> op, id |-> written + 1])
      /\ UNCHANGED <<contentType, promoted, finalizing, finalized, hb, stop>>
      /\ \/ UNCHANGED <<firstErr, cancelled>>
         \/ SocketWrite(<<[kind |-> op, id |-> written + 1]>>, "ok")
  BY DEF Write, socketVars
<1>2. ~firstErr /\ ~cancelled
  BY <1>1 DEF Unavailable, IInv, TypeOK
<1>3. firstErr' \in BOOLEAN /\ cancelled' = firstErr'
  BY <1>1, <1>2 DEF SocketWrite, IInv, TypeOK
<1> QED
  BY <1>1, <1>2, <1>3

LEMMA PromoteEffect ==
  ASSUME IInv, Promote
  PROVE  /\ ~firstErr /\ ~cancelled /\ ~finalized /\ ~Stopped
         /\ ~promoted /\ promoted' = TRUE
         /\ UNCHANGED <<kept, written, contentType, finalizing, finalized, hb, stop>>
         /\ firstErr' \in BOOLEAN /\ cancelled' = firstErr'
<1>1. /\ ~Unavailable /\ ~promoted /\ promoted' = TRUE
      /\ UNCHANGED <<kept, written, contentType, finalizing, finalized, hb, stop>>
      /\ \/ SocketWrite(buf, "ok")
         \/ \E err \in BOOLEAN : firstErr' = err /\ cancelled' = err
  BY DEF Promote, SocketWriteFlush, historyVars
<1>2. ~firstErr /\ ~cancelled /\ ~finalized /\ ~Stopped
  BY <1>1 DEF Unavailable
<1>3. firstErr' \in BOOLEAN /\ cancelled' = firstErr'
  BY <1>1, <1>2 DEF SocketWrite, IInv, TypeOK
<1> QED
  BY <1>1, <1>2, <1>3

LEMMA FlushEffect ==
  ASSUME IInv, Flush
  PROVE  /\ promoted /\ ~firstErr
         /\ UNCHANGED <<wire, torn, committed, kept, written, buf, promoted, contentType,
                        finalizing, finalized, hb, stop>>
         /\ firstErr' \in BOOLEAN /\ cancelled' = (cancelled \/ firstErr')
         /\ head' = head \/ (head = NoHead /\ head' = [code |-> "ok", type |-> contentType])
  BY DEF Flush, CanFlush, sessionVars, historyVars

\* What the heartbeat may do to it.
LEMMA HeartbeatEffect ==
  ASSUME IInv, Heartbeat
  PROVE  /\ UNCHANGED <<contentType, buf, promoted, finalizing, finalized, stop, written, kept>>
         /\ firstErr => firstErr'
         /\ cancelled => cancelled'
         /\ cancelled' => cancelled \/ firstErr'
         /\ hb # "none" /\ hb' # "none"
<1>1. CASE WriteKeepAlive
  <2>1. /\ UNCHANGED <<contentType, buf, promoted, finalizing, finalized, stop, written, kept>>
        /\ hb = "select" /\ hb' \in {"exited", "check"}
        /\ SocketWrite(<<KeepAlive>>, "ok")
    BY <1>1 DEF WriteKeepAlive, SocketWriteFlush, historyVars
  <2>2. (firstErr => firstErr') /\ (cancelled => cancelled') /\ (cancelled' => cancelled \/ firstErr')
    BY <2>1 DEF SocketWrite
  <2> QED
    BY <2>1, <2>2
<1>2. CASE HeartbeatCheck \/ HeartbeatActivity \/ HeartbeatDone \/ KeepAliveRefused
  BY <1>2 DEF HeartbeatCheck, HeartbeatActivity, HeartbeatDone, KeepAliveRefused,
              socketVars, sessionVars, historyVars
<1> QED
  BY <1>1, <1>2 DEF Heartbeat

----------------------------------------------------------------------------
\* What SSEWriter has to write.
LEMMA Concatenation ==
  ASSUME NEW S, NEW s \in Seq(S), NEW t \in Seq(S)
  PROVE  /\ s \o t \in Seq(S)
         /\ \A i \in DOMAIN (s \o t) :
               \/ i \in DOMAIN s /\ (s \o t)[i] = s[i]
               \/ s # <<>> /\ i # 1 /\ i - Len(s) \in DOMAIN t /\ (s \o t)[i] = t[i - Len(s)]
               \/ s = <<>> /\ i \in DOMAIN t /\ (s \o t)[i] = t[i]
         /\ \A i \in DOMAIN s : i \in DOMAIN (s \o t) /\ (s \o t)[i] = s[i]
         /\ \A i \in DOMAIN t : Len(s) + i \in DOMAIN (s \o t) /\ (s \o t)[Len(s) + i] = t[i]
         /\ t # <<>> => s \o t # <<>> /\ (s \o t)[Len(s \o t)] = t[Len(t)]
         /\ s \o t = <<>> => s = <<>> /\ t = <<>>
<1>1. /\ s \o t \in Seq(S) /\ Len(s \o t) = Len(s) + Len(t)
      /\ \A i \in 1..Len(s) + Len(t) :
            (s \o t)[i] = IF i <= Len(s) THEN s[i] ELSE t[i - Len(s)]
  BY ConcatProperties
<1>2. /\ Len(s) \in Nat /\ Len(t) \in Nat /\ DOMAIN s = 1..Len(s) /\ DOMAIN t = 1..Len(t)
      /\ DOMAIN (s \o t) = 1..(Len(s) + Len(t))
      /\ (s = <<>> <=> Len(s) = 0) /\ (t = <<>> <=> Len(t) = 0)
      /\ (s \o t = <<>> <=> Len(s) + Len(t) = 0)
  BY <1>1, LenProperties, EmptySeq
<1>3. \A i \in DOMAIN (s \o t) :
               \/ i \in DOMAIN s /\ (s \o t)[i] = s[i]
               \/ s # <<>> /\ i # 1 /\ i - Len(s) \in DOMAIN t /\ (s \o t)[i] = t[i - Len(s)]
               \/ s = <<>> /\ i \in DOMAIN t /\ (s \o t)[i] = t[i]
  <2> SUFFICES ASSUME NEW i \in 1..(Len(s) + Len(t)), ~(i <= Len(s))
               PROVE  \/ s # <<>> /\ i # 1 /\ i - Len(s) \in DOMAIN t /\ (s \o t)[i] = t[i - Len(s)]
                      \/ s = <<>> /\ i \in DOMAIN t /\ (s \o t)[i] = t[i]
    BY <1>1, <1>2
  <2>1. i - Len(s) \in 1..Len(t) /\ (s \o t)[i] = t[i - Len(s)]
    BY <1>1, <1>2
  <2>2. Len(s) = 0 => i - Len(s) = i
    BY <1>2
  <2>3. Len(s) # 0 => i # 1
    BY <1>2
  <2> QED
    BY <1>2, <2>1, <2>2, <2>3
<1>4. \A i \in DOMAIN s : i \in DOMAIN (s \o t) /\ (s \o t)[i] = s[i]
  BY <1>1, <1>2
<1>5. \A i \in DOMAIN t : Len(s) + i \in DOMAIN (s \o t) /\ (s \o t)[Len(s) + i] = t[i]
  <2> SUFFICES ASSUME NEW i \in 1..Len(t)
               PROVE  Len(s) + i \in DOMAIN (s \o t) /\ (s \o t)[Len(s) + i] = t[i]
    BY <1>2
  <2>1. Len(s) + i \in 1..(Len(s) + Len(t)) /\ ~(Len(s) + i <= Len(s)) /\ Len(s) + i - Len(s) = i
    BY <1>2
  <2> QED
    BY <1>1, <1>2, <2>1
<1>6. t # <<>> => s \o t # <<>> /\ (s \o t)[Len(s \o t)] = t[Len(t)]
  <2> SUFFICES ASSUME t # <<>> PROVE s \o t # <<>> /\ (s \o t)[Len(s \o t)] = t[Len(t)]
    OBVIOUS
  <2>1. Len(t) \in DOMAIN t /\ Len(s) + Len(t) # 0
    BY <1>2
  <2> QED
    BY <1>1, <1>2, <1>5, <2>1
<1>7. s \o t = <<>> => s = <<>> /\ t = <<>>
  BY <1>2
<1> QED
  BY <1>1, <1>3, <1>4, <1>5, <1>6, <1>7

LEMMA OneOp ==
  ASSUME NEW op \in Ops
  PROVE  <<op>> \in Seq(Ops) /\ DOMAIN <<op>> = {1} /\ Len(<<op>>) = 1 /\ <<op>>[1] = op /\ <<op>> # <<>>
  OBVIOUS

\* Whatever follows it, EnsureStarted opens the message once and first.
LEMMA OpenedThen ==
  ASSUME NEW w \in [started : BOOLEAN, fired : BOOLEAN, err : BOOLEAN], NEW rest \in Seq(Ops),
         \A i \in DOMAIN rest : rest[i] \notin {"message_start", "error"}
  PROVE  LET ops == EnsureStarted(w) \o rest
         IN  /\ ops \in Seq(Ops)
             /\ OpensFirst(ops)
             /\ \A i \in DOMAIN ops : ops[i] = "message_start" => ~w.started
             /\ \A i \in DOMAIN ops : ops[i] = "message_start" \/ \E j \in DOMAIN rest : ops[i] = rest[j]
             /\ w.started \/ \E i \in DOMAIN ops : ops[i] = "message_start"
             /\ rest # <<>> => ops # <<>> /\ ops[Len(ops)] = rest[Len(rest)]
<1> DEFINE opening == EnsureStarted(w)
           ops == opening \o rest
<1>1. \/ opening = <<>> /\ w.started
      \/ opening = <<"message_start">> /\ ~w.started
  BY DEF EnsureStarted
<1>2. /\ opening \in Seq(Ops)
      /\ \A i \in DOMAIN opening : i = 1 /\ opening[i] = "message_start" /\ ~w.started
      /\ ~w.started => 1 \in DOMAIN opening /\ opening[1] = "message_start"
  <2>1. "message_start" \in Ops
    BY DEF Ops, SseKinds
  <2>2. <<>> \in Seq(Ops) /\ DOMAIN <<>> = {}
    OBVIOUS
  <2> QED
    BY <1>1, <2>1, <2>2, OneOp
<1> HIDE DEF opening
<1>3. /\ ops \in Seq(Ops)
      /\ \A i \in DOMAIN ops :
            \/ i \in DOMAIN opening /\ ops[i] = opening[i]
            \/ \E j \in DOMAIN rest : ops[i] = rest[j]
      /\ \A i \in DOMAIN opening : i \in DOMAIN ops /\ ops[i] = opening[i]
      /\ rest # <<>> => ops # <<>> /\ ops[Len(ops)] = rest[Len(rest)]
  BY <1>2, Concatenation
<1> HIDE DEF ops
<1>4. /\ \A i \in DOMAIN ops : ops[i] = "message_start" => i = 1 /\ ~w.started
      /\ \A i \in DOMAIN ops : ops[i] = "message_start" \/ \E j \in DOMAIN rest : ops[i] = rest[j]
      /\ w.started \/ \E i \in DOMAIN ops : ops[i] = "message_start"
  BY <1>2, <1>3
<1>5. OpensFirst(ops)
  BY <1>4 DEF OpensFirst
<1> QED
  BY <1>3, <1>4, <1>5 DEF ops, opening

LEMMA FireOps ==
  ASSUME NEW w
  PROVE  /\ FireVisible(w) \in Seq(Ops)
         /\ \A i \in DOMAIN FireVisible(w) : FireVisible(w)[i] = "promote"
<1>1. "promote" \in Ops /\ <<>> \in Seq(Ops) /\ DOMAIN <<>> = {}
  BY DEF Ops
<1> QED
  BY <1>1, OneOp DEF FireVisible

LEMMA ShownOps ==
  ASSUME NEW w \in [started : BOOLEAN, fired : BOOLEAN, err : BOOLEAN], NEW kind \in FrameKinds
  PROVE  /\ Shown(w, kind) \in Seq(Ops)
         /\ OpensFirst(Shown(w, kind))
         /\ \A i \in DOMAIN Shown(w, kind) :
               /\ Shown(w, kind)[i] \notin {"message_stop", "error"}
               /\ Shown(w, kind)[i] = "message_start" => ~w.started
         /\ Shown(w, kind) # <<>> =>
               w.started \/ \E i \in DOMAIN Shown(w, kind) : Shown(w, kind)[i] = "message_start"
<1> DEFINE rests == {r \in Seq(Ops) : \A i \in DOMAIN r : r[i] \in {"promote", "delta"}}
<1>1. EnsureStarted(w) \in Seq(Ops)
  BY OneOp DEF EnsureStarted, Ops, SseKinds
<1>2. <<"delta">> \in rests /\ <<>> \in rests
  BY OneOp DEF Ops, SseKinds
<1>3. FireVisible(w) \o <<"delta">> \in rests
  <2>1. /\ FireVisible(w) \in Seq(Ops) /\ <<"delta">> \in Seq(Ops)
        /\ \A i \in DOMAIN FireVisible(w) : FireVisible(w)[i] = "promote"
        /\ \A i \in DOMAIN <<"delta">> : <<"delta">>[i] = "delta"
    BY <1>2, FireOps
  <2>2. /\ FireVisible(w) \o <<"delta">> \in Seq(Ops)
        /\ \A i \in DOMAIN (FireVisible(w) \o <<"delta">>) :
              (FireVisible(w) \o <<"delta">>)[i] \in {"promote", "delta"}
    BY <2>1, Concatenation
  <2> QED
    BY <2>2
<1>4. \/ Shown(w, kind) = <<>>
      \/ \E r \in rests : Shown(w, kind) = EnsureStarted(w) \o r
  <2>1. (EnsureStarted(w) \o FireVisible(w)) \o <<"delta">>
           = EnsureStarted(w) \o (FireVisible(w) \o <<"delta">>)
    BY <1>1, <1>2, FireOps, ConcatAssociative
  <2>2. EnsureStarted(w) = EnsureStarted(w) \o <<>>
    BY <1>1, ConcatEmptySeq
  <2> HIDE DEF rests
  <2>3. CASE kind \in {"text", "tool"}
    BY <1>3, <2>1, <2>3 DEF Shown
  <2>4. CASE kind = "reasoning"
    BY <1>2, <2>4 DEF Shown
  <2>5. CASE kind = "redacted"
    BY <1>2, <2>2, <2>5 DEF Shown
  <2>6. CASE kind \in {"held", "other"}
    BY <2>6 DEF Shown
  <2> QED
    BY <2>3, <2>4, <2>5, <2>6 DEF FrameKinds
<1>5. CASE Shown(w, kind) = <<>>
  BY <1>5 DEF OpensFirst
<1>6. ASSUME NEW r \in rests, Shown(w, kind) = EnsureStarted(w) \o r
      PROVE  /\ Shown(w, kind) \in Seq(Ops)
             /\ OpensFirst(Shown(w, kind))
             /\ \A i \in DOMAIN Shown(w, kind) :
                   /\ Shown(w, kind)[i] \notin {"message_stop", "error"}
                   /\ Shown(w, kind)[i] = "message_start" => ~w.started
             /\ w.started \/ \E i \in DOMAIN Shown(w, kind) : Shown(w, kind)[i] = "message_start"
  <2>1. r \in Seq(Ops) /\ \A i \in DOMAIN r : r[i] \in {"promote", "delta"}
    OBVIOUS
  <2>2. \A i \in DOMAIN r : r[i] \notin {"message_start", "error"}
    BY <2>1
  <2>3. /\ Shown(w, kind) \in Seq(Ops)
        /\ OpensFirst(Shown(w, kind))
        /\ \A i \in DOMAIN Shown(w, kind) : Shown(w, kind)[i] = "message_start" => ~w.started
        /\ \A i \in DOMAIN Shown(w, kind) :
              Shown(w, kind)[i] = "message_start" \/ \E j \in DOMAIN r : Shown(w, kind)[i] = r[j]
        /\ w.started \/ \E i \in DOMAIN Shown(w, kind) : Shown(w, kind)[i] = "message_start"
    BY <1>6, <2>1, <2>2, OpenedThen
  <2> QED
    BY <2>1, <2>3
<1> QED
  BY <1>4, <1>5, <1>6

LEMMA FinishOps ==
  ASSUME NEW w \in [started : BOOLEAN, fired : BOOLEAN, err : BOOLEAN], NEW a
  PROVE  /\ Finish(w, a) \in Seq(Ops)
         /\ OpensFirst(Finish(w, a))
         /\ \A i \in DOMAIN Finish(w, a) :
               /\ Finish(w, a)[i] # "error"
               /\ Finish(w, a)[i] = "message_start" => ~w.started
         /\ Finish(w, a) # <<>> /\ Finish(w, a)[Len(Finish(w, a))] = "message_stop"
         /\ w.started \/ \E i \in DOMAIN Finish(w, a) : Finish(w, a)[i] = "message_start"
<1> DEFINE held == IF a.held THEN FireVisible(w) \o <<"delta">> ELSE <<>>
           rest == held \o <<"message_stop">>
<1>1. /\ <<"delta">> \in Seq(Ops) /\ <<"message_stop">> \in Seq(Ops) /\ <<>> \in Seq(Ops)
      /\ EnsureStarted(w) \in Seq(Ops)
      /\ <<"message_stop">> # <<>> /\ Len(<<"message_stop">>) = 1
  <2>1. {"delta", "message_stop", "message_start"} \subseteq Ops /\ <<>> \in Seq(Ops)
    BY DEF Ops, SseKinds
  <2> QED
    BY <2>1, OneOp DEF EnsureStarted
<1>2. held \in Seq(Ops) /\ \A i \in DOMAIN held : held[i] \in {"promote", "delta"}
  <2>1. \A i \in DOMAIN <<"delta">> : <<"delta">>[i] = "delta"
    OBVIOUS
  <2>2. /\ FireVisible(w) \o <<"delta">> \in Seq(Ops)
        /\ \A i \in DOMAIN (FireVisible(w) \o <<"delta">>) :
              (FireVisible(w) \o <<"delta">>)[i] \in {"promote", "delta"}
    BY <1>1, <2>1, FireOps, Concatenation
  <2> QED
    BY <1>1, <2>2
<1> HIDE DEF held
<1>3. /\ rest \in Seq(Ops)
      /\ \A i \in DOMAIN rest : rest[i] \in {"promote", "delta", "message_stop"}
      /\ rest # <<>> /\ rest[Len(rest)] = "message_stop"
  <2>1. \A i \in DOMAIN <<"message_stop">> : <<"message_stop">>[i] = "message_stop"
    OBVIOUS
  <2> QED
    BY <1>1, <1>2, <2>1, Concatenation
<1>4. Finish(w, a) = EnsureStarted(w) \o rest
  <2>1. Finish(w, a) = (EnsureStarted(w) \o held) \o <<"message_stop">>
    BY DEF Finish, held
  <2> QED
    BY <1>1, <1>2, <2>1, ConcatAssociative
<1> HIDE DEF rest
<1>5. \A i \in DOMAIN rest : rest[i] \notin {"message_start", "error"}
  BY <1>3
<1>6. /\ Finish(w, a) \in Seq(Ops)
      /\ OpensFirst(Finish(w, a))
      /\ \A i \in DOMAIN Finish(w, a) : Finish(w, a)[i] = "message_start" => ~w.started
      /\ \A i \in DOMAIN Finish(w, a) :
            Finish(w, a)[i] = "message_start" \/ \E j \in DOMAIN rest : Finish(w, a)[i] = rest[j]
      /\ w.started \/ \E i \in DOMAIN Finish(w, a) : Finish(w, a)[i] = "message_start"
      /\ Finish(w, a) # <<>> /\ Finish(w, a)[Len(Finish(w, a))] = rest[Len(rest)]
  BY <1>3, <1>4, <1>5, OpenedThen
<1> QED
  BY <1>3, <1>5, <1>6

\* A local stop shows what it still has to show and finishes the message.
LEMMA LastOps ==
  ASSUME NEW w \in [started : BOOLEAN, fired : BOOLEAN, err : BOOLEAN], NEW kind \in FrameKinds, NEW a
  PROVE  LET ops == Shown(w, kind) \o Finish(After(w, Shown(w, kind)), a)
         IN  /\ ops \in Seq(Ops)
             /\ OpensFirst(ops)
             /\ \A i \in DOMAIN ops :
                   /\ ops[i] # "error"
                   /\ ops[i] = "message_start" => ~w.started
             /\ ops # <<>> /\ ops[Len(ops)] = "message_stop"
             /\ w.started \/ \E i \in DOMAIN ops : ops[i] = "message_start"
<1> DEFINE s  == Shown(w, kind)
           w2 == After(w, s)
           t  == Finish(w2, a)
           ops == s \o t
<1>1. /\ s \in Seq(Ops)
      /\ OpensFirst(s)
      /\ \A i \in DOMAIN s : s[i] \notin {"message_stop", "error"} /\ (s[i] = "message_start" => ~w.started)
      /\ s # <<>> => w.started \/ \E i \in DOMAIN s : s[i] = "message_start"
  BY ShownOps
<1> HIDE DEF s
<1>2. /\ w2 \in [started : BOOLEAN, fired : BOOLEAN, err : BOOLEAN]
      /\ w2.started <=> w.started \/ \E i \in DOMAIN s : s[i] = "message_start"
  BY DEF After, Range
<1> HIDE DEF w2
<1>3. /\ t \in Seq(Ops)
      /\ OpensFirst(t)
      /\ \A i \in DOMAIN t : t[i] # "error" /\ (t[i] = "message_start" => ~w2.started)
      /\ t # <<>> /\ t[Len(t)] = "message_stop"
      /\ w2.started \/ \E i \in DOMAIN t : t[i] = "message_start"
  BY <1>2, FinishOps
<1> HIDE DEF t
<1>4. /\ ops \in Seq(Ops)
      /\ \A i \in DOMAIN ops :
            \/ i \in DOMAIN s /\ ops[i] = s[i]
            \/ s # <<>> /\ i # 1 /\ i - Len(s) \in DOMAIN t /\ ops[i] = t[i - Len(s)]
            \/ s = <<>> /\ i \in DOMAIN t /\ ops[i] = t[i]
      /\ \A i \in DOMAIN s : i \in DOMAIN ops /\ ops[i] = s[i]
      /\ \A i \in DOMAIN t : Len(s) + i \in DOMAIN ops /\ ops[Len(s) + i] = t[i]
      /\ ops # <<>> /\ ops[Len(ops)] = "message_stop"
  BY <1>1, <1>3, Concatenation
<1> HIDE DEF ops
<1>5. OpensFirst(ops)
  BY <1>1, <1>2, <1>3, <1>4 DEF OpensFirst
<1>6. ASSUME NEW i \in DOMAIN ops
      PROVE  ops[i] # "error" /\ (ops[i] = "message_start" => ~w.started)
  <2>1. CASE i \in DOMAIN s /\ ops[i] = s[i]
    BY <1>1, <2>1
  <2>2. CASE \E j \in DOMAIN t : ops[i] = t[j]
    BY <1>2, <1>3, <2>2
  <2> QED
    BY <1>4, <2>1, <2>2
<1>7. w.started \/ \E i \in DOMAIN ops : ops[i] = "message_start"
  BY <1>2, <1>3, <1>4
<1> QED
  BY <1>4, <1>5, <1>6, <1>7 DEF ops, t, w2, s

\* What Emit leaves for EmitNext.
LEMMA EmitEffect ==
  ASSUME ReqTypeOK, NEW ops \in Seq(Ops), NEW label, Emit(ops, label),
         ops # <<>> => writer.started \/ \E i \in DOMAIN ops : ops[i] = "message_start"
  PROVE  /\ pc' = "emit" /\ resume' = label /\ todo' = ops
         /\ writer' \in [started : BOOLEAN, fired : BOOLEAN, err : BOOLEAN]
         /\ writer'.err = writer.err
         /\ writer'.started <=> writer.started \/ Due("message_start")'
         /\ todo' # <<>> => writer'.started
<1>1. /\ pc' = "emit" /\ resume' = label /\ todo' = ops
      /\ writer' = After(writer, ops)
  BY DEF Emit, goto
<1>2. /\ writer' \in [started : BOOLEAN, fired : BOOLEAN, err : BOOLEAN]
      /\ writer'.err = writer.err
      /\ writer'.started <=> writer.started \/ \E i \in DOMAIN ops : ops[i] = "message_start"
  BY <1>1 DEF After, Range, ReqTypeOK
<1> QED
  BY <1>1, <1>2 DEF Due

\* What EmitNext leaves of todo.
LEMMA Consumed ==
  ASSUME todo \in Seq(Ops), todo # <<>>, OpensFirst(todo),
         \/ todo' = Tail(todo)
         \/ Head(todo) # "flush" /\ todo' = <<"flush">> \o Tail(todo)
  PROVE  /\ todo' \in Seq(Ops)
         /\ OpensFirst(todo)' /\ ~Due("message_start")'
         /\ \A op \in SseKinds : Due(op)' => Due(op)
         /\ \A kind \in SseKinds :
               WillEndWith(kind) =>
                  \/ todo' \notin {<<>>, <<"flush">>} /\ todo'[Len(todo')] = kind
                  \/ todo' \in {<<>>, <<"flush">>} /\ Head(todo) = kind
                  \/ todo' = <<>> /\ Head(todo) = "flush" /\ kept # <<>> /\ kept[Len(kept)].kind = kind
<1> DEFINE rest == Tail(todo)
<1>1. /\ rest \in Seq(Ops) /\ Len(rest) = Len(todo) - 1 /\ Len(todo) \in Nat /\ Len(todo) # 0
      /\ \A i \in 1..Len(rest) : rest[i] = todo[i + 1]
      /\ DOMAIN todo = 1..Len(todo) /\ DOMAIN rest = 1..Len(rest)
      /\ Head(todo) = todo[1]
      /\ rest = <<>> <=> Len(rest) = 0
  <2>1. /\ rest \in Seq(Ops) /\ Len(rest) = Len(todo) - 1
        /\ \A i \in 1..Len(rest) : rest[i] = todo[i + 1]
    BY HeadTailProperties
  <2>2. /\ Len(todo) \in Nat /\ DOMAIN todo = 1..Len(todo) /\ DOMAIN rest = 1..Len(rest)
    BY <2>1, LenProperties
  <2>3. Len(todo) # 0 /\ (rest = <<>> <=> Len(rest) = 0)
    BY <2>1, EmptySeq
  <2>4. Head(todo) = todo[1]
    OBVIOUS
  <2> QED
    BY <2>1, <2>2, <2>3, <2>4
<1> HIDE DEF rest
<1>2. "flush" \in Ops /\ SseKinds \subseteq Ops /\ "flush" \notin SseKinds /\ "message_start" \in SseKinds
  BY DEF Ops, SseKinds
<1>3. \A i \in DOMAIN rest : rest[i] # "message_start" /\ i + 1 \in DOMAIN todo /\ rest[i] = todo[i + 1]
  BY <1>1 DEF OpensFirst
<1>4. rest # <<>> => Len(rest) \in DOMAIN rest /\ rest[Len(rest)] = todo[Len(todo)]
  BY <1>1
<1>5. rest = <<>> => todo[Len(todo)] = Head(todo)
  BY <1>1
<1>6. /\ todo = <<"flush">> => rest = <<>> /\ Head(todo) = "flush"
      /\ Head(todo) = "flush" /\ rest = <<>> => todo = <<"flush">>
  <2>1. todo = <<"flush">> => rest = <<>> /\ Head(todo) = "flush"
    BY DEF rest
  <2>2. ASSUME Head(todo) = "flush", rest = <<>> PROVE todo = <<"flush">>
    <3>1. Len(todo) = 1 /\ Len(<<"flush">>) = 1 /\ <<"flush">>[1] = "flush" /\ <<"flush">> \in Seq(Ops)
      BY <1>1, <1>2, <2>2, OneOp
    <3> QED
      BY <1>1, <2>2, <3>1, SeqEqual
  <2> QED
    BY <2>1, <2>2
<1>7. CASE todo' = rest
  <2>1. todo' \in Seq(Ops) /\ OpensFirst(todo)' /\ ~Due("message_start")'
    BY <1>1, <1>3, <1>7 DEF OpensFirst, Due
  <2>2. \A op \in SseKinds : Due(op)' => Due(op)
    BY <1>3, <1>7 DEF Due
  <2>3. ASSUME NEW kind \in SseKinds, WillEndWith(kind)
        PROVE  \/ todo' \notin {<<>>, <<"flush">>} /\ todo'[Len(todo')] = kind
               \/ todo' \in {<<>>, <<"flush">>} /\ Head(todo) = kind
               \/ todo' = <<>> /\ Head(todo) = "flush" /\ kept # <<>> /\ kept[Len(kept)].kind = kind
    <3>1. CASE todo = <<"flush">>
      BY <1>6, <1>7, <2>3, <3>1 DEF WillEndWith
    <3>2. CASE todo # <<"flush">> /\ rest = <<>>
      BY <1>5, <1>7, <2>3, <3>2 DEF WillEndWith
    <3>3. CASE rest # <<>>
      <4>1. todo # <<"flush">> /\ rest[Len(rest)] = kind
        BY <1>4, <1>6, <2>3, <3>3 DEF WillEndWith
      <4>2. rest # <<"flush">>
        <5> SUFFICES ASSUME rest = <<"flush">> PROVE FALSE
          OBVIOUS
        <5>1. Len(rest) = 1 /\ rest[1] = "flush"
          OBVIOUS
        <5> QED
          BY <1>2, <4>1, <5>1
      <4> QED
        BY <1>7, <3>3, <4>1, <4>2
    <3> QED
      BY <3>1, <3>2, <3>3
  <2> QED
    BY <2>1, <2>2, <2>3
<1>8. CASE Head(todo) # "flush" /\ todo' = <<"flush">> \o rest
  <2>1. /\ <<"flush">> \in Seq(Ops) /\ DOMAIN <<"flush">> = {1} /\ <<"flush">>[1] = "flush"
        /\ Len(<<"flush">>) = 1 /\ <<"flush">> # <<>>
    BY <1>2, OneOp
  <2>2. /\ todo' \in Seq(Ops)
        /\ \A i \in DOMAIN todo' : todo'[i] = "flush" \/ (i - 1 \in DOMAIN rest /\ todo'[i] = rest[i - 1])
        /\ rest # <<>> => todo' # <<>> /\ todo'[Len(todo')] = rest[Len(rest)]
    BY <1>1, <1>8, <2>1, Concatenation
  <2>3. OpensFirst(todo)' /\ ~Due("message_start")'
    BY <1>2, <1>3, <2>2 DEF OpensFirst, Due
  <2>4. \A op \in SseKinds : Due(op)' => Due(op)
    BY <1>2, <1>3, <2>2 DEF Due
  <2>5. rest = <<>> => todo' = <<"flush">>
    BY <1>1, <1>8, <2>1, ConcatEmptySeq
  <2>6. ASSUME NEW kind \in SseKinds, WillEndWith(kind)
        PROVE  \/ todo' \notin {<<>>, <<"flush">>} /\ todo'[Len(todo')] = kind
               \/ todo' \in {<<>>, <<"flush">>} /\ Head(todo) = kind
               \/ todo' = <<>> /\ Head(todo) = "flush" /\ kept # <<>> /\ kept[Len(kept)].kind = kind
    <3>1. todo # <<"flush">>
      BY <1>6, <1>8
    <3>2. CASE rest = <<>>
      BY <1>5, <2>5, <2>6, <3>1, <3>2 DEF WillEndWith
    <3>3. CASE rest # <<>>
      <4>1. todo' # <<>> /\ todo'[Len(todo')] = kind
        BY <1>4, <2>2, <2>6, <3>1, <3>3 DEF WillEndWith
      <4>2. todo' # <<"flush">>
        BY <1>2, <2>1, <4>1
      <4> QED
        BY <4>1, <4>2
    <3> QED
      BY <3>2, <3>3
  <2> QED
    BY <2>2, <2>3, <2>4, <2>6
<1> QED
  BY <1>7, <1>8 DEF rest

----------------------------------------------------------------------------
\* The handler's part of the invariant.
Ctl == Places /\ Refusals /\ ThisAttempt /\ Opening /\ ClosingOnce /\ Erring

\* The heartbeat and the client change none of it, but for the failures.
LEMMA BackgroundCtl ==
  ASSUME Ctl, UNCHANGED <<handlerVars, base>>,
         UNCHANGED <<buf, promoted, finalizing, finalized, stop, written, kept>>,
         firstErr => firstErr', cancelled => cancelled', gone => gone', gone' => cancelled',
         cancelled' => cancelled \/ gone' \/ firstErr'
  PROVE  Ctl'
<1> USE DEF handlerVars
<1>1. Places' /\ Refusals' /\ ThisAttempt'
  BY DEF Ctl, Places, Refusals, ThisAttempt, Stopped, Leaving, Closing
<1>2. \A kind : Kept(kind)' = Kept(kind) /\ Due(kind)' = Due(kind) /\ WillEndWith(kind)' = WillEndWith(kind)
  BY DEF Kept, Due, WillEndWith
<1>3. Opening'
  BY <1>2 DEF Ctl, Opening, OpensFirst, Leaving, Completing
<1>4. ClosingOnce' /\ Erring'
  BY <1>2 DEF Ctl, ClosingOnce, Erring, Leaving, Completing, Closing
<1> QED
  BY <1>1, <1>3, <1>4 DEF Ctl

\* Steps of the handler that call nothing and write nothing.
LEMMA QuietCtl ==
  ASSUME RInv, request.stream,
         EmitDone \/ Call \/ CheckContext \/ ParseEnds \/ ErrorFrame \/ FrameHandled
  PROVE  Ctl'
<1>1. Ctl /\ TypeOK /\ ReqTypeOK /\ FailuresLatch
  BY DEF RInv, StreamInv, Ctl, IInv
<1>2. UNCHANGED <<vars, todo, gone>>
  BY DEF EmitDone, Call, CheckContext, ParseEnds, ErrorFrame, FrameHandled
<1>3. UNCHANGED <<wire, firstErr, cancelled, buf, promoted, finalizing, finalized, stop, written, kept>>
  BY <1>2 DEF vars, socketVars, sessionVars, historyVars
<1>4. /\ Kept("message_start")' = Kept("message_start") /\ Kept("message_stop")' = Kept("message_stop")
      /\ Kept("error")' = Kept("error")
      /\ Due("message_start")' = Due("message_start") /\ Due("message_stop")' = Due("message_stop")
      /\ Due("error")' = Due("error")
      /\ WillEndWith("message_stop")' = WillEndWith("message_stop")
      /\ WillEndWith("error")' = WillEndWith("error")
      /\ OpensFirst(todo)' = OpensFirst(todo)
  BY <1>2, <1>3 DEF Kept, Due, WillEndWith, OpensFirst
<1>5. pc # "emit" => ~Due("message_start") /\ ~Due("message_stop") /\ ~Due("error")
  <2>1. pc # "emit" => todo = <<>> /\ DOMAIN todo = {}
    BY <1>1 DEF Ctl, Places
  <2> QED
    BY <2>1 DEF Due
<1>6. pc = "call" => ~Kept("message_start") /\ ~Kept("message_stop") /\ ~Kept("error") /\ kept = <<>>
  <2>1. pc = "call" => kept = <<>> /\ DOMAIN kept = {}
    BY DEF RInv, StreamInv, DInv, HeldBack, ThisAttempt
  <2> QED
    BY <2>1 DEF Kept
<1> USE DEF Leaving, Completing, Closing, Stopped, EndParse, goto
<1>7. Places'
  BY <1>1, <1>2, <1>3
     DEF Ctl, Places, ReqTypeOK, EmitDone, Call, CheckContext, ParseEnds, ErrorFrame, FrameHandled
<1>8. Refusals'
  BY <1>1, <1>2, <1>3
     DEF Ctl, Refusals, EmitDone, Call, CheckContext, ParseEnds, ErrorFrame, FrameHandled, NewWriter
<1>9. ThisAttempt'
  <2>1. CASE Call
    <3>1. kept' = <<>> /\ DOMAIN kept' = {} /\ base' = written' /\ written' \in Nat
      BY <1>1, <1>3, <1>6, <2>1 DEF Call, TypeOK
    <3> QED
      BY <1>1, <1>3, <2>1, <3>1 DEF Ctl, ThisAttempt, Call
  <2>2. CASE EmitDone \/ CheckContext \/ ParseEnds \/ ErrorFrame \/ FrameHandled
    BY <1>1, <1>2, <1>3, <2>2
       DEF Ctl, ThisAttempt, Places, ReqTypeOK, EmitDone, CheckContext, ParseEnds, ErrorFrame, FrameHandled
  <2> QED
    BY <2>1, <2>2
<1>10. Opening'
  BY <1>1, <1>2, <1>3, <1>4, <1>5, <1>6
     DEF Ctl, Opening, Places, ThisAttempt, Refusals, ReqTypeOK, FailuresLatch, NewWriter,
         EmitDone, Call, CheckContext, ParseEnds, ErrorFrame, FrameHandled
<1>11. ClosingOnce'
  BY <1>1, <1>2, <1>3, <1>4, <1>5, <1>6
     DEF Ctl, ClosingOnce, Places, Refusals, ReqTypeOK, FailuresLatch,
         EmitDone, Call, CheckContext, ParseEnds, ErrorFrame, FrameHandled
<1>12. Erring'
  BY <1>1, <1>2, <1>3, <1>4, <1>5, <1>6
     DEF Ctl, Erring, Places, Refusals, ReqTypeOK, FailuresLatch,
         EmitDone, Call, CheckContext, ParseEnds, ErrorFrame, FrameHandled
<1> QED
  BY <1>7, <1>8, <1>9, <1>10, <1>11, <1>12 DEF Ctl

----------------------------------------------------------------------------
\* The handler starts to write what a frame, or the end of the stream, shows.
LEMMA EmitCtl ==
  ASSUME RInv, request.stream, pc \in {"read", "ended"}, ~cancelled \/ pc = "read",
         pc = "ended" => ended # "localStop",
         UNCHANGED <<vars, ended, gone, base>>,
         NEW ops \in Seq(Ops), NEW label \in {"framed", "stopped", "finished"}, Emit(ops, label),
         OpensFirst(ops),
         \A i \in DOMAIN ops : ops[i] # "error" /\ (ops[i] = "message_start" => ~writer.started),
         ops # <<>> => writer.started \/ \E i \in DOMAIN ops : ops[i] = "message_start",
         label = "framed" => \A i \in DOMAIN ops : ops[i] # "message_stop",
         label # "framed" => ops # <<>> /\ ops[Len(ops)] = "message_stop"
  PROVE  Ctl'
<1>1. Ctl /\ TypeOK /\ ReqTypeOK
  BY DEF RInv, StreamInv, Ctl
<1>2. UNCHANGED <<firstErr, cancelled, buf, promoted, finalizing, finalized, stop, written, kept>>
  BY DEF vars, socketVars, sessionVars, historyVars
<1>3. /\ pc' = "emit" /\ resume' = label /\ todo' = ops
      /\ writer'.err = writer.err
      /\ writer'.started <=> writer.started \/ Due("message_start")'
      /\ todo' # <<>> => writer'.started
  BY <1>1, EmitEffect
<1>4. /\ ~Due("error")'
      /\ Due("message_start")' => ~writer.started
      /\ Due("message_stop")' => label # "framed"
      /\ OpensFirst(todo)'
      /\ label # "framed" => todo' # <<>> /\ WillEndWith("message_stop")'
  <2>1. label # "framed" => ops # <<"flush">>
    BY OneOp DEF Ops
  <2> QED
    BY <1>3, <2>1 DEF Due, OpensFirst, WillEndWith
<1>5. /\ Kept("message_start")' = Kept("message_start")
      /\ Kept("message_stop")' = Kept("message_stop")
      /\ Kept("error")' = Kept("error")
  BY <1>2 DEF Kept
<1>6. todo = <<>> /\ ~Leaving /\ ~Stopped /\ ~finalizing /\ ~Closing /\ pc \notin {"call", "retry", "emit"}
  BY <1>1 DEF Ctl, Places, Leaving, Closing
<1>7. ~Due("message_start")
  BY <1>6 DEF Due
<1>8. ~Kept("message_stop")
  BY <1>1 DEF Ctl, ClosingOnce, Completing, Leaving
<1>9. Places'
  BY <1>1, <1>2, <1>3, <1>6 DEF Ctl, Places, Leaving, Closing, Stopped
<1>10. Refusals'
  BY <1>1, <1>2, <1>3 DEF Ctl, Refusals, Stopped
<1>11. ThisAttempt'
  BY <1>1, <1>2, <1>3 DEF Ctl, ThisAttempt
<1>12. Opening'
  BY <1>1, <1>2, <1>3, <1>4, <1>5, <1>6, <1>7 DEF Ctl, Opening, Leaving, Completing
<1>13. ClosingOnce'
  BY <1>1, <1>2, <1>3, <1>4, <1>5, <1>8 DEF Ctl, ClosingOnce, Leaving, Completing
<1>14. Erring'
  BY <1>1, <1>2, <1>3, <1>4, <1>5, <1>6 DEF Ctl, Erring, Closing
<1> QED
  BY <1>9, <1>10, <1>11, <1>12, <1>13, <1>14 DEF Ctl

LEMMA ContentFrameCtl == ASSUME RInv, request.stream, ContentFrame PROVE Ctl'
<1>1. pc = "read" /\ UNCHANGED <<vars, gone, base>> /\ Ctl /\ ReqTypeOK /\ TypeOK
  BY DEF ContentFrame, RInv, StreamInv, Ctl
<1>2. CASE firstErr \/ writer.err
  <2>1. pc' = "ended" /\ ended' = "streamErr" /\ UNCHANGED <<resume, todo, writer>>
    BY <1>2 DEF ContentFrame, EndParse, goto
  <2>2. UNCHANGED <<firstErr, cancelled, buf, promoted, finalizing, finalized, stop, written, kept>>
    BY <1>1 DEF vars, socketVars, sessionVars, historyVars
  <2>3. \A kind : Kept(kind)' = Kept(kind) /\ Due(kind)' = Due(kind) /\ WillEndWith(kind)' = WillEndWith(kind)
    BY <2>1, <2>2 DEF Kept, Due, WillEndWith
  <2>4. Places' /\ Refusals' /\ ThisAttempt'
    BY <1>1, <2>1, <2>2 DEF Ctl, Places, Refusals, ThisAttempt, Leaving, Closing, Stopped
  <2>5. Opening'
    BY <1>1, <2>1, <2>2, <2>3 DEF Ctl, Opening, OpensFirst, Leaving, Completing
  <2>6. ClosingOnce' /\ Erring'
    BY <1>1, <2>1, <2>2, <2>3 DEF Ctl, ClosingOnce, Erring, Leaving, Completing, Closing
  <2> QED
    BY <2>4, <2>5, <2>6 DEF Ctl
<1>3. CASE ~(firstErr \/ writer.err)
  <2>1. PICK kind \in FrameKinds, halts \in BOOLEAN, left \in BOOLEAN :
          LET live == Live(acc, kind)
              a == IF live THEN Accumulate(acc, kind, halts, left) ELSE acc
              shown == IF live THEN Shown(writer, kind) ELSE <<>>
          IN  IF live /\ a.stop /\ ~(request.drain /\ a.tool)
              THEN Emit(shown \o Finish(After(writer, shown), a), "stopped")
              ELSE Emit(shown, "framed")
    BY <1>3 DEF ContentFrame
  <2> DEFINE a == Accumulate(acc, kind, halts, left)
             ops == Shown(writer, kind) \o Finish(After(writer, Shown(writer, kind)), a)
  <2>2. UNCHANGED ended
    BY <1>3 DEF ContentFrame
  <2>3. writer \in [started : BOOLEAN, fired : BOOLEAN, err : BOOLEAN]
    BY <1>1 DEF ReqTypeOK
  <2>4. \/ Emit(ops, "stopped")
        \/ Emit(Shown(writer, kind), "framed")
        \/ Emit(<<>>, "framed")
    BY <2>1
  <2>5. CASE Emit(ops, "stopped")
    <3>1. /\ ops \in Seq(Ops)
          /\ OpensFirst(ops)
          /\ \A i \in DOMAIN ops : ops[i] # "error" /\ (ops[i] = "message_start" => ~writer.started)
          /\ ops # <<>> /\ ops[Len(ops)] = "message_stop"
          /\ writer.started \/ \E i \in DOMAIN ops : ops[i] = "message_start"
      BY <2>3, LastOps
    <3> QED
      BY <1>1, <2>2, <2>5, <3>1, EmitCtl
  <2>6. CASE Emit(Shown(writer, kind), "framed")
    BY <1>1, <2>2, <2>3, <2>6, ShownOps, EmitCtl
  <2>7. CASE Emit(<<>>, "framed")
    <3>1. <<>> \in Seq(Ops) /\ DOMAIN <<>> = {}
      OBVIOUS
    <3> QED
      BY <1>1, <2>2, <2>7, <3>1, EmitCtl DEF OpensFirst
  <2> QED
    BY <2>4, <2>5, <2>6, <2>7
<1> QED
  BY <1>2, <1>3

LEMMA EndedCtl == ASSUME RInv, request.stream, Ended PROVE Ctl'
<1>1. pc = "ended" /\ UNCHANGED <<vars, ended, gone, base>> /\ Ctl /\ ReqTypeOK /\ TypeOK /\ FailuresLatch
  BY DEF Ended, RInv, StreamInv, Ctl, IInv
<1>2. CASE ended = "eof" /\ ~(writer.err \/ firstErr \/ cancelled) /\ Emit(Finish(writer, acc), "finished")
  <2>1. writer \in [started : BOOLEAN, fired : BOOLEAN, err : BOOLEAN]
    BY <1>1 DEF ReqTypeOK
  <2> QED
    BY <1>1, <1>2, <2>1, FinishOps, EmitCtl
<1>3. CASE UNCHANGED <<resume, todo, writer>>
           /\ \/ /\ writer.err \/ firstErr \/ cancelled
                 /\ pc' = "return"
              \/ /\ ~(writer.err \/ firstErr \/ cancelled)
                 /\ \/ ended = "streamErr" /\ ~promoted /\ pc' = "retry"
                    \/ ended # "localStop" /\ pc' = "final"
                    \/ ended = "localStop" /\ pc' = "finished"
  <2>2. UNCHANGED <<firstErr, cancelled, buf, promoted, finalizing, finalized, stop, written, kept>>
    BY <1>1 DEF vars, socketVars, sessionVars, historyVars
  <2>3. \A kind : Kept(kind)' = Kept(kind) /\ Due(kind)' = Due(kind) /\ WillEndWith(kind)' = WillEndWith(kind)
    BY <1>3, <2>2 DEF Kept, Due, WillEndWith
  <2>4. Places' /\ Refusals' /\ ThisAttempt'
    BY <1>1, <1>3, <2>2 DEF Ctl, Places, Refusals, ThisAttempt, Leaving, Closing, Stopped
  <2>5. Opening'
    BY <1>1, <1>3, <2>2, <2>3 DEF Ctl, Opening, OpensFirst, Leaving, Completing, ReqTypeOK
  <2>6. ClosingOnce' /\ Erring'
    BY <1>1, <1>3, <2>2, <2>3 DEF Ctl, ClosingOnce, Erring, Leaving, Completing, Closing, ReqTypeOK
  <2> QED
    BY <2>4, <2>5, <2>6 DEF Ctl
<1> QED
  <2>1. CASE writer.err \/ firstErr \/ cancelled
    BY <1>3, <2>1 DEF Ended, goto
  <2>2. CASE ~(writer.err \/ firstErr \/ cancelled)
    <3>1. CASE ended = "streamErr" /\ cause = "retryable" /\ ~promoted
      BY <1>3, <2>2, <3>1 DEF Ended, goto
    <3>2. CASE ended = "readErr" \/ (ended = "streamErr" /\ (cause # "retryable" \/ promoted))
      BY <1>3, <2>2, <3>2 DEF Ended, goto
    <3>3. CASE ended = "localStop"
      BY <1>3, <2>2, <3>3 DEF Ended, goto
    <3>4. CASE ended = "eof"
      BY <1>2, <2>2, <3>4 DEF Ended
    <3>5. ended # "none"
      BY <1>1 DEF Ctl, Places
    <3> QED
      BY <1>1, <3>1, <3>2, <3>3, <3>4, <3>5 DEF ReqTypeOK
  <2> QED
    BY <2>1, <2>2

----------------------------------------------------------------------------
\* One more item is kept.
LEMMA KeptGrows ==
  ASSUME kept \in Seq(Item), written \in Nat, NEW op,
         kept' = Append(kept, [kind |-> op, id |-> written + 1]),
         [kind |-> op, id |-> written + 1] \in Item
  PROVE  /\ \A kind : Kept(kind)' <=> Kept(kind) \/ kind = op
         /\ kept' # <<>> /\ kept'[Len(kept')].kind = op
         /\ base <= written /\ base \in Nat /\ (\A k \in DOMAIN kept : kept[k].id > base)
               => \A k \in DOMAIN kept' : kept'[k].id > base
<1> DEFINE item == [kind |-> op, id |-> written + 1]
<1>1. Len(kept) \in Nat /\ DOMAIN kept = 1..Len(kept)
  BY LenProperties
<1>2. /\ kept' \in Seq(Item) /\ Len(kept') = Len(kept) + 1
      /\ \A k \in 1..Len(kept) : kept'[k] = kept[k]
      /\ kept'[Len(kept) + 1] = item
  BY AppendProperties
<1>3. DOMAIN kept' = 1..(Len(kept) + 1)
  BY <1>2, LenProperties
<1>4. item.kind = op /\ item.id = written + 1
  OBVIOUS
<1> HIDE DEF item
<1>5. \A k \in DOMAIN kept' : (k \in DOMAIN kept /\ kept'[k] = kept[k]) \/ kept'[k] = item
  BY <1>1, <1>2, <1>3
<1>6. \A k \in DOMAIN kept : k \in DOMAIN kept' /\ kept'[k] = kept[k]
  BY <1>1, <1>2, <1>3
<1>7. Len(kept') \in DOMAIN kept' /\ kept'[Len(kept')] = item
  BY <1>1, <1>2, <1>3
<1>8. \A kind : Kept(kind)' <=> Kept(kind) \/ kind = op
  BY <1>4, <1>5, <1>6, <1>7 DEF Kept
<1>9. kept' # <<>>
  BY <1>7
<1>10. ASSUME base <= written, base \in Nat, \A k \in DOMAIN kept : kept[k].id > base
       PROVE  \A k \in DOMAIN kept' : kept'[k].id > base
  BY <1>4, <1>5, <1>10
<1> QED
  BY <1>4, <1>7, <1>8, <1>9, <1>10

\* Where EmitNext stands.
LEMMA EmittingCtl ==
  ASSUME RInv, request.stream, EmitNext
  PROVE  /\ Ctl /\ TypeOK /\ ReqTypeOK /\ FailuresLatch /\ IInv
         /\ pc = "emit" /\ ~Leaving /\ ~Stopped /\ ~finalized /\ resume # "call" /\ todo # <<>>
         /\ UNCHANGED <<pc, resume, ended, gone, base>>
         /\ Head(todo) = todo[1] /\ 1 \in DOMAIN todo
         /\ Unavailable => gone \/ firstErr
         /\ writer.err => Unavailable
<1>1. Ctl /\ TypeOK /\ ReqTypeOK /\ FailuresLatch /\ IInv
  BY DEF RInv, StreamInv, Ctl, IInv
<1>2. pc = "emit" /\ todo # <<>> /\ UNCHANGED <<pc, resume, ended, gone, base>>
  BY DEF EmitNext
<1>3. ~Leaving /\ ~Stopped /\ ~finalized /\ resume # "call"
  BY <1>1, <1>2 DEF Ctl, Places, Leaving
<1>4. Head(todo) = todo[1] /\ 1 \in DOMAIN todo
  <2>1. Len(todo) \in Nat /\ Len(todo) # 0 /\ DOMAIN todo = 1..Len(todo)
    BY <1>1, <1>2, LenProperties, EmptySeq DEF ReqTypeOK
  <2> QED
    BY <2>1
<1>5. (Unavailable => gone \/ firstErr) /\ (writer.err => Unavailable)
  BY <1>1, <1>3 DEF Ctl, Refusals, Unavailable
<1> QED
  BY <1>1, <1>2, <1>3, <1>4, <1>5

\* An item is written, buffered or not.
LEMMA EmitWriteCtl ==
  ASSUME RInv, request.stream, EmitNext, Head(todo) \in SseKinds, ~writer.err, Write(Head(todo)),
         writer' = [writer EXCEPT !.err = firstErr'],
         todo' = IF promoted THEN <<"flush">> \o Tail(todo) ELSE Tail(todo)
  PROVE  Ctl'
<1> DEFINE op == Head(todo)
<1>1. /\ Ctl /\ TypeOK /\ ReqTypeOK /\ FailuresLatch /\ IInv
      /\ pc = "emit" /\ ~Leaving /\ ~Stopped /\ ~finalized /\ resume # "call" /\ todo # <<>>
      /\ UNCHANGED <<pc, resume, ended, gone, base>>
      /\ op = todo[1] /\ 1 \in DOMAIN todo
  BY EmittingCtl
<1>2. /\ ~firstErr /\ ~cancelled
      /\ kept' = Append(kept, [kind |-> op, id |-> written + 1])
      /\ written' = written + 1
      /\ UNCHANGED <<contentType, promoted, finalizing, finalized, hb, stop>>
      /\ firstErr' \in BOOLEAN /\ cancelled' = firstErr'
  BY <1>1, WriteEffect
<1>3. op \in SseKinds /\ op # "flush"
  BY DEF SseKinds
<1> HIDE DEF op
<1>4. /\ todo' \in Seq(Ops)
      /\ OpensFirst(todo)' /\ ~Due("message_start")'
      /\ \A o \in SseKinds : Due(o)' => Due(o)
      /\ \A kind \in SseKinds :
            WillEndWith(kind) =>
               \/ todo' \notin {<<>>, <<"flush">>} /\ todo'[Len(todo')] = kind
               \/ todo' \in {<<>>, <<"flush">>} /\ op = kind
               \/ todo' = <<>> /\ op = "flush" /\ kept # <<>> /\ kept[Len(kept)].kind = kind
  <2>1. OpensFirst(todo) /\ todo \in Seq(Ops) /\ todo # <<>>
    BY <1>1 DEF Ctl, Opening, ReqTypeOK
  <2>2. todo' = Tail(todo) \/ (Head(todo) # "flush" /\ todo' = <<"flush">> \o Tail(todo))
    BY <1>3 DEF op
  <2> QED
    BY <2>1, <2>2, Consumed DEF op
<1>5. /\ written \in Nat /\ base \in Nat /\ kept \in Seq(Item)
      /\ [kind |-> op, id |-> written + 1] \in Item
  BY <1>1, <1>3 DEF TypeOK, ReqTypeOK, Item
<1>6. /\ \A kind : Kept(kind)' <=> Kept(kind) \/ kind = op
      /\ kept' # <<>> /\ kept'[Len(kept')].kind = op
      /\ base <= written /\ (\A k \in DOMAIN kept : kept[k].id > base)
            => \A k \in DOMAIN kept' : kept'[k].id > base
  BY <1>2, <1>5, KeptGrows
<1>7. \A kind \in SseKinds : WillEndWith(kind) => WillEndWith(kind)'
  BY <1>3, <1>4, <1>6 DEF WillEndWith
<1>8. Due(op)
  BY <1>1 DEF Due
<1>9. {"message_start", "message_stop", "error"} \subseteq SseKinds
  BY DEF SseKinds
<1>10. writer'.started = writer.started /\ writer'.err = firstErr'
  BY <1>1 DEF ReqTypeOK
<1>11. Places'
  BY <1>1, <1>2 DEF Ctl, Places, Leaving, Closing, Stopped
<1>12. Refusals'
  BY <1>1, <1>2, <1>10 DEF Ctl, Refusals, Stopped
<1>13. ThisAttempt'
  <2>1. base' <= written' /\ \A k \in DOMAIN kept' : kept'[k].id > base'
    BY <1>1, <1>2, <1>5, <1>6 DEF Ctl, ThisAttempt
  <2> QED
    BY <1>1, <1>2, <2>1 DEF ThisAttempt
<1>14. Opening'
  <2>1. Kept("message_start") => Kept("message_start")'
    BY <1>6
  <2>2. Due("message_start") => op = "message_start"
    BY <1>1 DEF Ctl, Opening, OpensFirst, Due
  <2>3. writer.started => Kept("message_start")'
    BY <1>1, <1>2, <1>6, <2>2 DEF Ctl, Opening
  <2> QED
    BY <1>1, <1>2, <1>4, <1>10, <2>1, <2>3 DEF Ctl, Opening, Leaving, Completing
<1>15. ClosingOnce'
  <2>1. Kept("message_stop")' \/ Due("message_stop")' => Kept("message_stop") \/ Due("message_stop")
    BY <1>4, <1>6, <1>8, <1>9
  <2>2. WillEndWith("message_stop") => WillEndWith("message_stop")'
    BY <1>7, <1>9
  <2> QED
    BY <1>1, <1>2, <2>1, <2>2 DEF Ctl, ClosingOnce, Leaving, Completing
<1>16. Erring'
  <2>1. /\ Kept("error")' => Kept("error") \/ Due("error")
        /\ Due("error")' => Due("error")
        /\ WillEndWith("error") => WillEndWith("error")'
    BY <1>4, <1>6, <1>7, <1>8, <1>9
  <2> QED
    BY <1>1, <1>2, <2>1 DEF Ctl, Erring, Closing
<1> QED
  BY <1>11, <1>12, <1>13, <1>14, <1>15, <1>16 DEF Ctl

\* Everything else EmitNext does keeps what is kept.
LEMMA EmitOtherCtl ==
  ASSUME RInv, request.stream, EmitNext, todo' = Tail(todo),
         UNCHANGED <<kept, written, finalizing, finalized, stop>>,
         promoted => promoted',
         ~promoted /\ promoted' => ~Unavailable /\ Head(todo) = "promote",
         firstErr => firstErr', cancelled' = (cancelled \/ firstErr'),
         writer'.started = writer.started,
         writer'.err => writer.err \/ Unavailable \/ firstErr',
         Head(todo) \in SseKinds => Unavailable
  PROVE  Ctl'
<1> DEFINE op == Head(todo)
<1>1. /\ Ctl /\ TypeOK /\ ReqTypeOK /\ FailuresLatch
      /\ pc = "emit" /\ ~Leaving /\ ~Stopped /\ ~finalized /\ resume # "call" /\ todo # <<>>
      /\ UNCHANGED <<pc, resume, ended, gone, base>>
      /\ op = todo[1] /\ 1 \in DOMAIN todo
      /\ Unavailable => gone \/ firstErr
      /\ writer.err => Unavailable
  BY EmittingCtl
<1>2. OpensFirst(todo) /\ todo \in Seq(Ops)
  BY <1>1 DEF Ctl, Opening, ReqTypeOK
<1>3. /\ todo' \in Seq(Ops)
      /\ OpensFirst(todo)' /\ ~Due("message_start")'
      /\ \A o \in SseKinds : Due(o)' => Due(o)
      /\ \A kind \in SseKinds :
            WillEndWith(kind) =>
               \/ todo' \notin {<<>>, <<"flush">>} /\ todo'[Len(todo')] = kind
               \/ todo' \in {<<>>, <<"flush">>} /\ op = kind
               \/ todo' = <<>> /\ op = "flush" /\ kept # <<>> /\ kept[Len(kept)].kind = kind
  BY <1>1, <1>2, Consumed
<1> HIDE DEF op
<1>4. \A kind : Kept(kind)' = Kept(kind)
  BY DEF Kept
<1>5. \A kind \in SseKinds : WillEndWith(kind) => WillEndWith(kind)' \/ gone' \/ firstErr'
  <2> SUFFICES ASSUME NEW kind \in SseKinds, WillEndWith(kind)
               PROVE  WillEndWith(kind)' \/ gone' \/ firstErr'
    OBVIOUS
  <2>1. CASE op \in SseKinds
    BY <1>1, <2>1 DEF op
  <2>2. CASE op \notin SseKinds
    BY <1>3, <2>2 DEF WillEndWith
  <2> QED
    BY <2>1, <2>2
<1>6. {"message_start", "message_stop", "error"} \subseteq SseKinds
  BY DEF SseKinds
<1>7. Due("message_start") => op = "message_start"
  BY <1>1, <1>2 DEF OpensFirst, Due
<1>8. Places'
  BY <1>1 DEF Ctl, Places, Leaving, Closing, Stopped
<1>9. Refusals'
  BY <1>1 DEF Ctl, Refusals, Stopped, Unavailable
<1>10. ThisAttempt'
  BY <1>1 DEF Ctl, ThisAttempt
<1>11. Opening'
  <2>1. ~cancelled' => ~Unavailable /\ ~cancelled
    BY <1>1 DEF Ctl, Refusals, Unavailable
  <2>2. writer.started
    BY <1>1 DEF Ctl, Opening
  <2>3. ~cancelled' => Kept("message_start")
    BY <1>1, <1>6, <1>7, <2>1, <2>2 DEF op, Ctl, Opening
  <2>4. promoted' => Kept("message_start")
    <3>1. CASE promoted
      BY <1>1, <3>1 DEF Ctl, Opening
    <3>2. CASE ~promoted /\ promoted'
      <4>1. ~Unavailable /\ op = "promote" /\ ~cancelled
        BY <3>2 DEF op, Unavailable
      <4>2. ~Due("message_start")
        BY <1>7, <4>1
      <4> QED
        BY <1>1, <2>2, <4>1, <4>2 DEF Ctl, Opening
    <3> QED
      BY <3>1, <3>2
  <2> QED
    BY <1>1, <1>3, <1>4, <2>2, <2>3, <2>4 DEF Opening, Leaving, Completing
<1>12. ClosingOnce' /\ Erring'
  BY <1>1, <1>3, <1>4, <1>5, <1>6
     DEF Ctl, ClosingOnce, Erring, Leaving, Completing, Closing
<1> QED
  BY <1>8, <1>9, <1>10, <1>11, <1>12 DEF Ctl

LEMMA EmitNextCtl == ASSUME RInv, request.stream, EmitNext PROVE Ctl'
<1> DEFINE op == Head(todo)
<1>1. /\ Ctl /\ TypeOK /\ ReqTypeOK /\ FailuresLatch /\ IInv
      /\ ~Stopped /\ todo # <<>>
      /\ Unavailable => gone \/ firstErr
  BY EmittingCtl
<1>2. cancelled = (cancelled \/ firstErr)
  BY <1>1 DEF FailuresLatch, TypeOK
<1>3. CASE /\ op = "promote" /\ Promote
           /\ writer' = [writer EXCEPT !.err = @ \/ firstErr'] /\ todo' = Tail(todo)
  <2>1. /\ ~firstErr /\ ~cancelled /\ ~promoted /\ promoted' = TRUE /\ ~Unavailable
        /\ UNCHANGED <<kept, written, finalizing, finalized, stop>>
        /\ firstErr' \in BOOLEAN /\ cancelled' = firstErr'
    BY <1>1, <1>3, PromoteEffect DEF Promote
  <2>2. writer'.started = writer.started /\ (writer'.err => writer.err \/ firstErr')
    BY <1>1, <1>3 DEF ReqTypeOK
  <2>3. op \notin SseKinds
    BY <1>3 DEF SseKinds
  <2> QED
    BY <1>3, <2>1, <2>2, <2>3, EmitOtherCtl
<1>4. CASE /\ todo' = Tail(todo) /\ UNCHANGED vars
           /\ op \in SseKinds => writer.err \/ Unavailable
           /\ writer' \in {[writer EXCEPT !.err = @ \/ Unavailable], [writer EXCEPT !.err = TRUE]}
           /\ op \notin SseKinds => writer' = [writer EXCEPT !.err = @ \/ Unavailable]
  <2>1. UNCHANGED <<kept, written, finalizing, finalized, stop, promoted, firstErr, cancelled>>
    BY <1>4 DEF vars, socketVars, sessionVars, historyVars
  <2>2. op \in SseKinds => Unavailable
    BY <1>4, EmittingCtl
  <2>3. writer'.started = writer.started /\ (writer'.err => writer.err \/ Unavailable)
    BY <1>1, <1>4, <2>2 DEF ReqTypeOK
  <2>4. cancelled' = (cancelled \/ firstErr') /\ (firstErr => firstErr') /\ promoted' = promoted
    BY <1>2, <2>1
  <2> QED
    BY <1>4, <2>1, <2>2, <2>3, <2>4, EmitOtherCtl
<1>5. CASE /\ op \in SseKinds /\ ~writer.err /\ Write(op)
           /\ writer' = [writer EXCEPT !.err = firstErr']
           /\ todo' = IF promoted THEN <<"flush">> \o Tail(todo) ELSE Tail(todo)
  BY <1>5, EmitWriteCtl
<1>6. CASE /\ op = "flush" /\ todo' = Tail(todo)
           /\ Flush \/ UNCHANGED vars
           /\ writer' = [writer EXCEPT !.err = @ \/ firstErr']
  <2>1. /\ UNCHANGED <<kept, written, finalizing, finalized, stop, promoted>>
        /\ firstErr => firstErr'
        /\ cancelled' = (cancelled \/ firstErr')
    <3>1. CASE Flush
      BY <1>1, <3>1, FlushEffect
    <3>2. CASE UNCHANGED vars
      BY <1>2, <3>2 DEF vars, socketVars, sessionVars, historyVars
    <3> QED
      BY <1>6, <3>1, <3>2
  <2>2. writer'.started = writer.started /\ (writer'.err => writer.err \/ firstErr')
    BY <1>1, <1>6 DEF ReqTypeOK
  <2>3. op \notin SseKinds
    BY <1>6 DEF SseKinds
  <2> QED
    BY <1>6, <2>1, <2>2, <2>3, EmitOtherCtl
<1> QED
  <2>1. "promote" \notin SseKinds
    BY DEF SseKinds
  <2> QED
    BY <1>3, <1>4, <1>5, <1>6, <2>1 DEF EmitNext

----------------------------------------------------------------------------
\* Steps of the handler that write nothing and keep what is kept.
LEMMA KeepingCtl ==
  ASSUME RInv, request.stream,
         SetHeaders \/ StartHeartbeat \/ Finished \/ FinalErrorClosed \/ Return
  PROVE  Ctl'
<1>1. Ctl /\ TypeOK /\ ReqTypeOK /\ FailuresLatch /\ IInv
  BY DEF RInv, StreamInv, Ctl, IInv
<1>2. /\ UNCHANGED <<kept, written, todo, resume, gone, base>>
      /\ firstErr => firstErr'
      /\ pc # "return" => UNCHANGED <<stop, writer>>
      /\ pc # "return" => cancelled' = (cancelled \/ firstErr')
      /\ pc # "return" => (pc' = "return" \/ (UNCHANGED finalized /\ UNCHANGED finalizing))
      /\ pc # "finished" => UNCHANGED <<promoted, firstErr>>
      /\ pc # "closing" => UNCHANGED <<finalizing, finalized>>
  <2>1. CASE SetHeaders
    <3>1. UNCHANGED <<firstErr, cancelled, promoted, finalizing, finalized, stop, kept, written>>
      BY <2>1 DEF SetHeaders, SetSSEHeaders, vars, socketVars, sessionVars, historyVars
    <3> QED
      BY <1>1, <2>1, <3>1 DEF SetHeaders, FailuresLatch, TypeOK
  <2>2. CASE StartHeartbeat
    <3>1. UNCHANGED <<firstErr, cancelled, promoted, finalizing, finalized, stop, kept, written>>
      BY <2>2 DEF StartHeartbeat, Start, vars, socketVars, sessionVars, historyVars
    <3> QED
      BY <1>1, <2>2, <3>1 DEF StartHeartbeat, FailuresLatch, TypeOK
  <2>3. CASE Finished
    <3>1. CASE Promote
      BY <1>1, <2>3, <3>1, PromoteEffect DEF Finished
    <3>2. CASE UNCHANGED vars
      BY <1>1, <2>3, <3>2
         DEF Finished, FailuresLatch, TypeOK, vars, socketVars, sessionVars, historyVars
    <3> QED
      BY <2>3, <3>1, <3>2 DEF Finished
  <2>4. CASE FinalErrorClosed
    BY <1>1, <2>4
       DEF FinalErrorClosed, FinalErrorEnd, FailuresLatch, TypeOK, goto, socketVars, historyVars
  <2>5. CASE Return
    BY <2>5 DEF Return, StopFlag, StopSignal, StopJoin, socketVars, sessionVars, historyVars
  <2> QED
    BY <2>1, <2>2, <2>3, <2>4, <2>5
<1>3. \A kind : Kept(kind)' = Kept(kind) /\ Due(kind)' = Due(kind) /\ WillEndWith(kind)' = WillEndWith(kind)
  BY <1>2 DEF Kept, Due, WillEndWith
<1>4. OpensFirst(todo)' = OpensFirst(todo)
  BY <1>2 DEF OpensFirst
<1>5. CASE SetHeaders \/ StartHeartbeat
  <2>1. /\ pc \in {"headers", "start"} /\ pc' \in {"start", "parse"}
        /\ UNCHANGED <<ended, writer>>
    BY <1>5 DEF SetHeaders, StartHeartbeat, goto
  <2>2. cancelled' = cancelled
    BY <1>1, <1>2, <2>1 DEF FailuresLatch, TypeOK
  <2>3. Places' /\ Refusals' /\ ThisAttempt'
    BY <1>1, <1>2, <2>1, <2>2 DEF Ctl, Places, Refusals, ThisAttempt, Leaving, Closing, Stopped
  <2>4. Opening' /\ ClosingOnce' /\ Erring'
    BY <1>1, <1>2, <1>3, <1>4, <2>1, <2>2
       DEF Ctl, Opening, ClosingOnce, Erring, Leaving, Completing, Closing
  <2> QED
    BY <2>3, <2>4 DEF Ctl
<1>6. CASE Finished
  <2>1. /\ pc = "finished" /\ pc' \in {"return", "retry"}
        /\ UNCHANGED <<ended, writer>>
        /\ pc' = "retry" => ~promoted'
        /\ ~promoted /\ promoted' => ~cancelled
    <3>1. CASE Promote
      <4>1. ~promoted /\ promoted' = TRUE /\ ~cancelled
        BY <1>1, <3>1, PromoteEffect
      <4>2. pc = "finished" /\ UNCHANGED <<ended, writer>>
        BY <1>6 DEF Finished
      <4>3. pc' = "return" \/ (pc' = "retry" /\ UNCHANGED promoted)
        BY <1>6 DEF Finished, goto, vars, sessionVars
      <4> QED
        BY <4>1, <4>2, <4>3
    <3>2. CASE UNCHANGED vars
      <4>1. UNCHANGED promoted
        BY <3>2 DEF vars, sessionVars
      <4>2. pc = "finished" /\ UNCHANGED <<ended, writer>>
        BY <1>6 DEF Finished
      <4>3. pc' = "return" \/ (pc' = "retry" /\ ~promoted)
        BY <1>6 DEF Finished, goto
      <4> QED
        BY <4>1, <4>2, <4>3
    <3> QED
      BY <1>6, <3>1, <3>2 DEF Finished
  <2>2. todo = <<>> /\ writer.started /\ ~Stopped /\ ~finalized /\ ~finalizing
    BY <1>1, <2>1 DEF Ctl, Places, Opening, Completing, Closing, Leaving
  <2>3. ~Due("message_start") /\ ~Due("error")
    BY <2>2 DEF Due
  <2>4. ~cancelled => Kept("message_start")
    BY <1>1, <2>1, <2>2, <2>3 DEF Ctl, Opening, Leaving
  <2>5. Places' /\ ThisAttempt'
    BY <1>1, <1>2, <2>1, <2>2 DEF Ctl, Places, ThisAttempt, Leaving, Closing, Stopped
  <2>51. Refusals'
    BY <1>1, <1>2, <2>1, <2>2 DEF Ctl, Refusals, Stopped
  <2>6. Opening'
    BY <1>1, <1>2, <1>3, <1>4, <2>1, <2>2, <2>3, <2>4
       DEF Ctl, Opening, Leaving, Completing
  <2>7. ClosingOnce' /\ Erring'
    BY <1>1, <1>2, <1>3, <2>1, <2>2
       DEF Ctl, ClosingOnce, Erring, Leaving, Completing, Closing
  <2> QED
    BY <2>5, <2>51, <2>6, <2>7 DEF Ctl
<1>7. CASE FinalErrorClosed
  <2>1. /\ pc = "closing" /\ pc' = "return" /\ finalizing' = FALSE /\ finalized' = TRUE
        /\ UNCHANGED <<ended, writer>>
    BY <1>7 DEF FinalErrorClosed, FinalErrorEnd, goto
  <2>2. cancelled' = cancelled /\ todo = <<>>
    BY <1>1, <1>2, <2>1 DEF FailuresLatch, TypeOK, Ctl, Places
  <2>3. ~Due("error") /\ ~Due("message_start")
    BY <2>2 DEF Due
  <2>4. Places' /\ Refusals' /\ ThisAttempt'
    BY <1>1, <1>2, <2>1, <2>2 DEF Ctl, Places, Refusals, ThisAttempt, Leaving, Closing, Stopped
  <2>5. Opening' /\ ClosingOnce' /\ Erring'
    BY <1>1, <1>2, <1>3, <1>4, <2>1, <2>2, <2>3
       DEF Ctl, Opening, ClosingOnce, Erring, Leaving, Completing, Closing
  <2> QED
    BY <2>4, <2>5 DEF Ctl
<1>8. CASE Return
  <2>1. /\ pc = "return" /\ pc' \in {"return", "done"}
        /\ writer' = NewWriter
        /\ cancelled => cancelled'
        /\ cancelled' => cancelled \/ Stopped'
        /\ Stopped'
    BY <1>8 DEF Return, StopFlag, StopSignal, StopJoin, goto, socketVars, Stopped
  <2>2. todo = <<>> /\ ~finalizing
    BY <1>1, <2>1 DEF Ctl, Places, Closing
  <2>3. ~Due("error") /\ ~Due("message_start")
    BY <2>2 DEF Due
  <2>4. Places'
    BY <1>1, <1>2, <2>1, <2>2 DEF Ctl, Places, Leaving, Closing
  <2>5. Refusals'
    BY <1>1, <1>2, <2>1 DEF Ctl, Refusals, NewWriter
  <2>6. ThisAttempt'
    BY <1>1, <1>2, <2>1 DEF Ctl, ThisAttempt
  <2>7. Opening' /\ ClosingOnce' /\ Erring'
    BY <1>1, <1>2, <1>3, <1>4, <2>1, <2>2, <2>3
       DEF Ctl, Opening, ClosingOnce, Erring, Leaving, Completing, Closing
  <2> QED
    BY <2>4, <2>5, <2>6, <2>7 DEF Ctl
<1> QED
  BY <1>5, <1>6, <1>7, <1>8

\* A retry starts from nothing.
LEMMA RetryCtl == ASSUME RInv, request.stream, Retry PROVE Ctl'
<1>1. Ctl /\ TypeOK /\ ReqTypeOK /\ FailuresLatch
  BY DEF RInv, StreamInv, Ctl, IInv
<1>2. /\ pc = "retry" /\ pc' \in {"call", "final"} /\ ~promoted /\ buf' = <<>> /\ kept' = <<>>
      /\ UNCHANGED <<todo, resume, writer, ended, gone, base>>
      /\ UNCHANGED <<firstErr, cancelled, promoted, finalizing, finalized, stop, written>>
  BY DEF Retry, Discard, goto, socketVars
<1>3. todo = <<>> /\ DOMAIN todo' = {} /\ DOMAIN kept' = {}
  BY <1>1, <1>2 DEF Ctl, Places
<1>4. \A kind : ~Kept(kind)' /\ ~Due(kind)'
  BY <1>3 DEF Kept, Due
<1>5. Places' /\ Refusals' /\ ThisAttempt'
  BY <1>1, <1>2, <1>3 DEF Ctl, Places, Refusals, ThisAttempt, Leaving, Closing, Stopped
<1>6. OpensFirst(todo)'
  BY <1>3 DEF OpensFirst
<1>7. Opening' /\ ClosingOnce' /\ Erring'
  BY <1>1, <1>2, <1>3, <1>4, <1>6
     DEF Ctl, Places, Opening, ClosingOnce, Erring, Leaving, Completing, Closing
<1> QED
  BY <1>5, <1>7 DEF Ctl

LEMMA FinalErrorCtl == ASSUME RInv, request.stream, FinalError PROVE Ctl'
<1>1. Ctl /\ TypeOK /\ ReqTypeOK /\ FailuresLatch
  BY DEF RInv, StreamInv, Ctl, IInv
<1>2. pc = "final" /\ UNCHANGED <<ended, gone, base>>
  BY DEF FinalError
<1>3. /\ todo = <<>> /\ ~Leaving /\ ~Stopped /\ ~finalized /\ ~finalizing
      /\ ~Kept("message_stop")
  BY <1>1, <1>2 DEF Ctl, Places, ClosingOnce, Completing, Closing, Leaving
<1>4. \A kind : ~Due(kind)
  BY <1>3 DEF Due
<1>5. CASE Unavailable /\ pc' = "return" /\ UNCHANGED <<vars, todo, resume, writer>>
  <2>1. UNCHANGED <<firstErr, cancelled, buf, promoted, finalizing, finalized, stop, written, kept>>
    BY <1>5 DEF vars, socketVars, sessionVars, historyVars
  <2>2. \A kind : Kept(kind)' = Kept(kind) /\ Due(kind)' = Due(kind)
    BY <1>5, <2>1 DEF Kept, Due
  <2>3. Places' /\ Refusals' /\ ThisAttempt'
    BY <1>1, <1>2, <1>3, <1>5, <2>1
       DEF Ctl, Places, Refusals, ThisAttempt, Leaving, Closing, Stopped
  <2>4. OpensFirst(todo)' = OpensFirst(todo)
    BY <1>5 DEF OpensFirst
  <2>5. Opening' /\ ClosingOnce' /\ Erring'
    BY <1>1, <1>2, <1>3, <1>4, <1>5, <2>1, <2>2, <2>4
       DEF Ctl, Opening, ClosingOnce, Erring, Leaving, Completing, Closing
  <2> QED
    BY <2>3, <2>5 DEF Ctl
<1>6. CASE promoted /\ FinalErrorBegin /\ Emit(<<"delta", "error">>, "closing")
  <2> DEFINE ops == <<"delta", "error">>
  <2>1. /\ UNCHANGED <<firstErr, cancelled, buf, promoted, finalized, stop, written, kept>>
        /\ finalizing' = TRUE
    BY <1>6 DEF FinalErrorBegin, socketVars, historyVars
  <2>2. writer.started /\ Kept("message_start")
    BY <1>1, <1>3, <1>6 DEF Ctl, Opening
  <2>3. /\ ops \in Seq(Ops) /\ ops # <<>> /\ ops # <<"flush">> /\ Len(ops) = 2
        /\ \A i \in DOMAIN ops : ops[i] \in {"delta", "error"}
        /\ ops[2] = "error"
    <3>1. "delta" \in Ops /\ "error" \in Ops
      BY DEF Ops, SseKinds
    <3>2. Len(<<"flush">>) = 1
      OBVIOUS
    <3> QED
      BY <3>1, <3>2
  <2> HIDE DEF ops
  <2>4. /\ pc' = "emit" /\ resume' = "closing" /\ todo' = ops
        /\ writer'.err = writer.err
        /\ writer'.started
    <3>1. Emit(ops, "closing")
      BY <1>6 DEF ops
    <3> QED
      BY <1>1, <2>2, <2>3, <3>1, EmitEffect
  <2>5. \A kind : Kept(kind)' = Kept(kind)
    BY <2>1 DEF Kept
  <2>6. /\ ~Due("message_start")' /\ ~Due("message_stop")' /\ OpensFirst(todo)'
        /\ WillEndWith("error")'
    BY <2>3, <2>4 DEF Due, OpensFirst, WillEndWith
  <2>7. Places'
    BY <1>1, <1>2, <1>3, <2>1, <2>4 DEF Ctl, Places, Leaving, Closing, Stopped
  <2>8. Refusals' /\ ThisAttempt'
    BY <1>1, <1>2, <1>3, <2>1, <2>4 DEF Ctl, Refusals, ThisAttempt, Stopped
  <2>9. Opening'
    BY <1>1, <1>2, <2>1, <2>2, <2>4, <2>5, <2>6 DEF Ctl, Opening, Leaving
  <2>10. ClosingOnce' /\ Erring'
    BY <1>1, <1>2, <1>3, <2>1, <2>4, <2>5, <2>6
       DEF Ctl, ClosingOnce, Erring, Leaving, Completing, Closing
  <2> QED
    BY <2>7, <2>8, <2>9, <2>10 DEF Ctl
<1>7. CASE /\ FinalErrorSSE \/ FinalErrorJSON
           /\ pc' = "return" /\ UNCHANGED <<todo, resume, writer>>
  <2>1. /\ ~Unavailable
        /\ UNCHANGED <<promoted, finalizing, stop, written>> /\ finalized' = TRUE
        /\ (buf' = <<>> /\ kept' = <<>>) \/ UNCHANGED <<buf, kept>>
        /\ \/ SocketWrite(<<SseError>>, "ok") \/ SocketWrite(<<JsonBody>>, "error")
        /\ promoted => UNCHANGED kept
    BY <1>7 DEF FinalErrorSSE, FinalErrorJSON, SocketWriteFlush
  <2>2. ~firstErr /\ ~cancelled
    BY <2>1 DEF Unavailable
  <2>3. firstErr' \in BOOLEAN /\ cancelled' = firstErr'
    BY <1>1, <2>1, <2>2 DEF SocketWrite, TypeOK
  <2>4. kept' = <<>> => DOMAIN kept' = {}
    OBVIOUS
  <2>5. /\ \A kind : Kept(kind)' => Kept(kind)
        /\ \A kind : Due(kind)' = Due(kind)
        /\ promoted => \A kind : Kept(kind)' = Kept(kind)
        /\ OpensFirst(todo)' = OpensFirst(todo)
    <3>1. kept' = <<>> \/ kept' = kept
      BY <2>1
    <3> QED
      BY <1>7, <2>1, <2>4, <3>1 DEF Kept, Due, OpensFirst
  <2>6. Places' /\ Refusals'
    BY <1>1, <1>2, <1>3, <1>7, <2>1, <2>2, <2>3
       DEF Ctl, Places, Refusals, Leaving, Closing, Stopped
  <2>7. ThisAttempt'
    BY <1>1, <1>2, <1>3, <1>7, <2>1, <2>4 DEF Ctl, ThisAttempt
  <2>8. Opening' /\ ClosingOnce' /\ Erring'
    BY <1>1, <1>2, <1>3, <1>4, <1>7, <2>1, <2>5
       DEF Ctl, Opening, ClosingOnce, Erring, Leaving, Completing, Closing
  <2> QED
    BY <2>6, <2>7, <2>8 DEF Ctl
<1> QED
  BY <1>5, <1>6, <1>7 DEF FinalError, goto

\* Every step of a streamed request keeps the handler's part of the invariant;
\* the steps that answer without a stream are not its own.
LEMMA StreamCtl == ASSUME RInv, request.stream, [ReqNext]_allVars PROVE Ctl'
<1>1. Ctl /\ TypeOK /\ ReqTypeOK /\ FailuresLatch /\ IInv /\ pc # "reply"
  BY DEF RInv, StreamInv, Ctl, IInv, Places
<1>2. CASE HeartbeatStep
  <2>1. Heartbeat /\ UNCHANGED <<handlerVars, gone, base>>
    BY <1>2 DEF HeartbeatStep, reqVars
  <2>2. /\ UNCHANGED <<contentType, buf, promoted, finalizing, finalized, stop, written, kept>>
        /\ firstErr => firstErr'
        /\ cancelled => cancelled'
        /\ cancelled' => cancelled \/ firstErr'
    BY <1>1, <2>1, HeartbeatEffect
  <2>3. gone => gone'
    BY <2>1
  <2>4. gone' => cancelled'
    BY <1>1, <2>1, <2>2 DEF Ctl, Refusals
  <2> QED
    BY <1>1, <2>1, <2>2, <2>3, <2>4, BackgroundCtl
<1>3. CASE ClientLeaves
  <2>1. /\ UNCHANGED <<handlerVars, base, firstErr, buf, promoted, finalizing, finalized, stop,
                       written, kept>>
        /\ cancelled' = TRUE /\ gone' = TRUE
    BY <1>3 DEF ClientLeaves, ClientGone, sessionVars, historyVars
  <2> QED
    BY <1>1, <2>1, BackgroundCtl
<1>4. CASE UNCHANGED allVars
  <2>1. UNCHANGED <<handlerVars, base, gone, firstErr, cancelled, buf, promoted, finalizing,
                    finalized, stop, written, kept>>
    BY <1>4 DEF allVars, reqVars, vars, socketVars, sessionVars, historyVars
  <2>2. gone' => cancelled'
    BY <1>1, <2>1 DEF Ctl, Refusals
  <2> QED
    BY <1>1, <2>1, <2>2, BackgroundCtl
<1>5. ~CollectFrame /\ ~Collected /\ ~Reply /\ ~ReplyError
  BY <1>1 DEF CollectFrame, Collected, Reply, ReplyError
<1>6. CASE EmitNext
  BY <1>6, EmitNextCtl
<1>7. CASE EmitDone \/ Call \/ CheckContext \/ ParseEnds \/ ErrorFrame \/ FrameHandled
  BY <1>7, QuietCtl
<1>8. CASE SetHeaders \/ StartHeartbeat \/ Finished \/ FinalErrorClosed \/ Return
  BY <1>8, KeepingCtl
<1>9. CASE ContentFrame
  BY <1>9, ContentFrameCtl
<1>10. CASE Ended
  BY <1>10, EndedCtl
<1>11. CASE Retry
  BY <1>11, RetryCtl
<1>12. CASE FinalError
  BY <1>12, FinalErrorCtl
<1> QED
  BY <1>2, <1>3, <1>4, <1>5, <1>6, <1>7, <1>8, <1>9, <1>10, <1>11, <1>12 DEF ReqNext, Handler

\* The handler only ever takes steps of the session.
LEMMA StreamIsSessionStep ==
  ASSUME RInv, request.stream, [ReqNext]_allVars
  PROVE  SessionStep /\ UNCHANGED request
<1>1. pc # "reply"
  BY DEF RInv, StreamInv, Places
<1>2. CASE HeartbeatStep
  BY <1>2 DEF HeartbeatStep, Heartbeat, SessionStep, reqVars, handlerVars
<1>3. CASE ClientLeaves
  BY <1>3 DEF ClientLeaves, SessionStep, handlerVars
<1>4. CASE UNCHANGED allVars
  BY <1>4 DEF allVars, SessionStep, reqVars, handlerVars
<1>5. ~CollectFrame /\ ~Collected /\ ~Reply /\ ~ReplyError
  BY <1>1 DEF CollectFrame, Collected, Reply, ReplyError
<1>6. CASE EmitNext
  <2>1. UNCHANGED request
    BY <1>6 DEF EmitNext
  <2>2. \/ Promote \/ UNCHANGED vars \/ Flush
        \/ Head(todo) \in SseKinds /\ Write(Head(todo))
    BY <1>6 DEF EmitNext
  <2> QED
    BY <2>1, <2>2 DEF SessionStep
<1>7. CASE \/ EmitDone \/ Call \/ CheckContext \/ ParseEnds \/ ErrorFrame \/ FrameHandled
           \/ ContentFrame \/ Ended
  BY <1>7 DEF EmitDone, Call, CheckContext, ParseEnds, ErrorFrame, FrameHandled, ContentFrame,
              Ended, SessionStep
<1>8. CASE SetHeaders \/ StartHeartbeat \/ Finished \/ FinalErrorClosed \/ Return
  BY <1>8 DEF SetHeaders, StartHeartbeat, Finished, FinalErrorClosed, Return, StopCall, SessionStep
<1>9. CASE Retry \/ FinalError
  BY <1>9 DEF Retry, FinalError, SessionStep
<1> QED
  BY <1>2, <1>3, <1>4, <1>5, <1>6, <1>7, <1>8, <1>9 DEF ReqNext, Handler

----------------------------------------------------------------------------
\* The types of the handler's own variables.
LEMMA AccumulatorsClosed ==
  ASSUME NEW a \in Accumulators, NEW kind \in FrameKinds, NEW halts \in BOOLEAN, NEW left \in BOOLEAN
  PROVE  /\ Accumulate(a, kind, halts, left) \in Accumulators
         /\ Finalize(a) \in Accumulators
         /\ NewAcc \in Accumulators
  BY DEF Accumulators, Accumulate, Finalize, NewAcc

LEMMA EmitNextType == ASSUME RInv, EmitNext PROVE ReqTypeOK'
<1>1. ReqTypeOK /\ TypeOK /\ pc = "emit" /\ todo # <<>>
  BY DEF RInv, EmitNext
<1>2. request.stream /\ OpensFirst(todo)
  BY <1>1 DEF RInv, PlainInv, StreamInv, Opening
<1>3. UNCHANGED <<pc, resume, attempt, frames, request, acc, ended, cause, gone, base>>
  BY DEF EmitNext
<1>4. todo' = Tail(todo) \/ (Head(todo) # "flush" /\ todo' = <<"flush">> \o Tail(todo))
  BY DEF EmitNext, SseKinds
<1>5. todo' \in Seq(Ops)
  BY <1>1, <1>2, <1>4, Consumed DEF ReqTypeOK
<1>6. TypeOK'
  BY <1>2, SessionStepIInv, StreamIsSessionStep DEF RInv, StreamInv, ReqNext, Handler, IInv
<1>7. Unavailable \in BOOLEAN /\ firstErr' \in BOOLEAN
  BY <1>1, <1>6 DEF Unavailable, TypeOK
<1>8. writer' \in [started : BOOLEAN, fired : BOOLEAN, err : BOOLEAN]
  BY <1>1, <1>7 DEF EmitNext, ReqTypeOK
<1> QED
  BY <1>1, <1>3, <1>5, <1>8 DEF ReqTypeOK

LEMMA ContentFrameType == ASSUME RInv, ContentFrame PROVE ReqTypeOK'
<1>1. ReqTypeOK /\ UNCHANGED <<attempt, request, cause, gone, base>> /\ frames' = frames + 1
  BY DEF RInv, ContentFrame
<1>2. CASE EndParse("streamErr") /\ UNCHANGED <<resume, todo, writer, acc>>
  BY <1>1, <1>2 DEF EndParse, goto, ReqTypeOK, Labels
<1>3. ASSUME NEW kind \in FrameKinds, NEW halts \in BOOLEAN, NEW left \in BOOLEAN,
             UNCHANGED ended,
             acc' = (IF Live(acc, kind) THEN Accumulate(acc, kind, halts, left) ELSE acc),
             NEW ops, NEW label \in {"stopped", "framed"}, Emit(ops, label),
             \/ ops = Shown(writer, kind)
                   \o Finish(After(writer, Shown(writer, kind)), Accumulate(acc, kind, halts, left))
             \/ ops = Shown(writer, kind)
             \/ ops = <<>>
      PROVE  ReqTypeOK'
  <2>1. acc' \in Accumulators /\ writer \in [started : BOOLEAN, fired : BOOLEAN, err : BOOLEAN]
    BY <1>1, <1>3, AccumulatorsClosed DEF ReqTypeOK
  <2>2. ops \in Seq(Ops) /\ (ops # <<>> => writer.started \/ \E i \in DOMAIN ops : ops[i] = "message_start")
    <3>1. CASE ops = <<>>
      BY <3>1
    <3>2. CASE ops = Shown(writer, kind)
      BY <2>1, <3>2, ShownOps
    <3>3. ASSUME NEW a, ops = Shown(writer, kind) \o Finish(After(writer, Shown(writer, kind)), a)
          PROVE  /\ ops \in Seq(Ops)
                 /\ writer.started \/ \E i \in DOMAIN ops : ops[i] = "message_start"
      BY <2>1, <3>3, LastOps
    <3> QED
      BY <1>3, <3>1, <3>2, <3>3
  <2>3. /\ pc' = "emit" /\ resume' = label /\ todo' = ops
        /\ writer' \in [started : BOOLEAN, fired : BOOLEAN, err : BOOLEAN]
    BY <1>1, <1>3, <2>2, EmitEffect
  <2> QED
    BY <1>1, <1>3, <2>1, <2>2, <2>3 DEF ReqTypeOK, Labels
<1>4. CASE ~(firstErr \/ writer.err)
  <2>1. PICK kind \in FrameKinds, halts \in BOOLEAN, left \in BOOLEAN :
            LET live == Live(acc, kind)
                a == IF live THEN Accumulate(acc, kind, halts, left) ELSE acc
                shown == IF live THEN Shown(writer, kind) ELSE <<>>
            IN  /\ acc' = a
                /\ IF live /\ a.stop /\ ~(request.drain /\ a.tool)
                   THEN Emit(shown \o Finish(After(writer, shown), a), "stopped")
                   ELSE Emit(shown, "framed")
    BY <1>4 DEF ContentFrame
  <2>2. UNCHANGED ended
    BY <1>4 DEF ContentFrame
  <2>3. CASE Live(acc, kind)
    BY <1>3, <2>1, <2>2, <2>3
  <2>4. CASE ~Live(acc, kind)
    BY <1>3, <2>1, <2>2, <2>4
  <2> QED
    BY <2>3, <2>4
<1> QED
  BY <1>2, <1>4 DEF ContentFrame

LEMMA ReqTypeStep == ASSUME RInv, [ReqNext]_allVars PROVE ReqTypeOK'
<1> USE DEF goto, Labels
<1>1. ReqTypeOK /\ TypeOK
  BY DEF RInv
<1>2. CASE HeartbeatStep \/ ClientLeaves \/ UNCHANGED allVars
  <2>1. UNCHANGED handlerVars /\ UNCHANGED base /\ (gone' = gone \/ gone' = TRUE)
    BY <1>2 DEF HeartbeatStep, ClientLeaves, allVars, reqVars
  <2>2. /\ UNCHANGED <<pc, resume, todo, attempt, frames, request, writer, acc, ended, cause>>
        /\ base' = base /\ gone' \in BOOLEAN
    BY <1>1, <2>1 DEF handlerVars, ReqTypeOK
  <2> QED
    BY <1>1, <2>2 DEF ReqTypeOK
<1>3. CASE EmitNext
  BY <1>3, EmitNextType
<1>4. CASE ContentFrame
  BY <1>4, ContentFrameType
<1>5. CASE Call
  <2>1. NewAcc \in Accumulators /\ NewWriter \in [started : BOOLEAN, fired : BOOLEAN, err : BOOLEAN]
        /\ written \in Nat
    BY <1>1 DEF NewAcc, Accumulators, NewWriter, TypeOK
  <2> QED
    BY <1>1, <1>5, <2>1 DEF Call, ReqTypeOK
<1>6. CASE Return
  <2>1. NewAcc \in Accumulators /\ NewWriter \in [started : BOOLEAN, fired : BOOLEAN, err : BOOLEAN]
    BY DEF NewAcc, Accumulators, NewWriter
  <2> QED
    BY <1>1, <1>6, <2>1 DEF Return, ReqTypeOK
<1>7. CASE EmitDone \/ SetHeaders \/ StartHeartbeat \/ CheckContext \/ ParseEnds \/ ErrorFrame \/ FrameHandled
  BY <1>1, <1>7 DEF EmitDone, SetHeaders, StartHeartbeat, CheckContext, ParseEnds, ErrorFrame,
                    FrameHandled, EndParse, ReqTypeOK
<1>8. CASE Finished \/ Reply \/ ReplyError \/ Retry \/ FinalErrorClosed
  BY <1>1, <1>8 DEF Finished, Reply, ReplyError, Retry, FinalErrorClosed, ReqTypeOK
<1>9. CASE CollectFrame
  <2>1. PICK kind \in FrameKinds, halts \in BOOLEAN, left \in BOOLEAN :
            acc' = IF Live(acc, kind) THEN Accumulate(acc, kind, halts, left) ELSE acc
    BY <1>9 DEF CollectFrame
  <2>2. acc' \in Accumulators
    BY <1>1, <2>1, AccumulatorsClosed DEF ReqTypeOK
  <2> QED
    BY <1>1, <1>9, <2>2 DEF CollectFrame, ReqTypeOK
<1>10. CASE Collected
  <2>1. acc' \in Accumulators
    BY <1>1, <1>10 DEF Collected, Finalize, Accumulators, ReqTypeOK
  <2> QED
    BY <1>1, <1>10, <2>1 DEF Collected, ReqTypeOK
<1>11. CASE Ended
  <2>1. UNCHANGED <<attempt, frames, request, ended, cause, gone, base>>
    BY <1>11 DEF Ended
  <2>2. CASE UNCHANGED <<resume, todo, writer, acc>> /\ pc' \in {"return", "retry", "final", "finished"}
    BY <1>1, <2>1, <2>2 DEF ReqTypeOK
  <2>3. CASE acc' = Finalize(acc) /\ Emit(Finish(writer, acc), "finished")
    <3>1. writer \in [started : BOOLEAN, fired : BOOLEAN, err : BOOLEAN] /\ acc' \in Accumulators
      BY <1>1, <2>3 DEF Finalize, Accumulators, ReqTypeOK
    <3>2. /\ Finish(writer, acc) \in Seq(Ops)
          /\ writer.started \/ \E i \in DOMAIN Finish(writer, acc) : Finish(writer, acc)[i] = "message_start"
      BY <3>1, FinishOps
    <3>3. /\ pc' = "emit" /\ resume' = "finished" /\ todo' = Finish(writer, acc)
          /\ writer' \in [started : BOOLEAN, fired : BOOLEAN, err : BOOLEAN]
      BY <1>1, <2>3, <3>2, EmitEffect
    <3> QED
      BY <1>1, <2>1, <3>1, <3>2, <3>3 DEF ReqTypeOK
  <2>4. ended \in {"streamErr", "localStop", "readErr", "eof"}
    BY <1>1, <1>11 DEF Ended, ReqTypeOK, RInv, StreamInv, Places
  <2> QED
    BY <1>11, <2>2, <2>3, <2>4 DEF Ended
<1>12. CASE FinalError
  <2>1. UNCHANGED <<attempt, frames, request, acc, ended, cause, gone, base>>
    BY <1>12 DEF FinalError
  <2>2. CASE pc' = "return" /\ UNCHANGED <<resume, todo, writer>>
    BY <1>1, <2>1, <2>2 DEF ReqTypeOK
  <2>3. CASE Emit(<<"delta", "error">>, "closing")
    <3>1. writer' = After(writer, <<"delta", "error">>) /\ todo' = <<"delta", "error">>
          /\ pc' = "emit" /\ resume' = "closing"
      BY <2>3 DEF Emit
    <3>2. todo' \in Seq(Ops)
      <4>1. {"delta", "error"} \subseteq Ops
        BY DEF Ops, SseKinds
      <4> QED
        BY <3>1, <4>1
    <3>3. writer' \in [started : BOOLEAN, fired : BOOLEAN, err : BOOLEAN]
      BY <1>1, <3>1 DEF After, ReqTypeOK
    <3> QED
      BY <1>1, <2>1, <3>1, <3>2, <3>3 DEF ReqTypeOK
  <2> QED
    BY <1>12, <2>2, <2>3 DEF FinalError
<1> QED
  BY <1>2, <1>3, <1>4, <1>5, <1>6, <1>7, <1>8, <1>9, <1>10, <1>11, <1>12 DEF ReqNext, Handler

----------------------------------------------------------------------------
\* A socket write as the client sees it: n of the items, the last of them torn
\* if the socket failed in it.
Appended(items, n, code) ==
    /\ n \in 0..Len(items)
    /\ wire' \in Seq(Item) /\ Len(wire') = Len(wire) + n
    /\ \A i \in 1..Len(wire) : wire'[i] = wire[i]
    /\ \A i \in 1..n : wire'[Len(wire) + i] = items[i]
    /\ n = 0 => wire' = wire
    /\ committed' = (committed \/ n > 0)
    /\ n < Len(items) \/ torn' => firstErr'
    /\ torn' => n > 0
    /\ head' = IF head = NoHead /\ (n > 0 \/ code = "error")
               THEN [code |-> code, type |-> contentType'] ELSE head

\* Whose items they are.
Outgoing(items, code) ==
    \/ /\ promoted /\ promoted' /\ code = "ok"
       /\ UNCHANGED <<contentType, finalized>>
       /\ \E op \in SseKinds :
             /\ items = <<[kind |-> op, id |-> written + 1]>>
             /\ kept' = Append(kept, [kind |-> op, id |-> written + 1])
    \/ /\ ~promoted /\ promoted' /\ code = "ok"
       /\ UNCHANGED <<contentType, finalized, kept>>
       /\ items = kept
    \/ /\ promoted \/ committed
       /\ promoted' = promoted /\ contentType' = contentType /\ code = "ok"
       /\ ~finalizing /\ finalized' = TRUE
       /\ items = <<SseError>>
    \/ /\ ~promoted /\ ~promoted' /\ ~committed /\ code = "error"
       /\ ~finalizing /\ finalized' = TRUE
       /\ contentType' = "json"
       /\ items = <<JsonBody>>
    \/ /\ ~finalizing /\ hb = "select" /\ code = "ok"
       /\ UNCHANGED <<contentType, promoted, finalized, kept>>
       /\ items = <<KeepAlive>>

SendsNothing ==
    /\ UNCHANGED <<wire, torn, committed>>
    /\ \/ head' = head
       \/ head = NoHead /\ promoted' /\ ~finalized /\ head' = [code |-> "ok", type |-> contentType']
    /\ contentType' = contentType \/ contentType' = "sse"
    /\ finalized => finalized'

SendsItems ==
    /\ ~Unavailable
    /\ \E items \in Seq(Item), code \in {"ok", "error"} :
          /\ Outgoing(items, code)
          /\ \E n \in 0..Len(items) : Appended(items, n, code)

LEMMA AppendedBy ==
  ASSUME TypeOK, NEW items \in Seq(Item), NEW code \in {"ok", "error"},
         contentType' \in {"none", "sse", "json"}, SocketWrite(items, code)
  PROVE  \E n \in 0..Len(items) : Appended(items, n, code)
<1>1. /\ wire' \in Seq(Item) /\ torn' => firstErr'
      /\ \E n \in 0..Len(items) :
               /\ Len(wire') = Len(wire) + n
               /\ \A i \in 1..Len(wire) : wire'[i] = wire[i]
               /\ \A i \in 1..n : wire'[Len(wire) + i] = items[i]
               /\ committed' = (committed \/ n > 0)
               /\ n < Len(items) => firstErr'
               /\ n = 0 => wire' = wire
               /\ torn' => n > 0
               /\ head' = IF head = NoHead /\ (n > 0 \/ code = "error")
                          THEN [code |-> code, type |-> contentType'] ELSE head
  BY SocketWriteGrows
<1>2. torn' => firstErr'
  BY SocketWriteGrows
<1>3. wire' \in Seq(Item)
  BY SocketWriteGrows
<1> QED
  BY <1>1, <1>2, <1>3 DEF Appended

\* Every step of the session sends nothing or sends one of these.
LEMMA WireStep ==
  ASSUME IInv, DInv, SessionStep
  PROVE  SendsNothing \/ SendsItems
<1>1. TypeOK /\ written \in Nat /\ buf \in Seq(Item) /\ kept \in Seq(Item)
      /\ contentType \in {"none", "sse", "json"}
  BY DEF IInv, TypeOK
<1>2. ASSUME NEW op \in EventKinds, Write(op) PROVE SendsNothing \/ SendsItems
  <2> DEFINE item == [kind |-> op, id |-> written + 1]
  <2>1. item \in Item /\ <<item>> \in Seq(Item)
    BY <1>1 DEF Item
  <2>2. CASE ~promoted
    BY <1>2, <2>2 DEF Write, SendsNothing, socketVars
  <2>3. CASE promoted
    <3>1. /\ ~Unavailable /\ UNCHANGED <<contentType, finalized, promoted>>
          /\ kept' = Append(kept, item) /\ SocketWrite(<<item>>, "ok")
      BY <1>2, <2>3 DEF Write
    <3>2. \E n \in 0..Len(<<item>>) : Appended(<<item>>, n, "ok")
      BY <1>1, <2>1, <3>1, AppendedBy
    <3>3. Outgoing(<<item>>, "ok")
      BY <2>3, <3>1 DEF Outgoing
    <3> QED
      BY <2>1, <3>1, <3>2, <3>3 DEF SendsItems
  <2> QED
    BY <2>2, <2>3
<1>3. ASSUME Promote PROVE SendsNothing \/ SendsItems
  <2>1. /\ ~Unavailable /\ ~promoted /\ promoted' = TRUE
        /\ UNCHANGED <<contentType, finalized, kept>>
    BY <1>3 DEF Promote, SocketWriteFlush, historyVars
  <2>2. buf = kept /\ ~finalized
    BY <2>1 DEF DInv, HeldBack, Unavailable
  <2>3. CASE SocketWrite(buf, "ok")
    <3>1. \E n \in 0..Len(buf) : Appended(buf, n, "ok")
      BY <1>1, <2>1, <2>3, AppendedBy
    <3>2. Outgoing(buf, "ok")
      BY <2>1, <2>2 DEF Outgoing
    <3> QED
      BY <1>1, <2>1, <3>1, <3>2 DEF SendsItems
  <2>4. CASE ~SocketWrite(buf, "ok")
    <3>1. /\ UNCHANGED <<wire, torn, committed>>
          /\ head' = head \/ (head = NoHead /\ head' = [code |-> "ok", type |-> contentType])
      BY <1>3, <2>4 DEF Promote, SocketWriteFlush
    <3> QED
      BY <2>1, <2>2, <3>1 DEF SendsNothing
  <2> QED
    BY <2>3, <2>4
<1>4. ASSUME FinalErrorSSE PROVE SendsItems
  <2>1. /\ ~Unavailable /\ ~finalizing /\ (promoted \/ committed)
        /\ UNCHANGED <<contentType, promoted>> /\ finalized' = TRUE
        /\ SocketWrite(<<SseError>>, "ok")
    BY <1>4 DEF FinalErrorSSE, SocketWriteFlush
  <2>2. <<SseError>> \in Seq(Item)
    BY OwnItems
  <2>3. \E n \in 0..Len(<<SseError>>) : Appended(<<SseError>>, n, "ok")
    BY <1>1, <2>1, <2>2, AppendedBy
  <2>4. Outgoing(<<SseError>>, "ok")
    BY <2>1 DEF Outgoing
  <2> QED
    BY <2>1, <2>2, <2>3, <2>4 DEF SendsItems
<1>5. ASSUME FinalErrorJSON PROVE SendsItems
  <2>1. /\ ~Unavailable /\ ~finalizing /\ ~promoted /\ ~committed
        /\ contentType' = "json" /\ promoted' = promoted /\ finalized' = TRUE
        /\ SocketWrite(<<JsonBody>>, "error")
    BY <1>5 DEF FinalErrorJSON
  <2>2. <<JsonBody>> \in Seq(Item)
    BY OwnItems
  <2>3. \E n \in 0..Len(<<JsonBody>>) : Appended(<<JsonBody>>, n, "error")
    BY <1>1, <2>1, <2>2, AppendedBy
  <2>4. Outgoing(<<JsonBody>>, "error")
    BY <2>1 DEF Outgoing
  <2> QED
    BY <2>1, <2>2, <2>3, <2>4 DEF SendsItems
<1>6. ASSUME WriteKeepAlive PROVE SendsItems
  <2>1. /\ ~Unavailable /\ ~finalizing /\ hb = "select"
        /\ UNCHANGED <<contentType, promoted, finalized, kept>>
        /\ SocketWrite(<<KeepAlive>>, "ok")
    BY <1>6 DEF WriteKeepAlive, SocketWriteFlush, historyVars
  <2>2. <<KeepAlive>> \in Seq(Item)
    BY OwnItems
  <2>3. \E n \in 0..Len(<<KeepAlive>>) : Appended(<<KeepAlive>>, n, "ok")
    BY <1>1, <2>1, <2>2, AppendedBy
  <2>4. Outgoing(<<KeepAlive>>, "ok")
    BY <2>1 DEF Outgoing
  <2> QED
    BY <2>1, <2>2, <2>3, <2>4 DEF SendsItems
<1>7. ASSUME Flush PROVE SendsNothing
  <2>1. /\ UNCHANGED <<wire, torn, committed, contentType, finalized, promoted>> /\ promoted /\ ~finalized
        /\ head' = head \/ (head = NoHead /\ head' = [code |-> "ok", type |-> contentType])
    BY <1>7 DEF Flush, CanFlush, sessionVars
  <2> QED
    BY <2>1 DEF SendsNothing
<1>8. ASSUME SetSSEHeaders \/ Discard PROVE SendsNothing
  BY <1>8 DEF SetSSEHeaders, Discard, SendsNothing, socketVars
<1>9. ASSUME \/ Start \/ HeartbeatCheck \/ HeartbeatActivity \/ HeartbeatDone
             \/ KeepAliveRefused \/ StopCall \/ ClientGone
             \/ FinalErrorBegin \/ FinalErrorEnd \/ UNCHANGED vars
      PROVE  SendsNothing
  <2>1. UNCHANGED <<wire, torn, committed, head, contentType>> /\ (finalized => finalized')
    BY <1>9 DEF Start, HeartbeatCheck, HeartbeatActivity, HeartbeatDone, KeepAliveRefused,
         StopCall, StopFlag, StopSignal, StopJoin, ClientGone,
         FinalErrorBegin, FinalErrorEnd, vars, socketVars, sessionVars
  <2> QED
    BY <2>1 DEF SendsNothing
<1> QED
  BY <1>2, <1>3, <1>4, <1>5, <1>6, <1>7, <1>8, <1>9 DEF SessionStep

----------------------------------------------------------------------------
\* What reaches the wire is an event of this session, a keep-alive, or the one
\* item that ends it.
LEMMA OwnOnWireStep ==
  ASSUME IInv, DInv, OwnOnWire, SendsNothing \/ SendsItems
  PROVE  OwnOnWire'
<1>1. CASE SendsNothing
  BY <1>1 DEF SendsNothing, OwnOnWire
<1>2. CASE SendsItems
  <2>1. PICK items \in Seq(Item), code \in {"ok", "error"} :
          /\ Outgoing(items, code)
          /\ \E n \in 0..Len(items) : Appended(items, n, code)
    BY <1>2 DEF SendsItems
  <2>2. PICK n \in 0..Len(items) : Appended(items, n, code)
    BY <2>1
  <2>3. ~finalized /\ TypeOK
    BY <1>2 DEF SendsItems, Unavailable, IInv
  <2>4. /\ Len(wire) \in Nat /\ DOMAIN wire = 1..Len(wire) /\ Len(items) \in Nat
        /\ DOMAIN wire' = 1..(Len(wire) + n) /\ Len(wire') = Len(wire) + n
        /\ (wire = <<>> <=> Len(wire) = 0) /\ (wire' = <<>> <=> Len(wire) + n = 0)
    BY <2>2, <2>3, LenProperties, EmptySeq DEF Appended, TypeOK
  <2>5. committed' => wire' # <<>>
    <3>1. committed => Len(wire) # 0
      BY <2>4 DEF OwnOnWire
    <3>2. committed' => committed \/ n > 0
      BY <2>2 DEF Appended
    <3> QED
      BY <2>4, <3>1, <3>2
  <2>6. ASSUME NEW k \in 1..n
        PROVE  \/ Semantic(items[k]) /\ items[k].kind \in SseKinds
               \/ items[k] = KeepAlive
               \/ finalized' /\ n = 1 /\ items[k] \in {SseError, JsonBody}
    <3>1. CASE \E op \in SseKinds : items = <<[kind |-> op, id |-> written + 1]>>
      <4>1. PICK op \in SseKinds : items = <<[kind |-> op, id |-> written + 1]>>
        BY <3>1
      <4>2. k = 1 /\ items[k] = [kind |-> op, id |-> written + 1] /\ written + 1 > 0
        BY <2>3, <4>1 DEF TypeOK
      <4> QED
        BY <4>2 DEF Semantic
    <3>2. CASE ~promoted /\ items = kept
      <4>1. k \in DOMAIN kept /\ buf = kept
        BY <2>4, <3>2, LenProperties DEF DInv, HeldBack
      <4>2. kept[k].id \in 1..written /\ kept[k].kind \in EventKinds
        BY <4>1 DEF DInv, Numbered, IInv, BufferIsSemantic
      <4> QED
        BY <2>3, <3>2, <4>2 DEF Semantic, TypeOK
    <3>3. CASE finalized' = TRUE /\ items \in {<<SseError>>, <<JsonBody>>}
      <4>1. ASSUME NEW item, items = <<item>> PROVE n = 1 /\ items[k] = item
        <5>1. Len(items) = 1
          BY <4>1
        <5>2. n \in 0..1 /\ k \in 1..n
          BY <5>1
        <5> QED
          BY <4>1, <5>2
      <4> QED
        BY <3>3, <4>1
    <3>4. CASE items = <<KeepAlive>>
      BY <3>4
    <3> QED
      BY <2>1, <3>1, <3>2, <3>3, <3>4 DEF Outgoing
  <2>7. ASSUME NEW i \in DOMAIN wire'
        PROVE  \/ Semantic(wire'[i]) /\ wire'[i].kind \in SseKinds
               \/ wire'[i] = KeepAlive
               \/ finalized' /\ i = Len(wire') /\ wire'[i] \in {SseError, JsonBody}
    <3>1. CASE i \in 1..Len(wire)
      <4>1. wire'[i] = wire[i]
        BY <2>2, <3>1 DEF Appended
      <4> QED
        BY <2>3, <2>4, <3>1, <4>1 DEF OwnOnWire
    <3>2. CASE i \notin 1..Len(wire)
      <4>1. i - Len(wire) \in 1..n /\ i = Len(wire) + (i - Len(wire))
        BY <2>4, <3>2
      <4>2. wire'[i] = items[i - Len(wire)]
        BY <2>2, <4>1 DEF Appended
      <4>3. n = 1 => i = Len(wire')
        BY <2>4, <4>1
      <4> QED
        BY <2>6, <4>1, <4>2, <4>3
    <3> QED
      BY <3>1, <3>2
  <2> QED
    BY <2>5, <2>7 DEF OwnOnWire
<1> QED
  BY <1>1, <1>2

\* Until the headers are chosen nothing has been sent, and nothing is but by the
\* steps that choose them.
LEMMA UnsetStep ==
  ASSUME RInv, request.stream, [ReqNext]_allVars, contentType' = "none"
  PROVE  /\ pc' \in {"call", "headers", "final", "return", "done"}
         /\ hb' = "none" /\ ~promoted' /\ wire' = <<>> /\ head' = NoHead
<1>1. IInv /\ DInv /\ SessionStep /\ TypeOK
  BY StreamIsSessionStep DEF RInv, StreamInv
<1>2. contentType = "none"
  <2>1. SendsNothing \/ SendsItems
    BY <1>1, WireStep
  <2> QED
    BY <2>1 DEF SendsNothing, SendsItems, Outgoing
<1>3. /\ pc \in {"call", "headers", "final", "return", "done"}
      /\ hb = "none" /\ ~promoted /\ wire = <<>> /\ head = NoHead /\ ~committed
  BY <1>2 DEF RInv, StreamInv, Header, OwnOnWire
<1>4. CASE UNCHANGED <<pc, hb, promoted, wire, head>>
  BY <1>3, <1>4
<1>5. CASE HeartbeatStep
  BY <1>1, <1>3, <1>5, HeartbeatEffect DEF HeartbeatStep
<1>6. CASE ClientLeaves \/ UNCHANGED allVars
  <2>1. UNCHANGED <<pc, hb, promoted, wire, head>>
    BY <1>6 DEF ClientLeaves, ClientGone, allVars, reqVars, handlerVars, vars, socketVars, sessionVars
  <2> QED
    BY <1>4, <2>1
<1>7. CASE Call
  BY <1>3, <1>7 DEF Call, goto, vars, socketVars, sessionVars
<1>8. CASE SetHeaders
  <2>1. CanSetHeaders
    BY <1>2, <1>3, <1>8 DEF SetHeaders, CanSetHeaders, RInv, StreamInv, Places, Leaving
  <2> QED
    BY <1>8, <2>1 DEF SetHeaders, SetSSEHeaders
<1>9. CASE FinalError
  BY <1>3, <1>9 DEF FinalError, FinalErrorBegin, FinalErrorSSE, FinalErrorJSON, goto, vars,
                    socketVars, sessionVars
<1>10. CASE Return
  <2>1. StopFlag \/ StopSignal \/ StopJoin
    BY <1>10 DEF Return
  <2> QED
    BY <1>3, <1>10, <2>1 DEF Return, StopFlag, StopSignal, StopJoin, goto, socketVars, sessionVars
<1>11. ~Retry /\ ~EmitNext /\ ~EmitDone /\ ~StartHeartbeat /\ ~CheckContext /\ ~ParseEnds
  BY <1>3 DEF Retry, EmitNext, EmitDone, StartHeartbeat, CheckContext, ParseEnds
<1>12. ~ErrorFrame /\ ~ContentFrame /\ ~FrameHandled /\ ~Ended /\ ~Finished /\ ~FinalErrorClosed
  BY <1>3 DEF ErrorFrame, ContentFrame, FrameHandled, Ended, Finished, FinalErrorClosed
<1>13. ~CollectFrame /\ ~Collected /\ ~Reply /\ ~ReplyError
  BY <1>3 DEF CollectFrame, Collected, Reply, ReplyError
<1> QED
  BY <1>5, <1>6, <1>7, <1>8, <1>9, <1>10, <1>11, <1>12, <1>13 DEF ReqNext, Handler

\* The head is chosen with the first byte, and says what follows.
LEMMA HeaderStep ==
  ASSUME RInv, request.stream, [ReqNext]_allVars
  PROVE  Header'
<1>1. IInv /\ DInv /\ SessionStep /\ TypeOK /\ Header /\ OwnOnWire
  BY StreamIsSessionStep DEF RInv, StreamInv, IInv
<1>2. contentType' = "none" =>
          /\ pc' \in {"call", "headers", "final", "return", "done"}
          /\ hb' = "none" /\ ~promoted' /\ wire' = <<>> /\ head' = NoHead
  BY UnsetStep
<1>3. IInv'
  BY <1>1, SessionStepIInv
<1>4. contentType' \in {"none", "sse", "json"}
  BY <1>3 DEF IInv, TypeOK
<1>5. CASE SendsNothing
  <2>1. contentType' = "json" => finalized'
    BY <1>1, <1>5 DEF SendsNothing, Header
  <2>2. head' = head \/ (head' = [code |-> "ok", type |-> contentType'] /\ contentType' = "sse"
                           /\ head = NoHead)
    <3>1. contentType' = "json" => finalized
      BY <1>1, <1>5 DEF SendsNothing, Header
    <3> QED
      BY <1>2, <1>4, <1>5, <3>1 DEF SendsNothing
  <2>3. SseHead # NoHead /\ SseHead # JsonHead /\ NoHead # JsonHead
    BY DEF SseHead, NoHead, JsonHead
  <2>4. /\ head' \in {NoHead, SseHead, JsonHead}
        /\ wire' # <<>> => head' # NoHead
        /\ head' = JsonHead => finalized' /\ \A i \in DOMAIN wire' : wire'[i] = JsonBody
    BY <1>1, <1>5, <2>2, <2>3 DEF SendsNothing, Header, SseHead
  <2> QED
    BY <1>2, <2>1, <2>4 DEF Header
<1>6. CASE SendsItems
  <2>1. PICK items \in Seq(Item), code \in {"ok", "error"} :
          /\ Outgoing(items, code)
          /\ \E n \in 0..Len(items) : Appended(items, n, code)
    BY <1>6 DEF SendsItems
  <2>2. PICK n \in 0..Len(items) : Appended(items, n, code)
    BY <2>1
  <2>3. ~finalized /\ head # JsonHead
    BY <1>1, <1>6 DEF SendsItems, Unavailable, Header
  <2>4. SseHead # NoHead /\ SseHead # JsonHead /\ NoHead # JsonHead
    BY DEF SseHead, NoHead, JsonHead
  <2>5. contentType' = "json" => finalized'
    BY <1>1, <2>1, <2>3 DEF Outgoing, Header
  <2>6. /\ wire' # <<>> => wire # <<>> \/ n > 0
        /\ Len(wire) \in Nat /\ (wire = <<>> <=> Len(wire) = 0)
        /\ wire' \in Seq(Item) /\ Len(wire') = Len(wire) + n /\ DOMAIN wire' = 1..Len(wire')
    <3>1. wire \in Seq(Item) /\ wire' \in Seq(Item) /\ Len(wire') = Len(wire) + n
      BY <1>1, <2>2 DEF Appended, TypeOK
    <3> QED
      BY <2>2, <3>1, LenProperties, EmptySeq DEF Appended
  <2>7. CASE code = "ok"
    <3>1. contentType' = contentType /\ contentType # "json"
      BY <1>1, <2>1, <2>3, <2>7 DEF Outgoing, Header
    <3>2. n > 0 => wire' # <<>>
      BY <2>6, LenProperties
    <3>3. n > 0 /\ head = NoHead => head' = SseHead
      BY <1>2, <1>4, <2>2, <2>7, <3>1, <3>2 DEF Appended, SseHead
    <3>4. ~(n > 0 /\ head = NoHead) => head' = head
      BY <2>2, <2>7 DEF Appended
    <3> QED
      BY <1>1, <1>2, <2>3, <2>4, <2>5, <2>6, <3>3, <3>4 DEF Header
  <2>8. CASE code = "error"
    <3>1. /\ contentType' = "json" /\ finalized' = TRUE /\ items = <<JsonBody>>
          /\ ~committed /\ ~promoted
      BY <2>1, <2>8 DEF Outgoing
    <3>2. wire = <<>> /\ head = NoHead
      BY <1>1, <2>3, <3>1 DEF IInv, UntouchedUntilCommitted
    <3>3. head' = JsonHead
      BY <2>2, <2>8, <3>1, <3>2 DEF Appended, JsonHead
    <3>4. \A i \in DOMAIN wire' : wire'[i] = JsonBody
      <4>1. Len(items) = 1 /\ items[1] = JsonBody
        BY <3>1
      <4>2. Len(wire) = 0 /\ n \in 0..1
        BY <2>6, <3>2, <4>1
      <4>3. \A i \in DOMAIN wire' : i = Len(wire) + i /\ i \in 1..n /\ i = 1
        BY <2>6, <4>2
      <4>4. \A i \in 1..n : wire'[Len(wire) + i] = items[i]
        BY <2>2 DEF Appended
      <4> QED
        BY <4>1, <4>3, <4>4
    <3> QED
      BY <2>4, <3>1, <3>3, <3>4 DEF Header
  <2> QED
    BY <2>7, <2>8
<1> QED
  BY <1>1, <1>5, <1>6, WireStep

----------------------------------------------------------------------------
\* A promoted response whose socket worked has sent all that was kept, so if
\* that ends a message, or with an error, the client has its answer.
LEMMA Completed ==
  IInv /\ DInv /\ OwnOnWire /\ Header /\ promoted /\ ~firstErr /\ ~finalized
    /\ kept # <<>> /\ kept[Len(kept)].kind \in {"message_stop", "error"}
  => AnsweredInForm
<1> SUFFICES ASSUME IInv, DInv, OwnOnWire, Header, promoted, ~firstErr, ~finalized,
                    kept # <<>>, kept[Len(kept)].kind \in {"message_stop", "error"}
             PROVE  AnsweredInForm
  OBVIOUS
<1> DEFINE last == kept[Len(kept)]
<1>1. /\ kept \in Seq(Item) /\ Len(kept) \in Nat /\ DOMAIN kept = 1..Len(kept)
      /\ Len(kept) \in DOMAIN kept /\ last \in Item
      /\ wire \in Seq(Item) /\ Len(wire) \in Nat /\ DOMAIN wire = 1..Len(wire)
  <2>1. kept \in Seq(Item) /\ wire \in Seq(Item)
    BY DEF IInv, TypeOK
  <2>2. Len(kept) \in Nat /\ Len(kept) # 0
    BY <2>1, LenProperties, EmptySeq
  <2> QED
    BY <2>1, <2>2, LenProperties, ElementOfSeq
<1>2. Sent = {kept[k] : k \in 1..Len(kept)}
  BY DEF DInv, PassedOn
<1>3. /\ \A k \in DOMAIN kept : kept[k].id \in 1..written /\ written \in Nat
      /\ \A k, l \in DOMAIN kept :
            k < l /\ Semantic(kept[k]) /\ Semantic(kept[l]) => kept[k].id < kept[l].id
      /\ \A i, j \in DOMAIN wire :
            i < j /\ Semantic(wire[i]) /\ Semantic(wire[j]) => wire[i].id < wire[j].id
  BY DEF DInv, Numbered, InOrder, IInv, TypeOK
<1>4. \A k \in DOMAIN kept : Semantic(kept[k]) /\ kept[k].id <= last.id
  <2> SUFFICES ASSUME NEW k \in DOMAIN kept PROVE Semantic(kept[k]) /\ kept[k].id <= last.id
    OBVIOUS
  <2>1. kept[k].id \in 1..written /\ last.id \in 1..written /\ written \in Nat
    BY <1>1, <1>3
  <2>2. Semantic(kept[k]) /\ Semantic(last)
    BY <2>1 DEF Semantic
  <2>3. k = Len(kept) \/ k < Len(kept)
    BY <1>1
  <2>4. k < Len(kept) => kept[k].id < last.id
    BY <1>1, <1>3, <2>2
  <2> QED
    BY <2>1, <2>2, <2>3, <2>4
<1>5. PICK i \in DOMAIN wire : wire[i] = last
  <2>1. last \in Sent
    BY <1>1, <1>2
  <2> QED
    BY <2>1 DEF Sent, Range
<1>6. ASSUME NEW j \in DOMAIN wire, j > i PROVE wire[j] = KeepAlive
  <2>1. Semantic(wire[j]) \/ wire[j] = KeepAlive
    BY DEF OwnOnWire
  <2>2. CASE Semantic(wire[j])
    <3>1. wire[j] \in Sent
      BY <2>2 DEF Sent, Range
    <3>2. PICK k \in DOMAIN kept : wire[j] = kept[k]
      BY <1>1, <1>2, <3>1
    <3>3. wire[j].id <= last.id /\ last.id < wire[j].id
      BY <1>1, <1>3, <1>4, <1>5, <1>6, <2>2, <3>2
    <3>4. last.id \in Nat /\ wire[j].id \in Nat
      BY <1>1, <1>3, <3>2
    <3> QED
      BY <3>3, <3>4
  <2> QED
    BY <2>1, <2>2
<1>7. head = SseHead
  <2>1. wire # <<>>
    BY <1>5
  <2> QED
    BY <2>1 DEF Header
<1> QED
  BY <1>5, <1>6, <1>7 DEF AnsweredInForm, SseHead

\* Nothing takes an answer back.
LEMMA AnsweredStays ==
  ASSUME TypeOK, Header, AnsweredInForm,
         UNCHANGED <<wire, head>> \/ \E n \in 0..1 : Appended(<<KeepAlive>>, n, "ok")
  PROVE  AnsweredInForm'
<1>1. PICK i \in DOMAIN wire :
        /\ wire[i].kind \in {"message_stop", "error", "json"}
        /\ \A j \in DOMAIN wire : j > i => wire[j] = KeepAlive
        /\ wire[i].kind # "json" => head = [code |-> "ok", type |-> "sse"]
  BY DEF AnsweredInForm
<1>2. wire \in Seq(Item) /\ Len(wire) \in Nat /\ DOMAIN wire = 1..Len(wire)
  BY LenProperties DEF TypeOK
<1>3. CASE UNCHANGED <<wire, head>>
  BY <1>1, <1>3 DEF AnsweredInForm
<1>4. ASSUME NEW n \in 0..1, Appended(<<KeepAlive>>, n, "ok") PROVE AnsweredInForm'
  <2>1. /\ wire' \in Seq(Item) /\ Len(wire') = Len(wire) + n /\ DOMAIN wire' = 1..(Len(wire) + n)
        /\ \A k \in 1..Len(wire) : wire'[k] = wire[k]
        /\ \A k \in 1..n : wire'[Len(wire) + k] = <<KeepAlive>>[k]
    BY <1>4, LenProperties DEF Appended
  <2>2. head' = head
    <3>1. head # NoHead
      BY <1>1 DEF Header
    <3> QED
      BY <1>4, <3>1 DEF Appended
  <2>3. i \in DOMAIN wire' /\ wire'[i] = wire[i]
    BY <1>2, <2>1
  <2>4. ASSUME NEW j \in DOMAIN wire', j > i PROVE wire'[j] = KeepAlive
    <3>1. CASE j \in 1..Len(wire)
      BY <1>1, <1>2, <2>1, <2>4, <3>1
    <3>2. CASE j \notin 1..Len(wire)
      <4>1. n = 1 /\ j = Len(wire) + 1
        BY <1>2, <2>1, <3>2
      <4> QED
        BY <2>1, <4>1
    <3> QED
      BY <3>1, <3>2
  <2> QED
    BY <1>1, <2>2, <2>3, <2>4 DEF AnsweredInForm
<1> QED
  BY <1>3, <1>4

\* WriteFinalError's own item answers, if the socket takes it.
LEMMA FinalErrorAnswers ==
  ASSUME IInv, FinalErrorSSE \/ FinalErrorJSON, Header'
  PROVE  firstErr' \/ AnsweredInForm'
<1>1. TypeOK /\ wire \in Seq(Item) /\ Len(wire) \in Nat
  BY LenProperties DEF IInv, TypeOK
<1>2. ASSUME NEW item \in {SseError, JsonBody}, NEW code, NEW n \in 0..Len(<<item>>),
             Appended(<<item>>, n, code)
      PROVE  firstErr' \/ AnsweredInForm'
  <2>1. Len(<<item>>) = 1 /\ <<item>>[1] = item /\ item.kind \in {"error", "json"}
    BY DEF SseError, JsonBody
  <2>2. CASE n = 1
    <3>1. /\ wire' \in Seq(Item) /\ Len(wire') = Len(wire) + 1 /\ DOMAIN wire' = 1..(Len(wire) + 1)
          /\ wire'[Len(wire) + 1] = item
      BY <1>2, <2>1, <2>2, LenProperties DEF Appended
    <3>2. Len(wire) + 1 \in DOMAIN wire' /\ (\A j \in DOMAIN wire' : ~(j > Len(wire) + 1)) /\ wire' # <<>>
      BY <1>1, <3>1
    <3>3. item.kind # "json" => head' = [code |-> "ok", type |-> "sse"]
      <4>1. item.kind # "json" => item # JsonBody
        BY DEF JsonBody
      <4> QED
        BY <3>1, <3>2, <4>1 DEF Header, SseHead
    <3> QED
      BY <2>1, <3>1, <3>2, <3>3 DEF AnsweredInForm
  <2>3. CASE n # 1
    <3>1. n < Len(<<item>>)
      BY <2>1, <2>3
    <3> QED
      BY <1>2, <3>1 DEF Appended
  <2> QED
    BY <2>2, <2>3
<1>3. CASE FinalErrorSSE
  <2>1. SocketWrite(<<SseError>>, "ok") /\ contentType' \in {"none", "sse", "json"}
    BY <1>1, <1>3 DEF FinalErrorSSE, SocketWriteFlush, TypeOK
  <2>2. <<SseError>> \in Seq(Item)
    BY OwnItems
  <2>3. PICK n \in 0..Len(<<SseError>>) : Appended(<<SseError>>, n, "ok")
    BY <1>1, <2>1, <2>2, AppendedBy
  <2> QED
    BY <1>2, <2>3
<1>4. CASE FinalErrorJSON
  <2>1. SocketWrite(<<JsonBody>>, "error") /\ contentType' \in {"none", "sse", "json"}
    BY <1>4 DEF FinalErrorJSON
  <2>2. <<JsonBody>> \in Seq(Item)
    BY OwnItems
  <2>3. PICK n \in 0..Len(<<JsonBody>>) : Appended(<<JsonBody>>, n, "error")
    BY <1>1, <2>1, <2>2, AppendedBy
  <2> QED
    BY <1>2, <2>3
<1> QED
  BY <1>3, <1>4

\* The handler leaves with an answer sent, or with nobody to send it to.
LEMMA LeavingStep ==
  ASSUME RInv, request.stream, [ReqNext]_allVars, Leaving
  PROVE  Outcome'
<1>1. IInv /\ TypeOK /\ Header /\ (gone \/ firstErr \/ AnsweredInForm)
  BY DEF RInv, StreamInv, IInv, Outcome
<1>2. ASSUME gone => gone', firstErr => firstErr',
             UNCHANGED <<wire, head>> \/ \E n \in 0..1 : Appended(<<KeepAlive>>, n, "ok")
      PROVE  Outcome'
  BY <1>1, <1>2, AnsweredStays DEF Outcome
<1>3. CASE HeartbeatStep
  <2>1. UNCHANGED gone /\ Heartbeat
    BY <1>3 DEF HeartbeatStep, reqVars
  <2>2. firstErr => firstErr'
    BY <1>1, <2>1, HeartbeatEffect
  <2>3. CASE WriteKeepAlive
    <3>1. SocketWrite(<<KeepAlive>>, "ok") /\ contentType' \in {"none", "sse", "json"}
      BY <1>1, <2>3 DEF WriteKeepAlive, SocketWriteFlush, TypeOK
    <3>2. <<KeepAlive>> \in Seq(Item) /\ Len(<<KeepAlive>>) = 1
      BY OwnItems
    <3>3. PICK n \in 0..Len(<<KeepAlive>>) : Appended(<<KeepAlive>>, n, "ok")
      BY <1>1, <3>1, <3>2, AppendedBy
    <3>4. n \in 0..1
      BY <3>2
    <3> QED
      BY <1>2, <2>1, <2>2, <3>3, <3>4
  <2>4. CASE HeartbeatCheck \/ HeartbeatActivity \/ HeartbeatDone \/ KeepAliveRefused
    <3>1. UNCHANGED <<wire, head>>
      BY <2>4 DEF HeartbeatCheck, HeartbeatActivity, HeartbeatDone, KeepAliveRefused, socketVars
    <3> QED
      BY <1>2, <2>1, <2>2, <3>1
  <2> QED
    BY <2>1, <2>3, <2>4 DEF Heartbeat
<1>4. CASE ClientLeaves \/ UNCHANGED allVars
  <2>1. UNCHANGED <<wire, head, firstErr>> /\ (gone => gone')
    BY <1>4 DEF ClientLeaves, ClientGone, allVars, reqVars, vars, socketVars
  <2> QED
    BY <1>2, <2>1
<1>5. CASE Return
  <2>1. StopFlag \/ StopSignal \/ StopJoin
    BY <1>5 DEF Return
  <2>2. UNCHANGED <<wire, head, firstErr, gone>>
    BY <1>5, <2>1 DEF Return, StopFlag, StopSignal, StopJoin, socketVars
  <2> QED
    BY <1>2, <2>2
<1> USE DEF Leaving
<1>6. ~Retry /\ ~EmitNext /\ ~EmitDone /\ ~StartHeartbeat /\ ~CheckContext /\ ~ParseEnds
        /\ ~Call /\ ~SetHeaders /\ ~FinalError
  BY DEF Retry, EmitNext, EmitDone, StartHeartbeat, CheckContext, ParseEnds, Call, SetHeaders, FinalError
<1>7. ~ErrorFrame /\ ~ContentFrame /\ ~FrameHandled /\ ~Ended /\ ~Finished /\ ~FinalErrorClosed
  BY DEF ErrorFrame, ContentFrame, FrameHandled, Ended, Finished, FinalErrorClosed
<1>8. ~CollectFrame /\ ~Collected /\ ~Reply /\ ~ReplyError
  BY DEF CollectFrame, Collected, Reply, ReplyError
<1> QED
  BY <1>3, <1>4, <1>5, <1>6, <1>7, <1>8 DEF ReqNext, Handler

LEMMA DepartureStep ==
  ASSUME RInv, request.stream, [ReqNext]_allVars, ~Leaving, Leaving',
         IInv', DInv', OwnOnWire', Header'
  PROVE  Outcome'
<1>1. /\ IInv /\ DInv /\ TypeOK /\ ReqTypeOK /\ Header /\ OwnOnWire /\ FailuresLatch
      /\ Places /\ Refusals /\ ClosingOnce /\ Erring
      /\ ~Stopped /\ ~finalized
  BY DEF RInv, StreamInv, IInv, Places
<1>2. Unavailable => gone \/ firstErr
  BY <1>1 DEF Unavailable, Refusals
<1>3. CASE pc = "ended" /\ Ended
  <2>1. UNCHANGED <<vars, gone>> /\ (writer.err \/ firstErr \/ cancelled)
    BY <1>1, <1>3 DEF Ended, Emit, goto, Leaving, Places, ReqTypeOK
  <2>2. UNCHANGED <<firstErr, gone>> /\ (gone \/ firstErr)
    BY <1>1, <2>1 DEF Refusals, vars, socketVars
  <2> QED
    BY <2>2 DEF Outcome
<1>4. CASE pc = "finished" /\ Finished
  <2>1. UNCHANGED gone /\ (UNCHANGED vars \/ Promote)
    BY <1>4 DEF Finished
  <2>2. CASE gone \/ writer.err \/ Unavailable
    <3>1. gone \/ firstErr
      BY <1>1, <1>2, <2>2 DEF Refusals
    <3>2. ~Promote \/ ~firstErr
      BY DEF Promote, Unavailable
    <3> QED
      BY <2>1, <3>1, <3>2 DEF Outcome, vars, socketVars
  <2>3. CASE ~gone /\ ~writer.err /\ ~Unavailable
    <3>1. kept # <<>> /\ kept[Len(kept)].kind = "message_stop"
      BY <1>1, <1>4, <2>3 DEF ClosingOnce, Completing, WillEndWith, Unavailable, Places
    <3>2. CASE UNCHANGED vars
      <4>1. promoted
        <5>1. pc' # "retry" /\ UNCHANGED promoted
          BY <3>2 DEF Leaving, vars, sessionVars
        <5>2. Promote => promoted' = TRUE
          BY DEF Promote
        <5> QED
          BY <1>4, <2>3, <5>1, <5>2 DEF Finished, goto
      <4>2. AnsweredInForm
        BY <1>1, <2>3, <3>1, <4>1, Completed DEF Unavailable
      <4>3. UNCHANGED <<wire, head>>
        BY <3>2 DEF vars, socketVars
      <4> QED
        BY <1>1, <4>2, <4>3, AnsweredStays DEF Outcome
    <3>3. CASE Promote
      <4>1. UNCHANGED <<kept, finalized>> /\ promoted' = TRUE /\ firstErr' \in BOOLEAN
        BY <1>1, <3>3, PromoteEffect
      <4>2. CASE firstErr'
        BY <4>2 DEF Outcome
      <4>3. CASE ~firstErr'
        <5>1. kept' # <<>> /\ kept'[Len(kept')].kind \in {"message_stop", "error"} /\ ~finalized'
          BY <1>1, <3>1, <4>1
        <5>2. (IInv /\ DInv /\ OwnOnWire /\ Header /\ promoted /\ ~firstErr /\ ~finalized
                 /\ kept # <<>> /\ kept[Len(kept)].kind \in {"message_stop", "error"}
               => AnsweredInForm)'
          BY Completed, PTL
        <5> QED
          BY <4>1, <4>3, <5>1, <5>2 DEF Outcome
      <4> QED
        BY <4>2, <4>3
    <3> QED
      BY <2>1, <3>2, <3>3
  <2> QED
    BY <2>2, <2>3
<1>5. CASE pc = "closing" /\ FinalErrorClosed
  <2>1. UNCHANGED <<gone, firstErr, wire, head>>
    BY <1>5 DEF FinalErrorClosed, FinalErrorEnd, socketVars
  <2>2. promoted
    BY <1>1, <1>5 DEF FinalErrorClosed, FinalErrorEnd, IInv, Finalization
  <2>3. gone \/ firstErr \/ (kept # <<>> /\ kept[Len(kept)].kind = "error")
    BY <1>1, <1>5 DEF Erring, Closing, WillEndWith, Places
  <2>4. gone \/ firstErr \/ AnsweredInForm
    BY <1>1, <2>2, <2>3, Completed
  <2> QED
    BY <1>1, <2>1, <2>4, AnsweredStays DEF Outcome
<1>6. CASE pc = "final" /\ FinalError
  <2>1. UNCHANGED gone
    BY <1>6 DEF FinalError
  <2>2. CASE Unavailable /\ UNCHANGED vars
    BY <1>2, <2>1, <2>2 DEF Outcome, vars, socketVars
  <2>3. CASE FinalErrorSSE \/ FinalErrorJSON
    BY <1>1, <2>3, FinalErrorAnswers DEF Outcome
  <2> QED
    BY <1>6, <2>2, <2>3 DEF FinalError, Emit, goto, Leaving
<1> USE DEF Leaving
<1>7. CASE HeartbeatStep \/ ClientLeaves \/ UNCHANGED allVars
  <2>1. UNCHANGED pc
    BY <1>7 DEF HeartbeatStep, ClientLeaves, allVars, reqVars, handlerVars
  <2> QED
    BY <2>1
<1>8. CASE EmitNext \/ EmitDone \/ Call \/ SetHeaders \/ StartHeartbeat \/ CheckContext \/ ParseEnds
             \/ ErrorFrame \/ ContentFrame \/ FrameHandled \/ CollectFrame \/ Retry \/ Collected
  <2>1. resume \notin {"return", "done"}
    BY <1>1 DEF ReqTypeOK
  <2>2. CASE EmitNext \/ EmitDone \/ Call \/ SetHeaders \/ StartHeartbeat
    BY <2>1, <2>2 DEF EmitNext, EmitDone, Call, SetHeaders, StartHeartbeat, goto
  <2>3. CASE CheckContext \/ ParseEnds \/ ErrorFrame \/ FrameHandled \/ Retry \/ CollectFrame
    BY <2>3 DEF CheckContext, ParseEnds, ErrorFrame, FrameHandled, Retry, CollectFrame, EndParse, goto
  <2>4. CASE ContentFrame
    BY <2>4 DEF ContentFrame, EndParse, Emit, goto
  <2>5. CASE Collected
    BY <2>5 DEF Collected
  <2> QED
    BY <1>8, <2>2, <2>3, <2>4, <2>5
<1>9. ~Return /\ ~Reply /\ ~ReplyError
  BY <1>1 DEF Return, Reply, ReplyError, Places
<1>10. \/ (pc = "ended" /\ Ended) \/ (pc = "finished" /\ Finished)
       \/ (pc = "closing" /\ FinalErrorClosed) \/ (pc = "final" /\ FinalError)
       \/ HeartbeatStep \/ ClientLeaves \/ UNCHANGED allVars
       \/ EmitNext \/ EmitDone \/ Call \/ SetHeaders \/ StartHeartbeat \/ CheckContext \/ ParseEnds
       \/ ErrorFrame \/ ContentFrame \/ FrameHandled \/ CollectFrame \/ Retry \/ Collected
  BY <1>9 DEF ReqNext, Handler, Ended, Finished, FinalErrorClosed, FinalError
<1> QED
  BY <1>3, <1>4, <1>5, <1>6, <1>7, <1>8, <1>10

LEMMA StreamStep ==
  ASSUME RInv, request.stream, [ReqNext]_allVars
  PROVE  StreamInv' /\ TypeOK' /\ request' = request
<1>1. IInv /\ DInv /\ SessionStep /\ UNCHANGED request /\ OwnOnWire
  BY StreamIsSessionStep DEF RInv, StreamInv
<1>2. IInv' /\ DInv'
  BY <1>1, SessionStepIInv, SessionStepDInv
<1>3. OwnOnWire' /\ Header'
  BY <1>1, WireStep, OwnOnWireStep, HeaderStep
<1>4. Ctl'
  BY StreamCtl
<1>5. Outcome'
  <2>1. CASE Leaving
    BY <2>1, LeavingStep
  <2>2. CASE ~Leaving /\ Leaving'
    BY <1>2, <1>3, <2>2, DepartureStep
  <2>3. CASE ~Leaving'
    BY <2>3 DEF Outcome
  <2> QED
    BY <2>1, <2>2, <2>3
<1> QED
  BY <1>1, <1>2, <1>3, <1>4, <1>5 DEF StreamInv, Ctl, IInv

----------------------------------------------------------------------------
\* A request that is not streamed: nothing of the session moves but the one
\* write that answers.
LEMMA BodyWritten ==
  ASSUME TypeOK, wire = <<>>, head = NoHead, NEW code \in {"ok", "error"}, WriteBody(code)
  PROVE  /\ TypeOK'
         /\ \/ wire' = <<>> /\ ~torn' /\ firstErr'
            \/ wire' = <<JsonBody>> /\ head' = [code |-> code, type |-> "json"] /\ (torn' => firstErr')
<1>1. /\ contentType' = "json" /\ SocketWrite(<<JsonBody>>, code)
      /\ UNCHANGED <<buf, promoted, finalizing, finalized, pendingFlush, activity, hb, stop,
                     written, kept>>
  BY DEF WriteBody, historyVars
<1>2. <<JsonBody>> \in Seq(Item) /\ Len(<<JsonBody>>) = 1 /\ <<JsonBody>>[1] = JsonBody
  BY OwnItems
<1>3. /\ wire' \in Seq(Item) /\ head' \in Heads
      /\ torn' \in BOOLEAN /\ committed' \in BOOLEAN
      /\ firstErr' \in BOOLEAN /\ cancelled' \in BOOLEAN
  BY <1>1, <1>2, SocketWriteGrows
<1>4. TypeOK'
  BY <1>1, <1>3 DEF TypeOK
<1>5. PICK n \in 0..1 : Appended(<<JsonBody>>, n, code)
  BY <1>1, <1>2, AppendedBy
<1>6. Len(wire) = 0
  OBVIOUS
<1>7. CASE n = 0
  BY <1>2, <1>3, <1>4, <1>5, <1>7 DEF Appended
<1>8. CASE n = 1
  <2>1. Len(wire') = 1 /\ wire'[1] = JsonBody
    BY <1>2, <1>5, <1>6, <1>8 DEF Appended
  <2>2. wire' = <<JsonBody>>
    BY <1>2, <1>3, <2>1, SeqEqual
  <2> QED
    BY <1>1, <1>4, <1>5, <1>8, <2>2 DEF Appended
<1> QED
  BY <1>7, <1>8

LEMMA PlainStep ==
  ASSUME RInv, ~request.stream, [ReqNext]_allVars
  PROVE  PlainInv' /\ TypeOK' /\ request' = request
<1>1. PlainInv /\ TypeOK /\ ReqTypeOK
  BY DEF RInv
<1> USE DEF goto
<1>2. ASSUME UNCHANGED vars, UNCHANGED <<todo, request>>,
             pc' \in {"call", "parse", "read", "ended", "retry", "final", "reply", "return", "done"},
             Leaving' <=> Leaving
      PROVE  PlainInv' /\ TypeOK' /\ request' = request
  <2>1. UNCHANGED <<wire, torn, head, committed, firstErr, cancelled, contentType, buf, promoted,
                    finalizing, finalized, pendingFlush, activity, hb, stop, written, kept>>
    BY <1>2 DEF vars, socketVars, sessionVars, historyVars
  <2>2. TypeOK'
    BY <1>1, <2>1 DEF TypeOK
  <2>3. PlainInv'
    BY <1>1, <1>2, <2>1 DEF PlainInv, Leaving
  <2> QED
    BY <1>2, <2>2, <2>3
<1>3. ~HeartbeatStep
  BY <1>1 DEF PlainInv, HeartbeatStep, Heartbeat, HeartbeatCheck, HeartbeatActivity, HeartbeatDone,
              WriteKeepAlive, KeepAliveRefused
<1>4. CASE ClientLeaves
  <2>1. /\ UNCHANGED <<wire, torn, head, committed, firstErr, contentType, buf, promoted,
                       finalizing, finalized, pendingFlush, activity, hb, stop, written, kept>>
        /\ cancelled' = TRUE
        /\ UNCHANGED <<pc, todo, request>>
    BY <1>4 DEF ClientLeaves, ClientGone, sessionVars, historyVars, handlerVars
  <2>2. TypeOK'
    BY <1>1, <2>1 DEF TypeOK
  <2>3. PlainInv'
    BY <1>1, <2>1 DEF PlainInv, Leaving
  <2> QED
    BY <2>1, <2>2, <2>3
<1>5. CASE UNCHANGED allVars
  <2>1. UNCHANGED vars /\ UNCHANGED <<pc, todo, request>>
    BY <1>5 DEF allVars, reqVars, handlerVars
  <2> QED
    BY <1>1, <1>2, <2>1 DEF PlainInv, Leaving
<1>6. CASE Call \/ CheckContext \/ ParseEnds \/ ErrorFrame \/ CollectFrame \/ Collected \/ Retry
  <2>1. UNCHANGED vars /\ UNCHANGED <<todo, request>>
    BY <1>6 DEF Call, CheckContext, ParseEnds, ErrorFrame, CollectFrame, Collected, Retry
  <2>2. /\ pc' \in {"call", "parse", "read", "ended", "retry", "final", "reply"}
    BY <1>6 DEF Call, CheckContext, ParseEnds, ErrorFrame, CollectFrame, Collected, Retry, EndParse
  <2>3. ~Leaving
    BY <1>6 DEF Call, CheckContext, ParseEnds, ErrorFrame, CollectFrame, Collected, Retry, Leaving
  <2> QED
    BY <1>2, <2>1, <2>2, <2>3 DEF Leaving
<1>7. CASE Reply \/ ReplyError
  <2>1. PICK code \in {"ok", "error"} : WriteBody(code)
    BY <1>7 DEF Reply, ReplyError
  <2>2. /\ pc' = "return" /\ UNCHANGED <<todo, request>> /\ ~Leaving
    BY <1>7 DEF Reply, ReplyError, Leaving
  <2>3. wire = <<>> /\ head = NoHead
    BY <1>1, <2>2 DEF PlainInv
  <2>4. /\ TypeOK'
        /\ \/ wire' = <<>> /\ ~torn' /\ firstErr'
           \/ wire' = <<JsonBody>> /\ head' = [code |-> code, type |-> "json"] /\ (torn' => firstErr')
    BY <1>1, <2>1, <2>3, BodyWritten
  <2>5. UNCHANGED <<hb, stop, buf, kept, promoted, finalizing, finalized>>
    BY <2>1 DEF WriteBody, historyVars
  <2>6. Leaving'
    BY <2>2 DEF Leaving
  <2>7. /\ wire' = <<>> \/ (wire' = <<JsonBody>> /\ head' \in [code : {"ok", "error"}, type : {"json"}])
        /\ wire' = <<>> => ~torn'
        /\ firstErr' \/ (wire' = <<JsonBody>> /\ ~torn')
    BY <2>4
  <2> QED
    BY <1>1, <2>2, <2>4, <2>5, <2>6, <2>7 DEF PlainInv
<1>8. CASE Return
  <2>1. UNCHANGED vars /\ UNCHANGED <<todo, request>> /\ pc' = "done" /\ Leaving
    BY <1>8 DEF Return, Leaving
  <2> QED
    BY <1>2, <2>1 DEF Leaving
<1>9. ~EmitNext /\ ~EmitDone /\ ~SetHeaders /\ ~StartHeartbeat /\ ~ContentFrame /\ ~FrameHandled
  BY <1>1 DEF PlainInv, EmitNext, EmitDone, SetHeaders, StartHeartbeat, ContentFrame, FrameHandled
<1>10. ~Ended /\ ~Finished /\ ~FinalError /\ ~FinalErrorClosed
  BY <1>1 DEF PlainInv, Ended, Finished, FinalError, FinalErrorClosed
<1> QED
  BY <1>3, <1>4, <1>5, <1>6, <1>7, <1>8, <1>9, <1>10 DEF ReqNext, Handler

----------------------------------------------------------------------------
LEMMA ReqInitRInv == ReqInit => RInv
<1> SUFFICES ASSUME ReqInit PROVE RInv
  OBVIOUS
<1>1. IInv /\ DInv /\ TypeOK
  BY InitIInv, InitDInv DEF ReqInit, IInv
<1>2. ReqTypeOK
  <2>1. <<>> \in Seq(Ops)
    OBVIOUS
  <2>2. acc \in Accumulators
    BY DEF ReqInit, NewAcc, Accumulators
  <2> QED
    BY <2>1, <2>2 DEF ReqInit, ReqTypeOK, Labels, NewWriter
<1> USE DEF ReqInit, Init
<1>3. \A kind : ~Kept(kind) /\ ~Due(kind)
  BY DEF Kept, Due
<1>4. Places /\ Refusals /\ ThisAttempt
  BY DEF Places, Refusals, ThisAttempt, Leaving, Closing, Stopped, NewWriter
<1>5. Opening /\ ClosingOnce /\ Erring
  BY <1>3 DEF Opening, ClosingOnce, Erring, OpensFirst, Leaving, Completing, Closing, NewWriter
<1>6. OwnOnWire /\ Header /\ Outcome
  <2>1. DOMAIN wire = {}
    OBVIOUS
  <2>2. OwnOnWire /\ Outcome
    BY <2>1 DEF OwnOnWire, Outcome, Leaving
  <2>3. Header
    BY <2>1 DEF Header, JsonHead, NoHead
  <2> QED
    BY <2>2, <2>3
<1>7. PlainInv
  BY DEF PlainInv, Leaving
<1> QED
  BY <1>1, <1>2, <1>4, <1>5, <1>6, <1>7 DEF RInv, StreamInv

LEMMA RInvStep == RInv /\ [ReqNext]_allVars => RInv'
<1> SUFFICES ASSUME RInv, [ReqNext]_allVars PROVE RInv'
  OBVIOUS
<1>1. ReqTypeOK'
  BY ReqTypeStep
<1>2. CASE request.stream
  BY <1>1, <1>2, StreamStep DEF RInv
<1>3. CASE ~request.stream
  BY <1>1, <1>3, PlainStep DEF RInv
<1> QED
  BY <1>2, <1>3

\* The inductive invariant of a request, streamed or not.
THEOREM RequestInvariance == ReqSpec => []RInv
  BY ReqInitRInv, RInvStep, PTL DEF ReqSpec

\* The handler's variables always have the values its code can give them, and
\* the session's, which its calls change, keep theirs.
THEOREM RequestTypeOK == ReqSpec => [](ReqTypeOK /\ TypeOK)
  BY RequestInvariance, PTL DEF RInv

\* However often executeRetry calls the upstream, the client sees events of one
\* attempt: what is kept is of the present attempt and, once promoted, all that
\* was sent was kept; until then nothing was sent.
THEOREM RequestOneAttemptShown == ReqSpec => []OneAttemptShown
<1>1. RInv => OneAttemptShown
  <2> SUFFICES ASSUME RInv, NEW i \in DOMAIN wire, Semantic(wire[i])
               PROVE  wire[i].id > base
    BY DEF OneAttemptShown
  <2>1. CASE request.stream
    <3>1. IInv /\ DInv /\ ThisAttempt /\ wire[i] \in Sent
      BY <2>1 DEF RInv, StreamInv, Sent, Range
    <3>2. Len(kept) \in Nat /\ DOMAIN kept = 1..Len(kept)
      BY <3>1, LenProperties DEF IInv, TypeOK
    <3>3. promoted
      BY <3>1 DEF DInv, HeldBack
    <3>4. PICK n \in 0..Len(kept) : Sent = {kept[k] : k \in 1..n}
      BY <3>1, <3>3 DEF DInv, PassedOn
    <3>5. PICK k \in DOMAIN kept : wire[i] = kept[k]
      BY <3>1, <3>2, <3>4
    <3> QED
      BY <3>1, <3>5 DEF ThisAttempt
  <2>2. CASE ~request.stream
    <3>1. wire = <<JsonBody>>
      BY <2>2 DEF RInv, PlainInv
    <3>2. DOMAIN <<JsonBody>> = {1} /\ <<JsonBody>>[1] = JsonBody
      OBVIOUS
    <3>3. wire[i] = JsonBody
      BY <3>1, <3>2
    <3> QED
      BY <3>3 DEF Semantic, JsonBody
  <2> QED
    BY <2>1, <2>2
<1> QED
  BY <1>1, RequestInvariance, PTL

\* A request whose client stayed and whose socket worked is answered in its
\* form before the handler is gone: by a message, an SSE error or a JSON body.
THEOREM RequestAnswered == ReqSpec => []Answered
<1>1. RInv => Answered
  <2> SUFFICES ASSUME RInv, pc = "done", ~gone, ~firstErr
               PROVE  /\ AnsweredInForm
                      /\ ~request.stream => Len(wire) = 1 /\ head.type = "json"
    BY DEF Answered
  <2>1. CASE request.stream
    BY <2>1 DEF RInv, StreamInv, Outcome, Leaving
  <2>2. CASE ~request.stream
    <3>1. wire = <<JsonBody>> /\ head \in [code : {"ok", "error"}, type : {"json"}]
      BY <2>2 DEF RInv, PlainInv, Leaving
    <3>2. DOMAIN <<JsonBody>> = {1} /\ <<JsonBody>>[1] = JsonBody /\ Len(<<JsonBody>>) = 1
      OBVIOUS
    <3> QED
      BY <3>1, <3>2 DEF AnsweredInForm, JsonBody
  <2> QED
    BY <2>1, <2>2
<1> QED
  BY <1>1, RequestInvariance, PTL

----------------------------------------------------------------------------
\* The shape of what is kept and of what is left to write: the message is
\* opened by the first item and by no other, and whatever closes it, message_stop
\* or an error, is the last.
Closers == {"message_stop", "error"}

EndsLast(ops) == \A i \in DOMAIN ops : ops[i] \in Closers => i = Len(ops)

Shape ==
    /\ EndsLast(todo)
    /\ \A k \in DOMAIN kept :
          /\ kept[k].kind = "message_start" <=> k = 1
          /\ kept[k].kind \in Closers => k = Len(kept) /\ todo \in {<<>>, <<"flush">>}
    /\ (Due("message_start") \/ ~writer.started) /\ ~Leaving => kept = <<>>

\* A closer behind operations that hold none is the last.
LEMMA EndsLastBehind ==
  ASSUME NEW s \in Seq(Ops), NEW t \in Seq(Ops), \A i \in DOMAIN s : s[i] \notin Closers, EndsLast(t)
  PROVE  s \o t \in Seq(Ops) /\ EndsLast(s \o t)
<1>1. /\ s \o t \in Seq(Ops) /\ Len(s \o t) = Len(s) + Len(t)
      /\ \A i \in 1..Len(s) + Len(t) :
            (s \o t)[i] = IF i <= Len(s) THEN s[i] ELSE t[i - Len(s)]
  BY ConcatProperties
<1>2. /\ Len(s) \in Nat /\ Len(t) \in Nat /\ DOMAIN s = 1..Len(s) /\ DOMAIN t = 1..Len(t)
      /\ DOMAIN (s \o t) = 1..(Len(s) + Len(t))
  BY <1>1, LenProperties
<1>3. ASSUME NEW i \in 1..(Len(s) + Len(t)), (s \o t)[i] \in Closers PROVE i = Len(s) + Len(t)
  <2>1. ~(i <= Len(s))
    BY <1>1, <1>2, <1>3
  <2>2. i - Len(s) \in 1..Len(t) /\ t[i - Len(s)] \in Closers
    BY <1>1, <1>2, <1>3, <2>1
  <2>3. i - Len(s) = Len(t)
    BY <1>2, <2>2 DEF EndsLast
  <2> QED
    BY <1>2, <2>3
<1> QED
  BY <1>1, <1>2, <1>3 DEF EndsLast

LEMMA FinishEndsLast ==
  ASSUME NEW w \in [started : BOOLEAN, fired : BOOLEAN, err : BOOLEAN], NEW a
  PROVE  EndsLast(Finish(w, a))
<1> DEFINE held == IF a.held THEN FireVisible(w) \o <<"delta">> ELSE <<>>
<1>1. /\ <<"delta">> \in Seq(Ops) /\ <<"message_stop">> \in Seq(Ops) /\ <<>> \in Seq(Ops)
      /\ EnsureStarted(w) \in Seq(Ops) /\ FireVisible(w) \in Seq(Ops)
  <2>1. {"delta", "message_stop", "message_start"} \subseteq Ops /\ <<>> \in Seq(Ops)
    BY DEF Ops, SseKinds
  <2> QED
    BY <2>1, OneOp, FireOps DEF EnsureStarted
<1>2. held \in Seq(Ops) /\ \A i \in DOMAIN held : held[i] \notin Closers
  <2>1. \A i \in DOMAIN <<"delta">> : <<"delta">>[i] = "delta"
    OBVIOUS
  <2>2. /\ FireVisible(w) \o <<"delta">> \in Seq(Ops)
        /\ \A i \in DOMAIN (FireVisible(w) \o <<"delta">>) :
              (FireVisible(w) \o <<"delta">>)[i] \in {"promote", "delta"}
    BY <1>1, <2>1, FireOps, Concatenation
  <2> QED
    BY <1>1, <2>2 DEF Closers
<1> HIDE DEF held
<1>3. \A i \in DOMAIN EnsureStarted(w) : EnsureStarted(w)[i] \notin Closers
  BY DEF EnsureStarted, Closers
<1>4. /\ EnsureStarted(w) \o held \in Seq(Ops)
      /\ \A i \in DOMAIN (EnsureStarted(w) \o held) : (EnsureStarted(w) \o held)[i] \notin Closers
  BY <1>1, <1>2, <1>3, Concatenation
<1>5. EndsLast(<<"message_stop">>)
  BY DEF EndsLast
<1>6. EndsLast((EnsureStarted(w) \o held) \o <<"message_stop">>)
  BY <1>1, <1>4, <1>5, EndsLastBehind
<1> QED
  BY <1>6 DEF Finish, held

\* The operations of a frame, alone and with the end of the message.
LEMMA FrameEndsLast ==
  ASSUME NEW w \in [started : BOOLEAN, fired : BOOLEAN, err : BOOLEAN], NEW kind \in FrameKinds, NEW a
  PROVE  /\ EndsLast(Shown(w, kind))
         /\ EndsLast(Shown(w, kind) \o Finish(After(w, Shown(w, kind)), a))
<1> DEFINE s == Shown(w, kind)
           w2 == After(w, s)
<1>1. s \in Seq(Ops) /\ \A i \in DOMAIN s : s[i] \notin Closers
  BY ShownOps DEF Closers
<1> HIDE DEF s
<1>2. w2 \in [started : BOOLEAN, fired : BOOLEAN, err : BOOLEAN]
  BY DEF After, Range
<1> HIDE DEF w2
<1>3. Finish(w2, a) \in Seq(Ops) /\ EndsLast(Finish(w2, a))
  BY <1>2, FinishOps, FinishEndsLast
<1>4. EndsLast(s) /\ EndsLast(s \o Finish(w2, a))
  BY <1>1, <1>3, EndsLastBehind DEF EndsLast
<1> QED
  BY <1>4 DEF s, w2

\* What EmitNext leaves of todo still ends last.
LEMMA ConsumedEndsLast ==
  ASSUME todo \in Seq(Ops), todo # <<>>, EndsLast(todo),
         \/ todo' = Tail(todo)
         \/ todo' = <<"flush">> \o Tail(todo)
  PROVE  /\ EndsLast(todo)'
         /\ Head(todo) \in Closers => todo' \in {<<>>, <<"flush">>}
<1> DEFINE rest == Tail(todo)
<1>1. /\ rest \in Seq(Ops) /\ Len(rest) = Len(todo) - 1 /\ Len(todo) \in Nat /\ Len(todo) # 0
      /\ \A i \in 1..Len(rest) : rest[i] = todo[i + 1]
      /\ DOMAIN todo = 1..Len(todo) /\ DOMAIN rest = 1..Len(rest)
      /\ Head(todo) = todo[1]
      /\ rest = <<>> <=> Len(rest) = 0
  <2>1. /\ rest \in Seq(Ops) /\ Len(rest) = Len(todo) - 1
        /\ \A i \in 1..Len(rest) : rest[i] = todo[i + 1]
    BY HeadTailProperties
  <2>2. /\ Len(todo) \in Nat /\ DOMAIN todo = 1..Len(todo) /\ DOMAIN rest = 1..Len(rest)
    BY <2>1, LenProperties
  <2>3. Len(todo) # 0 /\ (rest = <<>> <=> Len(rest) = 0)
    BY <2>1, EmptySeq
  <2>4. Head(todo) = todo[1]
    OBVIOUS
  <2> QED
    BY <2>1, <2>2, <2>3, <2>4
<1> HIDE DEF rest
<1>2. EndsLast(rest)
  <2> SUFFICES ASSUME NEW i \in 1..Len(rest), rest[i] \in Closers PROVE i = Len(rest)
    BY <1>1 DEF EndsLast
  <2>1. i + 1 \in 1..Len(todo) /\ todo[i + 1] \in Closers
    BY <1>1
  <2>2. i + 1 = Len(todo)
    BY <1>1, <2>1 DEF EndsLast
  <2> QED
    BY <1>1, <2>2
<1>3. /\ <<"flush">> \in Seq(Ops)
      /\ \A i \in DOMAIN <<"flush">> : <<"flush">>[i] \notin Closers
  BY OneOp DEF Ops, Closers
<1>4. EndsLast(<<"flush">> \o rest)
  BY <1>1, <1>2, <1>3, EndsLastBehind
<1>5. Head(todo) \in Closers => rest = <<>>
  BY <1>1 DEF EndsLast
<1>6. <<"flush">> \o <<>> = <<"flush">>
  BY <1>3, ConcatEmptySeq
<1>7. todo' = rest \/ todo' = <<"flush">> \o rest
  BY DEF rest
<1>8. EndsLast(todo)'
  BY <1>2, <1>4, <1>7 DEF EndsLast
<1> QED
  BY <1>5, <1>6, <1>7, <1>8
----------------------------------------------------------------------------
\* Steps that leave todo alone, and what is kept or none of it.
LEMMA RestingShape ==
  ASSUME Shape, todo' = todo, kept' = kept \/ kept' = <<>>,
         ~Leaving' => kept' = <<>> \/ (~Leaving /\ writer'.started = writer.started)
  PROVE  Shape'
<1>1. EndsLast(todo)'
  BY DEF Shape, EndsLast
<1>2. Due("message_start")' = Due("message_start")
  BY DEF Due
<1>3. ASSUME NEW k \in DOMAIN kept'
      PROVE  /\ kept'[k].kind = "message_start" <=> k = 1
             /\ kept'[k].kind \in Closers => k = Len(kept') /\ todo' \in {<<>>, <<"flush">>}
  <2>1. kept' = kept
    <3>1. DOMAIN <<>> = {}
      OBVIOUS
    <3> QED
      BY <1>3, <3>1
  <2> QED
    BY <2>1 DEF Shape
<1> QED
  BY <1>1, <1>2, <1>3 DEF Shape

\* Whoever starts to write the next event does so behind an open message.
LEMMA EmitShape ==
  ASSUME RInv, request.stream, Shape, pc \in {"read", "ended", "final"},
         pc = "ended" => ended # "localStop" /\ ~cancelled,
         kept' = kept,
         NEW ops \in Seq(Ops), NEW label, Emit(ops, label), EndsLast(ops),
         ops # <<>> => writer.started \/ \E i \in DOMAIN ops : ops[i] = "message_start",
         \A i \in DOMAIN ops : ops[i] = "message_start" => ~writer.started
  PROVE  Shape'
<1>1. Places /\ ClosingOnce /\ Erring /\ ReqTypeOK /\ ~Leaving
  BY DEF RInv, StreamInv, Leaving
<1>2. todo' = ops /\ (writer'.started <=> writer.started \/ Due("message_start")')
  BY <1>1, EmitEffect
<1>3. ~Kept("message_stop") /\ ~Kept("error")
  BY <1>1 DEF Places, ClosingOnce, Erring, Completing, Leaving, Closing
<1>4. \A k \in DOMAIN kept : kept[k].kind \notin Closers
  BY <1>3 DEF Kept, Closers
<1>5. EndsLast(todo)'
  BY <1>2 DEF EndsLast
<1>6. Due("message_start")' => ~writer.started
  BY <1>2 DEF Due
<1>7. Due("message_start")' \/ ~writer'.started => kept' = <<>>
  BY <1>1, <1>2, <1>6 DEF Shape
<1> QED
  BY <1>4, <1>5, <1>7 DEF Shape

LEMMA ContentFrameShape ==
  ASSUME RInv, request.stream, Shape, ContentFrame
  PROVE  Shape'
<1>1. pc = "read" /\ UNCHANGED vars /\ ReqTypeOK /\ ~Leaving
  BY DEF ContentFrame, RInv, Leaving
<1>2. kept' = kept
  BY <1>1 DEF vars, historyVars
<1>3. CASE firstErr \/ writer.err
  <2>1. UNCHANGED <<todo, writer>>
    BY <1>3 DEF ContentFrame
  <2> QED
    BY <1>1, <1>2, <2>1, RestingShape
<1>4. CASE ~(firstErr \/ writer.err)
  <2>1. PICK kind \in FrameKinds, halts \in BOOLEAN, left \in BOOLEAN :
          LET live == Live(acc, kind)
              a == IF live THEN Accumulate(acc, kind, halts, left) ELSE acc
              shown == IF live THEN Shown(writer, kind) ELSE <<>>
          IN  IF live /\ a.stop /\ ~(request.drain /\ a.tool)
              THEN Emit(shown \o Finish(After(writer, shown), a), "stopped")
              ELSE Emit(shown, "framed")
    BY <1>4 DEF ContentFrame
  <2> DEFINE a == Accumulate(acc, kind, halts, left)
             ops == Shown(writer, kind) \o Finish(After(writer, Shown(writer, kind)), a)
  <2>2. writer \in [started : BOOLEAN, fired : BOOLEAN, err : BOOLEAN]
    BY <1>1 DEF ReqTypeOK
  <2>3. \/ Emit(ops, "stopped")
        \/ Emit(Shown(writer, kind), "framed")
        \/ Emit(<<>>, "framed")
    BY <2>1
  <2>4. CASE Emit(ops, "stopped")
    <3>1. /\ ops \in Seq(Ops) /\ EndsLast(ops)
          /\ \A i \in DOMAIN ops : ops[i] = "message_start" => ~writer.started
          /\ writer.started \/ \E i \in DOMAIN ops : ops[i] = "message_start"
      BY <2>2, LastOps, FrameEndsLast
    <3> HIDE DEF ops
    <3> QED
      BY <1>1, <1>2, <2>4, <3>1, EmitShape
  <2>5. CASE Emit(Shown(writer, kind), "framed")
    BY <1>1, <1>2, <2>2, <2>5, ShownOps, FrameEndsLast, EmitShape
  <2>6. CASE Emit(<<>>, "framed")
    <3>1. <<>> \in Seq(Ops) /\ DOMAIN <<>> = {}
      OBVIOUS
    <3> QED
      BY <1>1, <1>2, <2>6, <3>1, EmitShape DEF EndsLast
  <2> QED
    BY <2>3, <2>4, <2>5, <2>6
<1> QED
  BY <1>3, <1>4

LEMMA EndedShape ==
  ASSUME RInv, request.stream, Shape, Ended
  PROVE  Shape'
<1>1. pc = "ended" /\ UNCHANGED vars /\ ReqTypeOK /\ ~Leaving
  BY DEF Ended, RInv, Leaving
<1>2. kept' = kept
  BY <1>1 DEF vars, historyVars
<1>3. \/ UNCHANGED <<todo, writer>>
      \/ ended = "eof" /\ ~cancelled /\ Emit(Finish(writer, acc), "finished")
  <2>1. ended \in {"streamErr", "localStop", "readErr", "eof"}
    BY <1>1 DEF ReqTypeOK, RInv, StreamInv, Places
  <2> QED
    BY <2>1 DEF Ended
<1>4. CASE UNCHANGED <<todo, writer>>
  BY <1>1, <1>2, <1>4, RestingShape
<1>5. CASE ended = "eof" /\ ~cancelled /\ Emit(Finish(writer, acc), "finished")
  <2>1. writer \in [started : BOOLEAN, fired : BOOLEAN, err : BOOLEAN]
    BY <1>1 DEF ReqTypeOK
  <2> QED
    BY <1>1, <1>2, <1>5, <2>1, FinishOps, FinishEndsLast, EmitShape
<1> QED
  BY <1>3, <1>4, <1>5

LEMMA FinalErrorShape ==
  ASSUME RInv, request.stream, Shape, FinalError
  PROVE  Shape'
<1>1. pc = "final" /\ ReqTypeOK /\ ~Leaving /\ Opening
  BY DEF FinalError, RInv, StreamInv, Leaving
<1>2. CASE UNCHANGED <<vars, todo, writer>> /\ pc' = "return"
  BY <1>2, RestingShape DEF vars, historyVars, Leaving
<1>3. CASE promoted /\ FinalErrorBegin /\ Emit(<<"delta", "error">>, "closing")
  <2>1. kept' = kept /\ writer.started
    BY <1>1, <1>3 DEF FinalErrorBegin, historyVars, Opening
  <2>2. /\ <<"delta", "error">> \in Seq(Ops) /\ EndsLast(<<"delta", "error">>)
        /\ \A i \in DOMAIN <<"delta", "error">> : <<"delta", "error">>[i] # "message_start"
    BY DEF Ops, SseKinds, EndsLast, Closers
  <2> QED
    BY <1>1, <1>3, <2>1, <2>2, EmitShape
<1>4. CASE (FinalErrorSSE \/ FinalErrorJSON) /\ UNCHANGED <<todo, writer>> /\ pc' = "return"
  <2>1. kept' = kept \/ kept' = <<>>
    BY <1>4 DEF FinalErrorSSE, FinalErrorJSON
  <2> QED
    BY <1>4, <2>1, RestingShape DEF Leaving
<1> QED
  BY <1>2, <1>3, <1>4 DEF FinalError, goto

\* The first item written opens the message, and no other.
LEMMA WriteShape ==
  ASSUME RInv, request.stream, Shape, EmitNext, Head(todo) \in SseKinds, Write(Head(todo)),
         writer' = [writer EXCEPT !.err = firstErr'],
         todo' = IF promoted THEN <<"flush">> \o Tail(todo) ELSE Tail(todo)
  PROVE  Shape'
<1> DEFINE op == Head(todo)
           item == [kind |-> op, id |-> written + 1]
<1>1. /\ Ctl /\ TypeOK /\ ReqTypeOK /\ IInv
      /\ pc = "emit" /\ ~Leaving /\ todo # <<>> /\ op = todo[1] /\ 1 \in DOMAIN todo
  BY EmittingCtl
<1>2. ~firstErr /\ ~cancelled /\ kept' = Append(kept, item)
  BY <1>1, WriteEffect
<1>3. op \in SseKinds /\ op # "flush"
  BY DEF SseKinds
<1>4. /\ EndsLast(todo)'
      /\ op \in Closers => todo' \in {<<>>, <<"flush">>}
      /\ ~Due("message_start")'
  <2>1. todo \in Seq(Ops) /\ EndsLast(todo) /\ OpensFirst(todo)
    BY <1>1 DEF ReqTypeOK, Shape, Ctl, Opening
  <2>2. todo' = Tail(todo) \/ todo' = <<"flush">> \o Tail(todo)
    OBVIOUS
  <2> QED
    BY <1>1, <1>3, <2>1, <2>2, Consumed, ConsumedEndsLast
<1>5. todo # <<"flush">>
  BY <1>1, <1>3
<1>6. writer.started /\ writer'.started
  BY <1>1 DEF Ctl, Opening, ReqTypeOK
<1>7. kept = <<>> <=> op = "message_start"
  <2>1. op = "message_start" => kept = <<>>
    BY <1>1 DEF Shape, Due
  <2>2. kept = <<>> => op = "message_start"
    <3> SUFFICES ASSUME kept = <<>> PROVE op = "message_start"
      OBVIOUS
    <3>1. ~Kept("message_start")
      <4>1. DOMAIN <<>> = {}
        OBVIOUS
      <4> QED
        BY <4>1 DEF Kept
    <3>2. Due("message_start")
      BY <1>1, <1>2, <1>6, <3>1 DEF Ctl, Opening
    <3> QED
      BY <1>1, <3>2 DEF Ctl, Opening, OpensFirst, Due
  <2> QED
    BY <2>1, <2>2
<1>8. /\ Len(kept) \in Nat /\ DOMAIN kept = 1..Len(kept) /\ (kept = <<>> <=> Len(kept) = 0)
      /\ DOMAIN kept' = 1..(Len(kept) + 1) /\ Len(kept') = Len(kept) + 1
      /\ \A k \in 1..Len(kept) : kept'[k] = kept[k]
      /\ kept'[Len(kept) + 1] = item
  <2>1. kept \in Seq(Item) /\ item \in Item
    BY <1>1, <1>3 DEF TypeOK, Item
  <2> HIDE DEF item
  <2>2. /\ kept' \in Seq(Item) /\ Len(kept') = Len(kept) + 1
        /\ \A k \in 1..Len(kept) : kept'[k] = kept[k]
        /\ kept'[Len(kept) + 1] = item
    BY <1>2, <2>1, AppendProperties
  <2> QED
    BY <2>1, <2>2, LenProperties, EmptySeq
<1>9. item.kind = op
  OBVIOUS
<1> HIDE DEF op, item
<1>10. ASSUME NEW k \in DOMAIN kept'
       PROVE  /\ kept'[k].kind = "message_start" <=> k = 1
              /\ kept'[k].kind \in Closers => k = Len(kept') /\ todo' \in {<<>>, <<"flush">>}
  <2>1. CASE k \in 1..Len(kept)
    <3>1. kept'[k] = kept[k] /\ k \in DOMAIN kept
      BY <1>8, <2>1
    <3> QED
      BY <1>1, <1>5, <3>1 DEF Shape
  <2>2. CASE k \notin 1..Len(kept)
    <3>1. k = Len(kept) + 1
      BY <1>8, <2>2
    <3> QED
      BY <1>4, <1>7, <1>8, <1>9, <3>1
  <2> QED
    BY <2>1, <2>2
<1> QED
  BY <1>4, <1>6, <1>10 DEF Shape

LEMMA EmitNextShape ==
  ASSUME RInv, request.stream, Shape, EmitNext
  PROVE  Shape'
<1>1. /\ Ctl /\ TypeOK /\ ReqTypeOK /\ IInv
      /\ pc = "emit" /\ ~Leaving /\ todo # <<>> /\ UNCHANGED pc
  BY EmittingCtl
<1>2. CASE /\ Head(todo) \in SseKinds /\ Write(Head(todo))
           /\ writer' = [writer EXCEPT !.err = firstErr']
           /\ todo' = IF promoted THEN <<"flush">> \o Tail(todo) ELSE Tail(todo)
  BY <1>2, WriteShape
<1>3. CASE /\ todo' = Tail(todo)
           /\ Promote \/ Flush \/ UNCHANGED vars
           /\ writer'.started = writer.started
  <2>1. kept' = kept
    BY <1>3 DEF Promote, Flush, vars, historyVars
  <2>2. EndsLast(todo)' /\ ~Due("message_start")'
    BY <1>1, <1>3, Consumed, ConsumedEndsLast DEF ReqTypeOK, Shape, Ctl, Opening
  <2>3. todo = <<"flush">> => todo' = <<>>
    BY <1>3
  <2>4. writer'.started
    BY <1>1, <1>3 DEF Ctl, Opening
  <2> QED
    BY <1>1, <2>1, <2>2, <2>3, <2>4 DEF Shape
<1>4. \/ /\ Head(todo) \in SseKinds /\ Write(Head(todo))
         /\ writer' = [writer EXCEPT !.err = firstErr']
         /\ todo' = IF promoted THEN <<"flush">> \o Tail(todo) ELSE Tail(todo)
      \/ /\ todo' = Tail(todo)
         /\ Promote \/ Flush \/ UNCHANGED vars
         /\ \/ writer' = [writer EXCEPT !.err = @ \/ firstErr']
            \/ writer' = [writer EXCEPT !.err = @ \/ Unavailable]
            \/ writer' = [writer EXCEPT !.err = TRUE]
  BY DEF EmitNext
<1>5. ASSUME \/ writer' = [writer EXCEPT !.err = @ \/ firstErr']
             \/ writer' = [writer EXCEPT !.err = @ \/ Unavailable]
             \/ writer' = [writer EXCEPT !.err = TRUE]
      PROVE  writer'.started = writer.started
  BY <1>1, <1>5 DEF ReqTypeOK
<1> QED
  BY <1>2, <1>3, <1>4, <1>5

LEMMA ShapeStep == ASSUME RInv, request.stream, Shape, [ReqNext]_allVars PROVE Shape'
<1>1. Ctl /\ TypeOK /\ IInv /\ pc # "reply" /\ DInv
  BY DEF RInv, StreamInv, Ctl, Places
<1> USE DEF Leaving, goto
<1>2. CASE HeartbeatStep
  <2>1. UNCHANGED <<todo, pc, writer>> /\ Heartbeat
    BY <1>2 DEF HeartbeatStep, reqVars, handlerVars
  <2>2. kept' = kept
    BY <1>1, <2>1, HeartbeatEffect
  <2> QED
    BY <2>1, <2>2, RestingShape
<1>3. CASE ClientLeaves \/ UNCHANGED allVars
  BY <1>3, RestingShape
     DEF ClientLeaves, ClientGone, allVars, reqVars, handlerVars, vars, historyVars
<1>4. CASE EmitDone \/ CheckContext \/ ParseEnds \/ ErrorFrame \/ FrameHandled
  <2>1. UNCHANGED <<vars, todo, writer>> /\ ~Leaving
    BY <1>4 DEF EmitDone, CheckContext, ParseEnds, ErrorFrame, FrameHandled
  <2> QED
    BY <2>1, RestingShape DEF vars, historyVars
<1>5. CASE SetHeaders \/ StartHeartbeat \/ Finished \/ FinalErrorClosed
  <2>1. UNCHANGED <<kept, todo, writer>> /\ ~Leaving
    BY <1>5 DEF SetHeaders, SetSSEHeaders, StartHeartbeat, Start, Finished, Promote, FinalErrorClosed,
                FinalErrorEnd, vars, historyVars
  <2> QED
    BY <2>1, RestingShape
<1>6. CASE Call
  <2>1. kept' = kept /\ kept = <<>> /\ todo' = todo
    BY <1>1, <1>6 DEF Call, vars, historyVars, Ctl, ThisAttempt, DInv, HeldBack
  <2> QED
    BY <2>1, RestingShape
<1>7. CASE Retry
  <2>1. kept' = <<>> /\ todo' = todo
    BY <1>7 DEF Retry, Discard
  <2> QED
    BY <2>1, RestingShape
<1>8. CASE Return
  <2>1. kept' = kept /\ todo' = todo /\ Leaving'
    BY <1>8 DEF Return, StopFlag, StopSignal, StopJoin, historyVars
  <2> QED
    BY <2>1, RestingShape
<1>9. CASE EmitNext
  BY <1>9, EmitNextShape
<1>10. CASE ContentFrame
  BY <1>10, ContentFrameShape
<1>11. CASE Ended
  BY <1>11, EndedShape
<1>12. CASE FinalError
  BY <1>12, FinalErrorShape
<1>13. ~CollectFrame /\ ~Collected /\ ~Reply /\ ~ReplyError
  BY <1>1 DEF CollectFrame, Collected, Reply, ReplyError
<1> QED
  BY <1>2, <1>3, <1>4, <1>5, <1>6, <1>7, <1>8, <1>9, <1>10, <1>11, <1>12, <1>13 DEF ReqNext, Handler
----------------------------------------------------------------------------
\* What the client has been shown, as ClientView asks for it.
Seen(kind) == \E i \in DOMAIN Whole : Whole[i].kind = kind

ItemKinds == EventKinds \cup {"json", "keepalive"}

LEMMA ViewOfSeen ==
  /\ View!Opened <=> Seen("message_start")
  /\ View!Failed <=> Seen("error") \/ Seen("json")
  /\ View!Ended  <=> Seen("error") \/ Seen("json") \/ Seen("message_stop")
<1>1. ASSUME NEW kind PROVE View!Shows(kind) <=> Seen(kind)
  BY DEF View!Shows, ShownKinds, Seen
<1> QED
  BY <1>1 DEF View!Opened, View!Failed, View!Ended

LEMMA Tabulated ==
  ASSUME NEW S, NEW n \in Nat, NEW f \in [1..n -> S]
  PROVE  f \in Seq(S) /\ Len(f) = n /\ DOMAIN f = 1..n
<1>1. f \in Seq(S)
  BY SeqDef
<1>2. Len(f) \in Nat /\ 1..Len(f) = 1..n
  BY <1>1, LenProperties
<1> QED
  BY <1>1, <1>2

LEMMA SuffixOf ==
  ASSUME NEW S, NEW s \in Seq(S), NEW t \in Seq(S)
  PROVE  SubSeq(s \o t, Len(s) + 1, Len(s \o t)) = t
<1>1. /\ s \o t \in Seq(S) /\ Len(s \o t) = Len(s) + Len(t)
      /\ \A i \in 1..Len(s) + Len(t) :
            (s \o t)[i] = IF i <= Len(s) THEN s[i] ELSE t[i - Len(s)]
      /\ Len(s) \in Nat /\ Len(t) \in Nat
  BY ConcatProperties, LenProperties
<1> DEFINE m == Len(s) + 1
           n == Len(s) + Len(t)
           u == SubSeq(s \o t, m, n)
<1>2. m \in Int /\ n \in Int /\ \A i \in m..n : (s \o t)[i] \in S
  <2>1. ASSUME NEW i \in m..n PROVE (s \o t)[i] \in S
    BY <1>1, ElementOfSeq
  <2> QED
    BY <1>1, <2>1
<1>3. /\ u \in Seq(S)
      /\ Len(u) = IF m <= n THEN n - m + 1 ELSE 0
      /\ \A i \in 1..(n - m + 1) : u[i] = (s \o t)[m + i - 1]
  BY <1>2, SubSeqProperties
<1>4. Len(u) = Len(t)
  BY <1>1, <1>3
<1>5. ASSUME NEW i \in 1..Len(t) PROVE u[i] = t[i]
  <2>1. i \in 1..(n - m + 1) /\ m + i - 1 = Len(s) + i /\ Len(s) + i \in 1..Len(s) + Len(t)
        /\ ~(Len(s) + i <= Len(s)) /\ Len(s) + i - Len(s) = i
    BY <1>1
  <2>2. u[i] = (s \o t)[Len(s) + i]
    BY <1>3, <2>1
  <2> QED
    BY <1>1, <2>1, <2>2
<1> HIDE DEF u
<1>6. u = t
  BY <1>3, <1>4, <1>5, SeqEqual
<1> QED
  BY <1>1, <1>6 DEF u

\* A write shows the client the whole items it carried.
LEMMA ShownGrows ==
  ASSUME TypeOK, ~torn, NEW items \in Seq(Item), NEW n \in 0..Len(items), NEW code,
         Appended(items, n, code), torn' \in BOOLEAN
  PROVE  /\ ShownKinds \in Seq(ItemKinds)
         /\ \E m \in 0..n : LET kinds == [k \in 1..m |-> items[k].kind]
                            IN  /\ kinds \in Seq(ItemKinds) /\ Len(kinds) = m
                                /\ ShownKinds' = ShownKinds \o kinds
<1> DEFINE m == IF torn' THEN n - 1 ELSE n
           kinds == [k \in 1..m |-> items[k].kind]
<1>1. /\ Len(items) \in Nat /\ Len(wire) \in Nat /\ DOMAIN wire = 1..Len(wire)
      /\ wire' \in Seq(Item) /\ Len(wire') = Len(wire) + n /\ DOMAIN wire' = 1..(Len(wire) + n)
      /\ \A i \in 1..Len(wire) : wire'[i] = wire[i]
      /\ \A k \in 1..n : wire'[Len(wire) + k] = items[k]
      /\ torn' => n > 0
  BY LenProperties DEF Appended, TypeOK
<1>2. m \in 0..n
  BY <1>1
<1>3. DOMAIN Whole' = 1..(Len(wire) + m) /\ \A i \in 1..(Len(wire) + m) : Whole'[i] = wire'[i]
  <2>1. CASE torn'
    <3> DEFINE l == Len(wire) + m
    <3>1. Whole' = SubSeq(wire', 1, l) /\ l \in Nat /\ l <= Len(wire')
      BY <1>1, <2>1 DEF Whole
    <3>2. \A i \in 1..l : wire'[i] \in Item
      BY <1>1, <3>1, ElementOfSeq
    <3> HIDE DEF l
    <3>3. /\ SubSeq(wire', 1, l) \in Seq(Item) /\ Len(SubSeq(wire', 1, l)) = l
          /\ \A i \in 1..l : SubSeq(wire', 1, l)[i] = wire'[i]
      BY <1>1, <3>1, <3>2, SubSeqProperties
    <3>4. DOMAIN SubSeq(wire', 1, l) = 1..l
      BY <3>3, LenProperties
    <3> QED
      BY <3>1, <3>3, <3>4 DEF l
  <2>2. CASE ~torn'
    BY <1>1, <2>2 DEF Whole
  <2> QED
    BY <2>1, <2>2
<1>4. \A item \in Item : item.kind \in ItemKinds
  BY DEF Item, ItemKinds
<1> HIDE DEF m
<1>5. /\ ShownKinds \in Seq(ItemKinds) /\ Len(ShownKinds) = Len(wire) /\ DOMAIN ShownKinds = 1..Len(wire)
      /\ \A i \in 1..Len(wire) : ShownKinds[i] = wire[i].kind
  <2>1. ShownKinds = [i \in 1..Len(wire) |-> wire[i].kind]
    BY <1>1 DEF ShownKinds, Whole
  <2>2. \A i \in 1..Len(wire) : wire[i].kind \in ItemKinds
    BY <1>1, <1>4, ElementOfSeq DEF TypeOK
  <2>3. ShownKinds \in [1..Len(wire) -> ItemKinds]
    BY <2>1, <2>2
  <2>4. ShownKinds \in Seq(ItemKinds) /\ Len(ShownKinds) = Len(wire) /\ DOMAIN ShownKinds = 1..Len(wire)
    BY <1>1, <2>3, Tabulated
  <2> QED
    BY <2>1, <2>4
<1>6. /\ kinds \in Seq(ItemKinds) /\ Len(kinds) = m /\ DOMAIN kinds = 1..m
      /\ \A k \in 1..m : kinds[k] = items[k].kind
  <2>1. \A k \in 1..m : k \in 1..Len(items) /\ items[k].kind \in ItemKinds
    BY <1>1, <1>2, <1>4, ElementOfSeq
  <2>2. kinds \in [1..m -> ItemKinds] /\ m \in Nat
    BY <1>2, <2>1
  <2>3. kinds \in Seq(ItemKinds) /\ Len(kinds) = m /\ DOMAIN kinds = 1..m
    BY <2>2, Tabulated
  <2> QED
    BY <2>3
<1> HIDE DEF kinds
<1>7. /\ ShownKinds' \in Seq(ItemKinds) /\ Len(ShownKinds') = Len(wire) + m
      /\ \A i \in 1..(Len(wire) + m) : ShownKinds'[i] = wire'[i].kind
  <2>1. ShownKinds' = [i \in 1..(Len(wire) + m) |-> wire'[i].kind]
    BY <1>3 DEF ShownKinds
  <2>2. \A i \in 1..(Len(wire) + m) : i \in 1..Len(wire') /\ wire'[i].kind \in ItemKinds
    BY <1>1, <1>2, <1>4, ElementOfSeq
  <2>3. ShownKinds' \in [1..(Len(wire) + m) -> ItemKinds] /\ Len(wire) + m \in Nat
    BY <1>1, <1>2, <2>1, <2>2
  <2>4. ShownKinds' \in Seq(ItemKinds) /\ Len(ShownKinds') = Len(wire) + m
    BY <2>3, Tabulated
  <2> QED
    BY <2>1, <2>4
<1>8. /\ ShownKinds \o kinds \in Seq(ItemKinds) /\ Len(ShownKinds \o kinds) = Len(wire) + m
      /\ \A i \in 1..(Len(wire) + m) :
            (ShownKinds \o kinds)[i] = IF i <= Len(wire) THEN ShownKinds[i] ELSE kinds[i - Len(wire)]
  <2>1. /\ ShownKinds \o kinds \in Seq(ItemKinds)
        /\ Len(ShownKinds \o kinds) = Len(ShownKinds) + Len(kinds)
        /\ \A i \in 1..Len(ShownKinds) + Len(kinds) :
              (ShownKinds \o kinds)[i] = IF i <= Len(ShownKinds) THEN ShownKinds[i]
                                        ELSE kinds[i - Len(ShownKinds)]
    BY <1>5, <1>6, ConcatProperties
  <2>2. Len(ShownKinds) = Len(wire) /\ Len(kinds) = m
    BY <1>5, <1>6
  <2> QED
    BY <2>1, <2>2, Zenon
<1>9. ASSUME NEW i \in 1..(Len(wire) + m) PROVE ShownKinds'[i] = (ShownKinds \o kinds)[i]
  <2>1. CASE i <= Len(wire)
    <3>1. i \in 1..Len(wire)
      BY <1>1, <2>1
    <3> QED
      BY <1>1, <1>5, <1>7, <1>8, <2>1, <3>1
  <2>2. CASE ~(i <= Len(wire))
    <3>1. i - Len(wire) \in 1..m /\ i - Len(wire) \in 1..n /\ i = Len(wire) + (i - Len(wire))
      BY <1>1, <1>2, <2>2
    <3>2. wire'[i] = items[i - Len(wire)]
      BY <1>1, <3>1
    <3> QED
      BY <1>6, <1>7, <1>8, <2>2, <3>1, <3>2
  <2> QED
    BY <2>1, <2>2
<1>10. ShownKinds' = ShownKinds \o kinds
  BY <1>7, <1>8, <1>9, SeqEqual
<1> QED
  BY <1>2, <1>5, <1>6, <1>10 DEF kinds

LEMMA OneShown ==
  ASSUME TypeOK, ~torn, NEW item \in Item, NEW items, items = <<item>>, NEW n \in 0..Len(items), NEW code,
         Appended(items, n, code), torn' \in BOOLEAN
  PROVE  ShownKinds' = ShownKinds \/ ShownKinds' = Append(ShownKinds, item.kind)
<1>1. items \in Seq(Item) /\ Len(items) = 1 /\ items[1] = item
  OBVIOUS
<1>2. /\ ShownKinds \in Seq(ItemKinds)
      /\ \E m \in 0..n : LET kinds == [k \in 1..m |-> items[k].kind]
                         IN  /\ kinds \in Seq(ItemKinds) /\ Len(kinds) = m
                             /\ ShownKinds' = ShownKinds \o kinds
  BY <1>1, ShownGrows
<1>3. PICK m \in 0..n : LET kinds == [k \in 1..m |-> items[k].kind]
                        IN  /\ kinds \in Seq(ItemKinds) /\ Len(kinds) = m
                            /\ ShownKinds' = ShownKinds \o kinds
  BY <1>2
<1> DEFINE kinds == [k \in 1..m |-> items[k].kind]
<1>4. kinds \in Seq(ItemKinds) /\ Len(kinds) = m /\ ShownKinds' = ShownKinds \o kinds
  BY <1>3
<1>5. m \in 0..1
  BY <1>1
<1>6. CASE m = 0
  <2> HIDE DEF kinds
  <2>1. kinds = <<>>
    BY <1>4, <1>6, EmptySeq
  <2> QED
    BY <1>2, <1>4, <2>1, ConcatEmptySeq
<1>7. CASE m = 1
  <2>1. kinds[1] = item.kind
    BY <1>1, <1>7
  <2>2. item.kind \in ItemKinds
    BY DEF Item, ItemKinds
  <2>3. /\ <<item.kind>> \in Seq(ItemKinds) /\ Len(<<item.kind>>) = 1 /\ <<item.kind>>[1] = item.kind
    BY <2>2
  <2> HIDE DEF kinds
  <2>4. kinds = <<item.kind>>
    BY <1>4, <1>7, <2>1, <2>3, SeqEqual
  <2> QED
    BY <1>2, <1>4, <2>2, <2>4, AppendIsConcat
<1> QED
  BY <1>5, <1>6, <1>7
----------------------------------------------------------------------------
\* What the client sees of a healthy, unfinished response.
LEMMA SeenSoFar ==
  ASSUME RInv, request.stream, ~firstErr, ~finalized
  PROVE  /\ ~torn /\ Whole = wire
         /\ ~Seen("json")
         /\ \A kind \in SseKinds : Seen(kind) => promoted /\ Kept(kind)
         /\ promoted => Seen("message_start")
         /\ ~promoted /\ committed => Seen("keepalive")
<1>1. IInv /\ DInv /\ OwnOnWire /\ Opening /\ TypeOK
  BY DEF RInv, StreamInv
<1>2. ~torn /\ Whole = wire
  BY <1>1 DEF IInv, FailuresLatch, Whole
<1>3. \A kind : Seen(kind) <=> \E i \in DOMAIN wire : wire[i].kind = kind
  BY <1>2 DEF Seen
<1>4. \A i \in DOMAIN wire : (Semantic(wire[i]) /\ wire[i].kind \in SseKinds) \/ wire[i] = KeepAlive
  BY <1>1 DEF OwnOnWire
<1>5. KeepAlive.kind = "keepalive" /\ "keepalive" \notin SseKinds /\ "json" \notin SseKinds
  BY DEF KeepAlive, SseKinds
<1>6. ~Seen("json")
  BY <1>3, <1>4, <1>5
<1>7. Len(kept) \in Nat /\ DOMAIN kept = 1..Len(kept)
  BY <1>1, LenProperties DEF TypeOK
<1>8. promoted => Sent = {kept[k] : k \in 1..Len(kept)}
  BY <1>1 DEF DInv, PassedOn
<1>9. ASSUME NEW kind \in SseKinds, Seen(kind) PROVE promoted /\ Kept(kind)
  <2>1. PICK i \in DOMAIN wire : wire[i].kind = kind
    BY <1>3, <1>9
  <2>2. wire[i] \in Sent
    BY <1>4, <1>5, <2>1 DEF Sent, Range
  <2>3. promoted
    BY <1>1, <2>2 DEF DInv, HeldBack
  <2>4. PICK k \in DOMAIN kept : wire[i] = kept[k]
    BY <1>7, <1>8, <2>2, <2>3
  <2> QED
    BY <2>1, <2>3, <2>4 DEF Kept
<1>10. promoted => Seen("message_start")
  <2> SUFFICES ASSUME promoted PROVE Seen("message_start")
    OBVIOUS
  <2>1. PICK k \in DOMAIN kept : kept[k].kind = "message_start"
    BY <1>1 DEF Opening, Kept
  <2>2. kept[k] \in Sent
    BY <1>7, <1>8
  <2>3. PICK i \in DOMAIN wire : wire[i] = kept[k]
    BY <2>2 DEF Sent, Range
  <2> QED
    BY <1>3, <2>1, <2>3
<1>11. ~promoted /\ committed => Seen("keepalive")
  <2> SUFFICES ASSUME ~promoted, committed PROVE Seen("keepalive")
    OBVIOUS
  <2>1. wire # <<>> /\ wire \in Seq(Item)
    BY <1>1 DEF OwnOnWire, TypeOK
  <2>2. 1 \in DOMAIN wire
    BY <2>1, LenProperties, EmptySeq
  <2>3. wire[1] = KeepAlive
    BY <1>1, <1>4, <2>2 DEF DInv, HeldBack, Sent, Range
  <2> QED
    BY <1>3, <1>5, <2>2, <2>3
<1> QED
  BY <1>2, <1>6, <1>9, <1>10, <1>11

\* Only WriteFinalError finalizes a session, and only the handler calls it.
LEMMA FinalizedAt ==
  ASSUME RInv, request.stream, [ReqNext]_allVars, ~finalized, finalized', ~finalizing
  PROVE  pc = "final"
<1>1. IInv /\ Places /\ TypeOK
  BY DEF RInv, StreamInv
<1>2. CASE HeartbeatStep
  BY <1>1, <1>2, HeartbeatEffect DEF HeartbeatStep
<1>3. CASE ClientLeaves \/ UNCHANGED allVars
  BY <1>3 DEF ClientLeaves, ClientGone, allVars, vars, sessionVars
<1>4. CASE EmitNext
  <2>1. Promote \/ UNCHANGED vars \/ Flush \/ Write(Head(todo))
    BY <1>4 DEF EmitNext
  <2> QED
    BY <2>1 DEF Promote, Flush, Write, vars, sessionVars
<1>5. CASE \/ EmitDone \/ Call \/ CheckContext \/ ParseEnds \/ ErrorFrame \/ ContentFrame \/ FrameHandled
           \/ CollectFrame \/ Ended \/ Collected
  BY <1>5 DEF EmitDone, Call, CheckContext, ParseEnds, ErrorFrame, ContentFrame, FrameHandled,
              CollectFrame, Ended, Collected, vars, sessionVars
<1>6. CASE SetHeaders \/ StartHeartbeat
  BY <1>6 DEF SetHeaders, SetSSEHeaders, StartHeartbeat, Start, vars, sessionVars
<1>7. CASE Finished \/ Retry
  BY <1>7 DEF Finished, Promote, Retry, Discard, vars, sessionVars
<1>8. CASE Return
  BY <1>8 DEF Return, StopFlag, StopSignal, StopJoin, sessionVars
<1>9. CASE Reply \/ ReplyError
  BY <1>1, <1>9 DEF Reply, ReplyError, Places
<1>10. CASE FinalErrorClosed
  BY <1>10 DEF FinalErrorClosed, FinalErrorEnd
<1>11. CASE FinalError
  BY <1>11 DEF FinalError
<1> QED
  BY <1>2, <1>3, <1>4, <1>5, <1>6, <1>7, <1>8, <1>9, <1>10, <1>11 DEF ReqNext, Handler

\* What an event or an item of the session's own adds to what the client was
\* shown, and when it may come.
LEMMA StreamViewStep ==
  ASSUME RInv, RInv', request.stream, Shape, Shape', [ReqNext]_allVars
  PROVE  [View!Next]_(View!view)
<1>1. /\ IInv /\ DInv /\ SessionStep /\ UNCHANGED request /\ TypeOK /\ Erring /\ ClosingOnce /\ Places
      /\ TypeOK' /\ torn' \in BOOLEAN
  BY StreamIsSessionStep DEF RInv, StreamInv, TypeOK
<1>2. SUFFICES \/ ShownKinds' = ShownKinds
               \/ View!KeepAlive \/ View!Open \/ View!Continue \/ View!FailStream \/ View!AnswerJson
  BY <1>1 DEF View!Next, View!view
<1>3. CASE SendsNothing
  <2>1. UNCHANGED <<wire, torn>>
    BY <1>3 DEF SendsNothing
  <2> QED
    BY <2>1 DEF ShownKinds, Whole
<1>4. CASE SendsItems
  <2>1. PICK items \in Seq(Item), code \in {"ok", "error"} :
          /\ Outgoing(items, code)
          /\ \E n \in 0..Len(items) : Appended(items, n, code)
    BY <1>4 DEF SendsItems
  <2>2. PICK n \in 0..Len(items) : Appended(items, n, code)
    BY <2>1
  <2>3. /\ ~firstErr /\ ~finalized
        /\ ~torn /\ Whole = wire
        /\ ~Seen("json")
        /\ \A kind \in SseKinds : Seen(kind) => promoted /\ Kept(kind)
        /\ promoted => Seen("message_start")
        /\ ~promoted /\ committed => Seen("keepalive")
    BY <1>4, SeenSoFar DEF SendsItems, Unavailable
  <2>4. {"message_start", "message_stop", "error"} \subseteq SseKinds
    BY DEF SseKinds
  <2>5. ~Seen("error") \/ finalizing
    BY <1>1, <2>3, <2>4 DEF Erring
  <2>6. /\ View!Opened <=> Seen("message_start")
        /\ View!Failed <=> Seen("error") \/ Seen("json")
        /\ View!Ended  <=> Seen("error") \/ Seen("json") \/ Seen("message_stop")
    BY ViewOfSeen
  <2>7. ASSUME NEW item \in Item, items = <<item>>
        PROVE  ShownKinds' = ShownKinds \/ ShownKinds' = Append(ShownKinds, item.kind)
    BY <1>1, <2>2, <2>3, <2>7, OneShown
  <2>8. ASSUME NEW kind, Seen(kind) PROVE ShownKinds # <<>>
    <3>1. DOMAIN ShownKinds # {}
      BY <2>8 DEF Seen, ShownKinds
    <3>2. DOMAIN <<>> = {}
      OBVIOUS
    <3> QED
      BY <3>1, <3>2
  <2>9. KeepAlive \in Item /\ SseError \in Item /\ JsonBody \in Item
    BY KindsAssumption DEF KeepAlive, SseError, JsonBody, Item
  <2>10. CASE items = <<SseError>> /\ (promoted \/ committed) /\ ~finalizing /\ finalized'
    <3>1. pc = "final"
      BY <2>3, <2>10, FinalizedAt
    <3>2. ~Seen("message_stop") /\ ~Seen("error")
      BY <1>1, <2>3, <2>4, <2>5, <2>10, <3>1 DEF ClosingOnce, Completing, Leaving
    <3>3. ShownKinds # <<>>
      BY <2>3, <2>8, <2>10
    <3>4. SseError.kind = "error"
      BY DEF SseError
    <3>5. ShownKinds' = ShownKinds \/ ShownKinds' = Append(ShownKinds, "error")
      BY <2>7, <2>9, <2>10, <3>4
    <3> QED
      BY <2>3, <2>6, <3>2, <3>3, <3>5 DEF View!FailStream
  <2>11. CASE items = <<JsonBody>> /\ ~promoted /\ ~committed
    <3>1. wire = <<>>
      BY <1>1, <2>11 DEF IInv, UntouchedUntilCommitted
    <3>2. ShownKinds \in Seq(ItemKinds)
      BY <1>1, <2>2, <2>3, ShownGrows
    <3>3. ShownKinds = <<>>
      <4>1. DOMAIN ShownKinds = {}
        BY <2>3, <3>1 DEF ShownKinds
      <4>2. Len(ShownKinds) \in Nat /\ DOMAIN ShownKinds = 1..Len(ShownKinds)
        BY <3>2, LenProperties
      <4>3. Len(ShownKinds) = 0
        BY <4>1, <4>2
      <4> QED
        BY <3>2, <4>3, EmptySeq
    <3>4. JsonBody.kind = "json"
      BY DEF JsonBody
    <3>5. ShownKinds' = ShownKinds \/ ShownKinds' = <<"json">>
      BY <2>7, <2>9, <2>11, <3>3, <3>4
    <3> QED
      BY <3>3, <3>5 DEF View!AnswerJson
  <2>12. CASE items = <<KeepAlive>> /\ ~finalizing
    <3>1. KeepAlive.kind = "keepalive"
      BY DEF KeepAlive
    <3>2. ShownKinds' = ShownKinds \/ ShownKinds' = Append(ShownKinds, "keepalive")
      BY <2>7, <2>9, <2>12, <3>1
    <3> QED
      BY <2>3, <2>5, <2>6, <2>12, <3>2 DEF View!KeepAlive
  <2>13. CASE ~promoted /\ items = kept
    <3>1. \A kind \in SseKinds : ~Seen(kind)
      BY <2>3, <2>13
    <3>2. ~View!Opened /\ ~View!Ended
      BY <2>3, <2>4, <2>6, <3>1
    <3>3. ShownKinds \in Seq(ItemKinds)
      BY <1>1, <2>2, <2>3, ShownGrows
    <3>4. PICK m \in 0..n : LET kinds == [k \in 1..m |-> items[k].kind]
                            IN  /\ kinds \in Seq(ItemKinds) /\ Len(kinds) = m
                                /\ ShownKinds' = ShownKinds \o kinds
      BY <1>1, <2>2, <2>3, ShownGrows
    <3> DEFINE kinds == [k \in 1..m |-> items[k].kind]
    <3>5. kinds \in Seq(ItemKinds) /\ Len(kinds) = m /\ ShownKinds' = ShownKinds \o kinds
      BY <3>4
    <3>6. /\ m \in 0..Len(kept) /\ Len(kept) \in Nat /\ DOMAIN kept = 1..Len(kept)
          /\ DOMAIN kinds = 1..m /\ \A k \in 1..m : kinds[k] = kept[k].kind
      BY <1>1, <2>13, LenProperties DEF TypeOK
    <3>7. buf = kept /\ ~Kept("error")
      BY <1>1, <2>3, <2>13 DEF DInv, HeldBack, IInv, Finalization, Erring
    <3> HIDE DEF kinds
    <3>8. CASE m = 0
      <4>1. kinds = <<>>
        BY <3>5, <3>8, EmptySeq
      <4> QED
        BY <3>3, <3>5, <4>1, ConcatEmptySeq
    <3>9. CASE m # 0
      <4>1. kinds # <<>>
        BY <3>5, <3>9
      <4>2. ASSUME NEW i \in DOMAIN kinds
            PROVE  /\ kinds[i] \in {"message_start", "delta", "message_stop"}
                   /\ kinds[i] = "message_start" <=> i = 1
                   /\ kinds[i] = "message_stop" => i = Len(kinds)
        <5>1. i \in 1..m /\ i \in DOMAIN kept /\ kinds[i] = kept[i].kind
          BY <3>6
        <5>2. kept[i].kind \in SseKinds /\ kept[i].kind # "error"
          BY <1>1, <3>7, <5>1 DEF IInv, BufferIsSemantic, Kept
        <5>3. kept[i].kind = "message_start" <=> i = 1
          BY <5>1 DEF Shape
        <5>4. kept[i].kind = "message_stop" => i = Len(kept)
          BY <5>1 DEF Shape, Closers
        <5> QED
          BY <3>5, <3>6, <5>1, <5>2, <5>3, <5>4 DEF SseKinds
      <4>3. View!BeginsMessage(kinds)
        BY <4>1, <4>2 DEF View!BeginsMessage
      <4>4. SubSeq(ShownKinds', Len(ShownKinds) + 1, Len(ShownKinds')) = kinds
        BY <3>3, <3>5, SuffixOf
      <4> QED
        BY <3>2, <3>5, <4>3, <4>4 DEF View!Open
    <3> QED
      BY <3>8, <3>9
  <2>14. ASSUME NEW op \in SseKinds, items = <<[kind |-> op, id |-> written + 1]>>,
                promoted, kept' = Append(kept, [kind |-> op, id |-> written + 1])
         PROVE  ShownKinds' = ShownKinds \/ View!Continue \/ View!FailStream
    <3> DEFINE item == [kind |-> op, id |-> written + 1]
    <3>1. item \in Item /\ kept \in Seq(Item) /\ item.kind = op
      BY <1>1 DEF TypeOK, Item
    <3>2. ShownKinds' = ShownKinds \/ ShownKinds' = Append(ShownKinds, item.kind)
      BY <2>7, <2>14, <3>1
    <3> HIDE DEF item
    <3>3. /\ Len(kept) \in Nat /\ DOMAIN kept = 1..Len(kept)
          /\ DOMAIN kept' = 1..(Len(kept) + 1) /\ Len(kept') = Len(kept) + 1
          /\ \A k \in 1..Len(kept) : kept'[k] = kept[k]
          /\ kept'[Len(kept) + 1] = item
      <4>1. /\ kept' \in Seq(Item) /\ Len(kept') = Len(kept) + 1
            /\ \A k \in 1..Len(kept) : kept'[k] = kept[k]
            /\ kept'[Len(kept) + 1] = item
        BY <2>14, <3>1, AppendProperties DEF item
      <4> QED
        BY <3>1, <4>1, LenProperties
    <3>4. Seen("message_start") /\ Kept("message_start")
      BY <2>3, <2>4, <2>14
    <3>5. op # "message_start"
      <4>1. Len(kept) # 0
        BY <3>3, <3>4 DEF Kept
      <4>2. Len(kept) + 1 \in DOMAIN kept' /\ Len(kept) + 1 # 1
        BY <3>3, <4>1
      <4> QED
        BY <3>1, <3>3, <4>2 DEF Shape
    <3>6. ~Kept("message_stop") /\ ~Kept("error")
      <4>1. ASSUME NEW k \in DOMAIN kept PROVE kept[k].kind \notin Closers
        <5>1. k \in DOMAIN kept' /\ kept'[k] = kept[k] /\ k # Len(kept')
          BY <3>3
        <5> QED
          BY <5>1 DEF Shape
      <4> QED
        BY <4>1 DEF Kept, Closers
    <3>7. View!Opened /\ ~View!Ended
      BY <2>3, <2>4, <2>6, <3>4, <3>6
    <3>8. ShownKinds # <<>>
      BY <2>8, <3>4
    <3>9. op \in {"delta", "message_stop", "error"}
      BY <3>5 DEF SseKinds
    <3> QED
      BY <3>1, <3>2, <3>7, <3>8, <3>9 DEF View!Continue, View!FailStream
  <2>15. Outgoing(items, code)
    BY <2>1
  <2> QED
    BY <2>10, <2>11, <2>12, <2>13, <2>14, <2>15 DEF Outgoing
<1> QED
  BY <1>1, <1>3, <1>4, WireStep

\* Without a stream the client is shown the JSON body, or nothing.
LEMMA PlainShown ==
  RInv /\ ~request.stream =>
    ShownKinds \in {<<>>, <<"json">>} /\ (wire = <<>> => ShownKinds = <<>>)
<1> SUFFICES ASSUME RInv, ~request.stream
             PROVE  ShownKinds \in {<<>>, <<"json">>} /\ (wire = <<>> => ShownKinds = <<>>)
  OBVIOUS
<1>1. wire \in {<<>>, <<JsonBody>>} /\ TypeOK /\ (wire = <<>> => ~torn)
  BY DEF RInv, PlainInv
<1>2. CASE wire = <<JsonBody>> /\ ~torn
  <2>1. DOMAIN Whole = 1..1 /\ Whole[1] = JsonBody
    BY <1>2 DEF Whole
  <2>2. ShownKinds = [i \in 1..1 |-> "json"]
    BY <2>1 DEF ShownKinds, JsonBody
  <2>3. [i \in 1..1 |-> "json"] = <<"json">>
    OBVIOUS
  <2>4. wire # <<>>
    BY <1>2
  <2> QED
    BY <2>2, <2>3, <2>4
<1>3. CASE wire = <<>> \/ torn
  <2>1. DOMAIN Whole = {}
    <3>1. CASE wire = <<>>
      BY <1>1, <3>1 DEF Whole
    <3>2. CASE torn
      <4>1. Len(wire) - 1 = 0 /\ wire \in Seq(Item) /\ Len(wire) = 1
        BY <1>1, <3>2 DEF TypeOK
      <4>2. Whole = SubSeq(wire, 1, 0)
        BY <3>2, <4>1 DEF Whole
      <4>3. Whole = <<>>
        BY <4>2, SubSeqEmpty
      <4> QED
        BY <4>3
    <3> QED
      BY <1>3, <3>1, <3>2
  <2>2. ShownKinds \in [1..0 -> {"json"}]
    BY <2>1 DEF ShownKinds
  <2>3. ShownKinds \in Seq({"json"}) /\ Len(ShownKinds) = 0
    BY <2>2, Tabulated
  <2>4. ShownKinds = <<>>
    BY <2>3, EmptySeq
  <2> QED
    BY <2>4
<1> QED
  BY <1>1, <1>2, <1>3

LEMMA PlainViewStep ==
  ASSUME RInv, RInv', ~request.stream, [ReqNext]_allVars
  PROVE  [View!Next]_(View!view)
<1>1. PlainInv /\ TypeOK /\ PlainInv' /\ request' = request
  BY PlainStep DEF RInv
<1>2. ShownKinds \in {<<>>, <<"json">>} /\ (wire = <<>> => ShownKinds = <<>>)
  BY PlainShown
<1>3. (RInv /\ ~request.stream =>
         ShownKinds \in {<<>>, <<"json">>} /\ (wire = <<>> => ShownKinds = <<>>))'
  BY PlainShown, PTL
<1>4. ShownKinds' \in {<<>>, <<"json">>}
  BY <1>1, <1>3
<1>5. SUFFICES ShownKinds' = ShownKinds \/ (ShownKinds = <<>> /\ ShownKinds' = <<"json">>)
  BY <1>1, <1>5 DEF View!Next, View!AnswerJson, View!view
<1>6. CASE UNCHANGED <<wire, torn, head>>
  BY <1>6 DEF ShownKinds, Whole
<1>7. CASE wire = <<>> /\ ~torn
  BY <1>2, <1>4, <1>7
<1>8. CASE Leaving
  <2>1. UNCHANGED <<wire, torn, head>>
    <3>1. ~HeartbeatStep
      BY <1>1 DEF PlainInv, HeartbeatStep, Heartbeat, HeartbeatCheck, HeartbeatActivity, HeartbeatDone,
              WriteKeepAlive, KeepAliveRefused
    <3>2. CASE ClientLeaves \/ UNCHANGED allVars \/ Return
      BY <1>1, <3>2 DEF ClientLeaves, ClientGone, allVars, vars, socketVars, Return, RInv
    <3> USE DEF Leaving
    <3>3. ~Retry /\ ~EmitNext /\ ~EmitDone /\ ~StartHeartbeat /\ ~CheckContext /\ ~ParseEnds
            /\ ~Call /\ ~SetHeaders /\ ~FinalError
      BY <1>8 DEF Retry, EmitNext, EmitDone, StartHeartbeat, CheckContext, ParseEnds, Call, SetHeaders,
                  FinalError
    <3>4. ~ErrorFrame /\ ~ContentFrame /\ ~FrameHandled /\ ~Ended /\ ~Finished /\ ~FinalErrorClosed
      BY <1>8 DEF ErrorFrame, ContentFrame, FrameHandled, Ended, Finished, FinalErrorClosed
    <3>5. ~CollectFrame /\ ~Collected /\ ~Reply /\ ~ReplyError
      BY <1>8 DEF CollectFrame, Collected, Reply, ReplyError
    <3> QED
      BY <3>1, <3>2, <3>3, <3>4, <3>5 DEF ReqNext, Handler
  <2> QED
    BY <1>6, <2>1
<1> QED
  BY <1>1, <1>7, <1>8 DEF PlainInv

\* Whatever the upstream, the retries, the heartbeat and the client do, the
\* client is shown what ClientView promises: every step of a request, streamed
\* or not, adds to what was shown as one of its steps does, or shows nothing.
THEOREM RequestImplementsView == ReqSpec => ClientSeesOneMessage
<1> DEFINE VInv == RInv /\ (request.stream => Shape)
<1>1. ReqInit => View!Init /\ VInv
  <2> SUFFICES ASSUME ReqInit PROVE View!Init /\ VInv
    OBVIOUS
  <2>1. RInv
    BY ReqInitRInv
  <2>2. Shape
    <3>1. todo = <<>> /\ kept = <<>> /\ DOMAIN <<>> = {}
      BY DEF ReqInit, Init
    <3> QED
      BY <3>1 DEF Shape, EndsLast
  <2>3. ShownKinds = <<>>
    <3>1. DOMAIN Whole = {}
      BY DEF ReqInit, Init, Whole
    <3>2. ShownKinds \in [1..0 -> {"json"}]
      BY <3>1 DEF ShownKinds
    <3>3. ShownKinds \in Seq({"json"}) /\ Len(ShownKinds) = 0
      BY <3>2, Tabulated
    <3> QED
      BY <3>3, EmptySeq
  <2>4. request.stream \in BOOLEAN
    BY DEF ReqInit
  <2> QED
    BY <2>1, <2>2, <2>3, <2>4 DEF View!Init
<1>2. VInv /\ [ReqNext]_allVars => VInv'
  <2> SUFFICES ASSUME VInv, [ReqNext]_allVars PROVE VInv'
    OBVIOUS
  <2>1. RInv'
    BY RInvStep
  <2>2. request' = request
    BY StreamIsSessionStep, PlainStep
  <2> QED
    BY <2>1, <2>2, ShapeStep
<1>3. VInv /\ VInv' /\ [ReqNext]_allVars => [View!Next]_(View!view)
  <2> SUFFICES ASSUME VInv, VInv', [ReqNext]_allVars PROVE [View!Next]_(View!view)
    OBVIOUS
  <2>1. request' = request
    BY StreamIsSessionStep, PlainStep
  <2> QED
    BY <2>1, StreamViewStep, PlainViewStep
<1> HIDE DEF VInv
<1> QED
  BY <1>1, <1>2, <1>3, PTL DEF ReqSpec, ClientSeesOneMessage, View!Spec

\* A streamed request keeps everything the session promises to any handler.
THEOREM RequestKeepsSession ==
  ReqSpec => [](request.stream => JsonIsAlone /\ HeartbeatJoined /\ HeartbeatServes /\ Delivery)
<1>1. RInv => (request.stream => JsonIsAlone /\ HeartbeatJoined /\ HeartbeatServes /\ Delivery)
  BY DInvDelivers DEF RInv, StreamInv, IInv
<1> QED
  BY <1>1, RequestInvariance, PTL

=============================================================================
