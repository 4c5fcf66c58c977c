----------------------------- MODULE EventStream -----------------------------
(***************************************************************************)
(* ParseStream over an idleReader: the frames of one upstream answer come  *)
(* over the network, at any speed and cut off at any point, and are handed *)
(* to the callback as events, with the frames of a tool call put together. *)
(*                                                                         *)
(* A frame is two parts on the wire, prelude and body.  The upstream is    *)
(* external: it makes one tool call after the other, gives a call an id    *)
(* with its first frame or never, and may forget the stop mark of a call   *)
(* if the next one has an id.                                              *)
(***************************************************************************)
EXTENDS ToolUseAccumulator

CONSTANTS
    MaxFrames,  \* bound on the frames of the answer
    MaxPieces,  \* bound on the pieces of a tool call's input
    MaxAhead    \* bound on the parts on their way when another frame is sent

ASSUME StreamAssumption ==
    MaxFrames \in Nat \ {0} /\ MaxPieces \in Nat \ {0} /\ MaxAhead \in Nat

VARIABLES
    sent,       \* the frames sent and not yet parsed, each with what was meant by then
    heard,      \* history: what the upstream had meant by the frames that were parsed
    arriving,   \* the parts that reach this end, of two for each frame sent
    conn,       \* "open", "ended" or "broken"; broken within a part: "torn"
    cancelled,  \* the request's context
    taken,      \* parts that idleReader's goroutine has read
    buffered,   \* parts that bufio.Reader has received
    fetch,      \* that goroutine: "none", "reading", "done" or "stray"
    got,        \* the error it got, if any
    parsed,     \* frames parsed
    need,       \* the part readFrame waits for
    pc,         \* where ParseStream is
    acc,        \* ParseStream's toolUseAccumulator
    minted,     \* ids made up for calls without one
    queue,      \* the calls this frame completes, for the callback
    stopped,    \* the callback returned true
    told,       \* history: how often the callback was called
    calls,      \* history: the tool calls it got
    result      \* what ParseStream returned: "eof", "stop", "exception" or "error"

upstreamVars == <<sent, heard>>
wireVars     == <<arriving, conn>>
readerVars   == <<taken, buffered, fetch, got>>
frameVars    == <<parsed, need>>
parserVars   == <<pc, acc, minted, queue>>
outcomeVars  == <<stopped, told, calls, result>>
vars == <<upstreamVars, wireVars, cancelled, readerVars, frameVars, parserVars, outcomeVars>>

Frame(kind) == [kind |-> kind, id |-> Absent, name |-> Absent, input |-> <<>>,
                whole |-> FALSE, stop |-> FALSE]

\* Other frames: an event, one that is ignored, one that cannot be decoded or
\* read, and the exception.
OtherKinds == {"event", "ignored", "invalid", "exception"}

None == "none"

----------------------------------------------------------------------------
\* The upstream (external).  Call n has the id and the name n, if any.  What it
\* means are the calls it has made, and those of them that got their stop mark.
Story(made, over) == [calls |-> made, finished |-> over]

Meant == IF sent = <<>> THEN heard ELSE sent[Len(sent)].meant

Put(f, meant) ==
    /\ conn = "open" /\ parsed + Len(sent) < MaxFrames /\ arriving - taken <= MaxAhead
    /\ sent' = Append(sent, [frame |-> f, meant |-> meant])
    /\ arriving' = arriving + 2
    /\ UNCHANGED <<heard, conn, cancelled, readerVars, frameVars, parserVars, outcomeVars>>

SendOther == \E kind \in OtherKinds : Put(Frame(kind), Meant)

\* What the upstream means by a frame of its call n, of which it has said "call".
Said(call, n, f) ==
    [id    |-> IF f.id # Absent THEN n ELSE call.id,
     name  |-> IF f.name # Absent THEN n ELSE call.name,
     input |-> IF f.whole THEN f.input ELSE call.input \o f.input]

WithStop(n, f) == IF f.stop THEN Meant.finished \cup {n} ELSE Meant.finished

Inputs(n, count) == {<<>>} \cup (IF count < MaxPieces THEN {<<<<n, count + 1>>>>} ELSE {})

BeginCall ==
    LET n == Len(Meant.calls) + 1
    IN  \E id, name \in {Absent, n}, input \in Inputs(n, 0), whole, stop \in BOOLEAN :
            /\ id # Absent \/ name # Absent
            /\ id = Absent => n - 1 \in Meant.finished \cup {0}
            /\ whole => input # <<>>
            /\ LET f == [kind |-> "tool", id |-> id, name |-> name, input |-> input,
                         whole |-> whole, stop |-> stop]
               IN  Put(f, Story(Append(Meant.calls, Said(Empty, n, f)), WithStop(n, f)))

ContinueCall ==
    LET n    == Len(Meant.calls)
        call == Meant.calls[n]
    IN  /\ n > 0 /\ n \notin Meant.finished
        /\ \E id \in {Absent, call.id}, name \in {Absent, n},
              input \in Inputs(n, Len(call.input)), stop \in BOOLEAN :
            LET f == [kind |-> "tool", id |-> id, name |-> name, input |-> input,
                      whole |-> FALSE, stop |-> stop]
            IN  Put(f, Story([Meant.calls EXCEPT ![n] = Said(call, n, f)], WithStop(n, f)))

End ==
    /\ conn = "open"
    /\ conn' = "ended"
    /\ UNCHANGED <<upstreamVars, arriving, cancelled, readerVars, frameVars, parserVars, outcomeVars>>

\* The connection is lost, and what is still on its way with it, in part or all.
Break ==
    /\ conn = "open"
    /\ conn' \in {"broken", "torn"}
    /\ arriving' \in taken..arriving
    /\ UNCHANGED <<upstreamVars, cancelled, readerVars, frameVars, parserVars, outcomeVars>>

Cancel ==
    /\ ~cancelled
    /\ cancelled' = TRUE
    /\ UNCHANGED <<upstreamVars, wireVars, readerVars, frameVars, parserVars, outcomeVars>>

----------------------------------------------------------------------------
\* idleReader.Read.  Its goroutine reads the body: some parts, the end (io.EOF,
\* or io.ErrUnexpectedEOF for a lost connection), or an error if the request was
\* cancelled or the body closed.
Fetch ==
    /\ fetch \in {"reading", "stray"}
    /\ \/ /\ fetch = "reading"
          /\ taken' \in (taken + 1)..arriving
          /\ got' = None
       \/ /\ taken = arriving /\ conn \in {"ended", "broken", "torn"}
          /\ got' = IF conn = "ended" THEN "eof" ELSE "unexpectedEOF"
          /\ UNCHANGED taken
       \/ /\ fetch = "stray" \/ cancelled
          /\ got' = "closed"
          /\ UNCHANGED taken
    /\ fetch' = IF fetch = "stray" THEN "none" ELSE "done"
    /\ UNCHANGED <<upstreamVars, wireVars, cancelled, buffered, frameVars, parserVars, outcomeVars>>

Return(how) == result' = how /\ pc' = "returned"

\* What readFrame makes of an error: only the end of the body, before the first
\* byte of a frame, is the end of the stream.
ReadFailed(err) ==
    IF need = "prelude" /\ err \in {"eof", "unexpectedEOF"} /\ conn # "torn"
    THEN pc' = "flush" /\ UNCHANGED result
    ELSE Return("error")

\* The read's result arrives ...
Receive ==
    /\ pc = "wait" /\ fetch = "done"
    /\ fetch' = "none" /\ got' = None
    /\ IF got = None
       THEN buffered' = taken /\ pc' = "read" /\ UNCHANGED result
       ELSE ReadFailed(got) /\ UNCHANGED buffered
    /\ UNCHANGED <<upstreamVars, wireVars, cancelled, taken, frameVars, acc, minted, queue,
                   stopped, told, calls>>

\* Mutant: the body is not closed.
TimeoutNotClosing ==
    /\ pc = "wait"
    /\ Return("error")
    /\ UNCHANGED <<upstreamVars, wireVars, cancelled, readerVars, frameVars, acc, minted, queue,
                   stopped, told, calls>>

\* ... or the idle timer fires first, even if the result is ready: the body is
\* closed, and the goroutine left to itself.
Timeout ==
    /\ pc = "wait"
    /\ fetch' = IF fetch = "reading" THEN "stray" ELSE "none"
    /\ got' = None
    /\ Return("error")
    /\ UNCHANGED <<upstreamVars, wireVars, cancelled, taken, buffered, frameVars, acc, minted, queue,
                   stopped, told, calls>>

----------------------------------------------------------------------------
\* The head of ParseStream's loop.
NextFrame ==
    /\ pc = "head"
    /\ \/ cancelled /\ Return("error")
       \/ ~cancelled /\ pc' = "read" /\ UNCHANGED result
    /\ UNCHANGED <<upstreamVars, wireVars, cancelled, readerVars, frameVars, acc, minted, queue,
                   stopped, told, calls>>

\* The parts that readFrame has consumed.
Position == 2 * parsed + (IF need = "body" THEN 1 ELSE 0)

\* readFrame wants more than was received: idleReader.Read.
Read ==
    /\ pc = "read" /\ buffered = Position
    /\ pc' = "wait" /\ fetch' = "reading"
    /\ UNCHANGED <<upstreamVars, wireVars, cancelled, taken, buffered, got, frameVars, acc, minted, queue,
                   outcomeVars>>

Prelude ==
    /\ pc = "read" /\ buffered > Position /\ need = "prelude"
    /\ need' = "body"
    /\ UNCHANGED <<upstreamVars, wireVars, cancelled, readerVars, parsed, parserVars, outcomeVars>>

\* A frame is complete: decode it.
Decode ==
    /\ pc = "read" /\ buffered > Position /\ need = "body"
    /\ parsed' = parsed + 1 /\ need' = "prelude"
    /\ sent' = Tail(sent) /\ heard' = Head(sent).meant
    /\ LET f     == Head(sent).frame
           fresh == MaxFrames + 1 + minted
       IN  \/ /\ f.kind = "invalid" /\ Return("error")
              /\ UNCHANGED <<acc, minted, queue>>
           \/ /\ f.kind = "ignored" /\ pc' = "head"
              /\ UNCHANGED <<acc, minted, queue, result>>
           \/ /\ f.kind \in {"event", "exception"} /\ pc' = f.kind
              /\ UNCHANGED <<acc, minted, queue, result>>
           \/ /\ f.kind = "tool" /\ pc' = "callback"
              /\ queue' = Completed(acc, f, fresh)
              /\ acc' = Update(acc, f, fresh)
              /\ minted' = IF StartsCall(acc, f) /\ f.id = Absent THEN minted + 1 ELSE minted
              /\ UNCHANGED result
    /\ UNCHANGED <<wireVars, cancelled, readerVars, stopped, told, calls>>

\* An event for the callback, which may say stop.
Event ==
    /\ pc = "event"
    /\ told' = told + 1
    /\ \/ stopped' = TRUE /\ Return("stop")
       \/ pc' = "head" /\ UNCHANGED <<stopped, result>>
    /\ UNCHANGED <<upstreamVars, wireVars, cancelled, readerVars, frameVars, acc, minted, queue, calls>>

\* Mutant: the call in progress is handed over behind an exception too.
ExceptionFlushes ==
    /\ pc = "exception"
    /\ told' = told + 1 + Len(Flush(acc)) /\ calls' = calls \o Flush(acc)
    /\ Return("exception")
    /\ UNCHANGED <<upstreamVars, wireVars, cancelled, readerVars, frameVars, acc, minted, queue, stopped>>

\* An exception ends the stream, whatever the callback says to it.
Exception ==
    /\ pc = "exception"
    /\ told' = told + 1
    /\ Return("exception")
    /\ UNCHANGED <<upstreamVars, wireVars, cancelled, readerVars, frameVars, acc, minted, queue,
                   stopped, calls>>

\* The callback gets the first of the calls.
Tell ==
    /\ pc = "callback" /\ queue # <<>>
    /\ told' = told + 1 /\ calls' = Append(calls, Head(queue))
    /\ UNCHANGED <<upstreamVars, wireVars, cancelled, readerVars, frameVars, pc, acc, minted, result>>

\* Mutant: every call a frame completes is handed over, whatever the callback says.
CallbackNotHeeded == Tell /\ queue' = Tail(queue) /\ stopped' \in BOOLEAN /\ (stopped => stopped')

\* It may say stop; then the rest is dropped.
Callback ==
    /\ Tell
    /\ \/ stopped' = TRUE /\ queue' = <<>>
       \/ queue' = Tail(queue) /\ UNCHANGED stopped

\* The frame is dealt with: the loop goes on unless the callback said stop.
FrameDone ==
    /\ pc = "callback" /\ queue = <<>>
    /\ IF stopped THEN Return("stop") ELSE pc' = "head" /\ UNCHANGED result
    /\ UNCHANGED <<upstreamVars, wireVars, cancelled, readerVars, frameVars, acc, minted, queue,
                   stopped, told, calls>>

\* Mutant: the call in progress is forgotten at the end of the stream.
AtEofNoFlush ==
    /\ pc = "flush"
    /\ Return("eof")
    /\ UNCHANGED <<upstreamVars, wireVars, cancelled, readerVars, frameVars, acc, minted, queue,
                   stopped, told, calls>>

\* The end of the stream: a call in progress is complete now.
AtEof ==
    /\ pc = "flush"
    /\ calls' = calls \o Flush(acc) /\ told' = told + Len(Flush(acc))
    /\ acc' = Empty
    /\ Return("eof")
    /\ UNCHANGED <<upstreamVars, wireVars, cancelled, readerVars, frameVars, minted, queue, stopped>>

----------------------------------------------------------------------------
Init ==
    /\ sent = <<>> /\ heard = Story(<<>>, {}) /\ arriving = 0 /\ conn = "open" /\ cancelled = FALSE
    /\ taken = 0 /\ buffered = 0 /\ fetch = "none" /\ got = None
    /\ parsed = 0 /\ need = "prelude" /\ pc = "head" /\ acc = Empty /\ minted = 0 /\ queue = <<>>
    /\ stopped = FALSE /\ told = 0 /\ calls = <<>> /\ result = None

Upstream == SendOther \/ BeginCall \/ ContinueCall \/ End \/ Break
Parser   == NextFrame \/ Read \/ Prelude \/ Decode \/ Event \/ Exception \/ Callback \/ FrameDone
                \/ AtEof \/ Receive
Next     == (result = None /\ (Upstream \/ Cancel)) \/ Fetch \/ Timeout \/ Parser

\* (The body is closed when ParseStream has returned.)
\* Fairness: the parser runs, a closed body returns from Read (net/http), the timer fires.
Spec == Init /\ [][Next]_vars /\ WF_vars(Parser) /\ WF_vars(Timeout)
             /\ WF_vars(fetch = "stray" /\ Fetch)

----------------------------------------------------------------------------
CallIds == 0..(2 * MaxFrames + 1)
Pieces  == (1..MaxFrames) \X (1..MaxPieces)
Calls   == [id : CallIds, name : 0..MaxFrames, input : Seq(Pieces)]
Frames  == [kind : {"tool"} \cup OtherKinds, id : 0..MaxFrames, name : 0..MaxFrames,
            input : Seq(Pieces), whole : BOOLEAN, stop : BOOLEAN]

Stories == [calls : Seq(Calls), finished : SUBSET (1..MaxFrames)]

TypeOK ==
    /\ sent \in Seq([frame : Frames, meant : Stories]) /\ heard \in Stories
    /\ parsed \in 0..MaxFrames /\ parsed + Len(sent) <= MaxFrames
    /\ conn \in {"open", "ended", "broken", "torn"} /\ cancelled \in BOOLEAN
    /\ arriving \in Nat /\ taken \in Nat /\ buffered \in Nat
    /\ Position <= buffered /\ buffered <= taken /\ taken <= arriving /\ arriving <= 2 * (parsed + Len(sent))
    /\ fetch \in {"none", "reading", "done", "stray"} /\ need \in {"prelude", "body"}
    /\ got \in {None, "eof", "unexpectedEOF", "closed"}
    /\ pc \in {"head", "read", "wait", "event", "exception", "callback", "flush", "returned"}
    /\ acc \in Calls /\ minted \in 0..MaxFrames /\ queue \in Seq(Calls)
    /\ stopped \in BOOLEAN /\ told \in Nat /\ calls \in Seq(Calls)
    /\ result \in {None, "eof", "stop", "exception", "error"}
    /\ pc = "wait" <=> fetch \in {"reading", "done"}

\* "call" is the one the upstream means, its n-th.
Same(call, means, n) ==
    /\ call.name = means.name /\ call.input = means.input
    /\ IF means.id # Absent THEN call.id = n ELSE call.id > MaxFrames

\* The connection was lost where readFrame takes it for the end of the stream.
TakenForEnd == result = "eof" /\ conn # "ended"

\* The callback gets the upstream's calls in order, each once, under its own
\* name and an id of its own, with exactly its input: no call loses a piece,
\* takes one from its neighbour or is reported twice.  The exception is the last
\* call of a stream whose loss goes unnoticed (see TruncationDetected).
CallsIntact ==
    /\ \A n \in DOMAIN calls :
          /\ n \in DOMAIN Meant.calls
          /\ Same(calls[n], Meant.calls[n], n) \/ (TakenForEnd /\ n = Len(calls))
    /\ \A m, n \in DOMAIN calls : m # n => calls[m].id # calls[n].id

\* An answer that came to its end has lost no call, with a stop mark or without.
EndLosesNoCall == result = "eof" /\ conn = "ended" => Len(calls) = Len(Meant.calls)

\* A call is handed over only when it is complete: the upstream has stopped it
\* or made another, or the stream is at its end.  An upstream exception or a
\* read error never makes a call out of its beginning.
OnlyCompleteCalls ==
    \A n \in DOMAIN calls :
        n \in Meant.finished \/ n < Len(Meant.calls) \/ result = "eof"

\* Once the callback has said stop it gets nothing more.
StopRespected == [][stopped => UNCHANGED <<told, calls>>]_vars

\* However silent the upstream falls, ParseStream returns, and the goroutine
\* that read for it ends.
StreamEnds == <>(result # None) /\ <>[](fetch = "none")

\* The end of the stream is the end of the answer: what was cut off is detected
\* (README, "Detects truncated responses").
TruncationDetected == result = "eof" => conn = "ended"
=============================================================================
