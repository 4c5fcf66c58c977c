--------------------------- MODULE StreamRequest ---------------------------
(***************************************************************************)
(* One /v1/messages request without server-side tools.  If it streams, the *)
(* handler goroutine (executeRetry, callAndHandle, handleStreamingResponse *)
(* and the SSEWriter it feeds) runs on a stream session, against its       *)
(* heartbeat, a client that may go away, and an upstream that may answer,  *)
(* fail or stop at any frame.  If it does not, there is no session: the    *)
(* handler collects an answer and writes the socket itself, once           *)
(* (handleNonStreamingResponse); the session's variables stay as they      *)
(* were, but for the socket and the header map, which are the response's.  *)
(*                                                                         *)
(* Each step of the handler is one call into the session, so the heartbeat *)
(* and the client can act between any two writes of one event.             *)
(*                                                                         *)
(* Abstracted: a content block is the "delta" items written for it; an     *)
(* upstream frame is what it makes the accumulator do (show text or a tool *)
(* call, hold text back for tag or stop-sequence matching, think, reach a  *)
(* local stop, or report an error).                                        *)
(***************************************************************************)
EXTENDS StreamSession, ResponseAccumulator

CONSTANTS MaxFrames     \* bound on the upstream frames of one attempt

VARIABLES
    pc,         \* where the handler goroutine is
    resume,     \* where it goes when todo has been written
    todo,       \* SSEWriter: what is left to write of the current event
    attempt,    \* upstream calls made so far
    frames,     \* upstream frames read in this attempt
    request,    \* stream: its form.  drain: the model delivers reasoning after a
                \* tool call (SetDrainOnStop)
    writer,     \* SSEWriter of this attempt: started, visibleFired, writeErr
    acc,        \* what the accumulator of this attempt has seen
    ended,      \* how ParseStream ended: streamErr, localStop, readErr, eof
    cause,      \* what the upstream error was
    gone,       \* history: the client went away
    base        \* history: serial number of the last item before this attempt

handlerVars == <<pc, resume, todo, attempt, frames, request, writer, acc, ended, cause>>
reqVars     == <<handlerVars, gone, base>>
allVars     == <<vars, reqVars>>

SseKinds == {"message_start", "delta", "message_stop", "error"}

ASSUME SseKindsAssumption == EventKinds = SseKinds /\ MaxFrames \in Nat

NewWriter == [started |-> FALSE, fired |-> FALSE, err |-> FALSE]

goto(label) == pc' = label

----------------------------------------------------------------------------
\* SSEWriter: the items an operation writes, given the writer's state.

EnsureStarted(w) == IF w.started THEN <<>> ELSE <<"message_start">>
FireVisible(w)   == IF w.fired THEN <<>> ELSE <<"promote">>

After(w, ops) == [w EXCEPT !.started = @ \/ "message_start" \in Range(ops),
                           !.fired   = @ \/ "promote" \in Range(ops)]

\* Mutant: the block of a tool call does not count as visible.
ShownToolsHeldBack(w, kind) ==
    CASE kind = "text"                  -> EnsureStarted(w) \o FireVisible(w) \o <<"delta">>
      [] kind \in {"tool", "reasoning"} -> EnsureStarted(w) \o <<"delta">>
      [] kind = "redacted"              -> EnsureStarted(w)
      [] OTHER                          -> <<>>

Shown(w, kind) ==
    CASE kind \in {"text", "tool"} -> EnsureStarted(w) \o FireVisible(w) \o <<"delta">>
      [] kind = "reasoning"        -> EnsureStarted(w) \o <<"delta">>
      [] kind = "redacted"         -> EnsureStarted(w)
      [] OTHER                     -> <<>>

\* Finish shows what is still held back, then closes the message.
Finish(w, a) ==
    EnsureStarted(w)
        \o (IF a.held THEN FireVisible(w) \o <<"delta">> ELSE <<>>)
        \o <<"message_stop">>

\* The handler is about to write ops and then continue at label.
Emit(ops, label) ==
    /\ todo' = ops
    /\ writer' = After(writer, ops)
    /\ goto("emit")
    /\ resume' = label

\* One operation of todo.  A failed write makes the writer skip the rest.
EmitNext ==
    /\ pc = "emit" /\ todo # <<>>
    /\ UNCHANGED <<pc, resume, attempt, frames, request, acc, ended, cause, gone, base>>
    /\ LET op == Head(todo)
       IN  \/ /\ op = "promote" /\ ~Unavailable /\ ~promoted
              /\ Promote
              /\ writer' = [writer EXCEPT !.err = @ \/ firstErr']
              /\ todo' = Tail(todo)
           \/ /\ op = "promote" /\ (Unavailable \/ promoted)
              /\ writer' = [writer EXCEPT !.err = @ \/ Unavailable]
              /\ todo' = Tail(todo)
              /\ UNCHANGED vars
           \/ /\ op \in SseKinds /\ ~writer.err /\ ~Unavailable
              /\ Write(op)
              /\ writer' = [writer EXCEPT !.err = firstErr']
              /\ todo' = IF promoted THEN <<"flush">> \o Tail(todo) ELSE Tail(todo)
           \/ /\ op \in SseKinds /\ (writer.err \/ Unavailable)
              /\ writer' = [writer EXCEPT !.err = TRUE]
              /\ todo' = Tail(todo)
              /\ UNCHANGED vars
           \/ /\ op = "flush"
              /\ todo' = Tail(todo)
              /\ Flush \/ (~CanFlush /\ UNCHANGED vars)
              /\ writer' = [writer EXCEPT !.err = @ \/ firstErr']

EmitDone ==
    /\ pc = "emit" /\ todo = <<>>
    /\ goto(resume)
    /\ resume' = "call"
    /\ UNCHANGED <<vars, todo, attempt, frames, request, writer, acc, ended,
                   cause, gone, base>>

----------------------------------------------------------------------------
\* GenerateAssistantResponse: a response to parse, or an error.  A cancelled
\* context makes it fail.  Each attempt has a writer and accumulator of its own.
Call ==
    /\ pc = "call"
    /\ attempt' = attempt + 1
    /\ frames' = 0
    /\ base' = written
    /\ writer' = NewWriter
    /\ acc' = NewAcc
    /\ ended' = "none"
    /\ \/ ~cancelled /\ goto(IF request.stream THEN "headers" ELSE "parse") /\ cause' = "none"
       \/ goto("final") /\ cause' = "call"
    /\ UNCHANGED <<vars, resume, todo, request, gone>>

\* handleStreamingResponse installs the SSE headers, unless an earlier attempt
\* did or the response is already committed ...
SetHeaders ==
    /\ pc = "headers"
    /\ SetSSEHeaders \/ (~CanSetHeaders /\ UNCHANGED vars)
    /\ goto("start")
    /\ UNCHANGED <<resume, todo, attempt, frames, request, writer, acc, ended, cause,
                   gone, base>>

\* ... and launches the heartbeat, which the first attempt's call keeps running.
StartHeartbeat ==
    /\ pc = "start"
    /\ Start \/ UNCHANGED vars      \* a zero interval disables the heartbeat
    /\ ~CanStart => UNCHANGED vars
    /\ goto("parse")
    /\ UNCHANGED <<resume, todo, attempt, frames, request, writer, acc, ended, cause,
                   gone, base>>

EndParse(how) ==
    /\ ended' = how
    /\ goto("ended")

\* ParseStream gives up before a frame when the context is done ...
CheckContext ==
    /\ pc = "parse"
    /\ \/ cancelled /\ EndParse("readErr")
       \/ ~cancelled /\ goto("read") /\ UNCHANGED ended
    /\ UNCHANGED <<vars, resume, todo, attempt, frames, request, writer, acc, cause, gone, base>>

\* ... and ends at EOF or on a read or decode error.
ParseEnds ==
    /\ pc = "read"
    /\ EndParse("readErr") \/ EndParse("eof")
    /\ UNCHANGED <<vars, resume, todo, attempt, frames, request, writer, acc, cause, gone, base>>

\* An upstream error frame.
ErrorFrame ==
    /\ pc = "read" /\ frames < MaxFrames
    /\ frames' = frames + 1
    /\ cause' \in {"retryable", "fatal"}
    /\ EndParse("streamErr")
    /\ UNCHANGED <<vars, resume, todo, attempt, request, writer, acc, gone, base>>

\* A content frame.  After a local stop (only a draining stream reads on) the
\* accumulator ignores content; a local stop finishes the message at once
\* unless the stream drains.
ContentFrame ==
    /\ pc = "read" /\ request.stream /\ frames < MaxFrames
    /\ frames' = frames + 1
    /\ UNCHANGED <<vars, attempt, request, cause, gone, base>>
    /\ IF firstErr \/ writer.err
       THEN EndParse("streamErr") /\ UNCHANGED <<resume, todo, writer, acc>>
       ELSE /\ UNCHANGED ended
            /\ \E kind \in FrameKinds, halts, left \in BOOLEAN :
                LET live == Live(acc, kind)
                    a == IF live THEN Accumulate(acc, kind, halts, left) ELSE acc
                    shown == IF live THEN Shown(writer, kind) ELSE <<>>
                IN  /\ left => MayLeave(acc, kind)
                    /\ halts => ~acc.stop
                    /\ acc' = a
                    /\ IF live /\ a.stop /\ ~(request.drain /\ a.tool)
                       THEN Emit(shown \o Finish(After(writer, shown), a), "stopped")
                       ELSE Emit(shown, "framed")

\* Mutant: the callback reads on behind a local stop that has closed the message.
FrameHandledReadsOn ==
    /\ pc \in {"framed", "stopped"}
    /\ IF firstErr \/ writer.err THEN EndParse("streamErr")
       ELSE goto("parse") /\ UNCHANGED ended
    /\ UNCHANGED <<vars, resume, todo, attempt, frames, request, writer, acc, cause, gone, base>>

\* The parse callback after HandleEvent.
FrameHandled ==
    /\ pc \in {"framed", "stopped"}
    /\ IF firstErr \/ writer.err THEN EndParse("streamErr")
       ELSE IF pc = "stopped" THEN EndParse("localStop")
       ELSE goto("parse") /\ UNCHANGED ended
    /\ UNCHANGED <<vars, resume, todo, attempt, frames, request, writer, acc, cause, gone, base>>

\* Without a stream the answer is only collected, to its end: a local stop
\* does not stop the reading.
CollectFrame ==
    /\ pc = "read" /\ ~request.stream /\ frames < MaxFrames
    /\ frames' = frames + 1
    /\ \E kind \in FrameKinds, halts, left \in BOOLEAN :
          /\ left => MayLeave(acc, kind)
          /\ halts => ~acc.stop
          /\ acc' = IF Live(acc, kind) THEN Accumulate(acc, kind, halts, left) ELSE acc
    /\ goto("parse")
    /\ UNCHANGED <<vars, resume, todo, attempt, request, writer, ended, cause, gone, base>>

----------------------------------------------------------------------------
\* handleStreamingResponse after ParseStream.
Ended ==
    /\ pc = "ended" /\ request.stream
    /\ UNCHANGED <<vars, attempt, frames, request, ended, cause, gone, base>>
    /\ \/ /\ writer.err \/ firstErr \/ cancelled
          /\ goto("return") /\ UNCHANGED <<resume, todo, writer, acc>>
       \/ /\ ~(writer.err \/ firstErr \/ cancelled)
          /\ CASE ended = "streamErr" /\ cause = "retryable" /\ ~promoted ->
                    goto("retry") /\ UNCHANGED <<resume, todo, writer, acc>>
               [] ended = "readErr" \/ (ended = "streamErr" /\ (cause # "retryable" \/ promoted)) ->
                    goto("final") /\ UNCHANGED <<resume, todo, writer, acc>>
               [] ended = "localStop" ->
                    goto("finished") /\ UNCHANGED <<resume, todo, writer, acc>>
               [] ended = "eof" ->
                    /\ acc' = Finalize(acc)
                    /\ Emit(Finish(writer, acc), "finished")

\* Mutant: a finished message is left in the buffer.
FinishedUnsent ==
    /\ pc = "finished"
    /\ goto(IF ~writer.err /\ ended = "eof" /\ IsEmptyVisibleEndTurn(acc) /\ ~promoted
            THEN "retry" ELSE "return")
    /\ UNCHANGED <<vars, resume, todo, attempt, frames, request, writer, acc, ended, cause, gone, base>>

\* An answer with nothing visible in it is dropped and asked for again; any
\* other is promoted, if its text has not done that already.
Finished ==
    /\ pc = "finished"
    /\ \/ /\ writer.err
          /\ goto("return") /\ UNCHANGED vars
       \/ /\ ~writer.err /\ ended = "eof" /\ IsEmptyVisibleEndTurn(acc) /\ ~promoted
          /\ goto("retry") /\ UNCHANGED vars
       \/ /\ ~writer.err /\ ~(ended = "eof" /\ IsEmptyVisibleEndTurn(acc) /\ ~promoted)
          /\ goto("return")
          /\ \/ ~promoted /\ Promote
             \/ (promoted \/ Unavailable) /\ UNCHANGED vars
    /\ UNCHANGED <<resume, todo, attempt, frames, request, writer, acc, ended, cause, gone, base>>

\* handleNonStreamingResponse after ParseStream: whoever reads along, there is
\* an answer to write, an error, or a reason to ask again.
Collected ==
    /\ pc = "ended" /\ ~request.stream
    /\ acc' = IF ended = "eof" THEN Finalize(acc) ELSE acc
    /\ goto(CASE ended = "eof" /\ ~IsEmptyVisibleEndTurn(acc')       -> "reply"
               [] ended = "eof" /\ IsEmptyVisibleEndTurn(acc')        -> "retry"
               [] ended = "streamErr" /\ cause = "retryable"          -> "retry"
               [] OTHER                                               -> "final")
    /\ UNCHANGED <<vars, resume, todo, attempt, frames, request, writer, ended, cause, gone, base>>

\* The response of a request that is not streamed, its only write.
WriteBody(code) ==
    /\ contentType' = "json"
    /\ SocketWrite(<<JsonBody>>, code)
    /\ UNCHANGED <<buf, promoted, finalizing, finalized, pendingFlush, activity, hb, stop,
                   historyVars>>

Reply ==
    /\ pc = "reply"
    /\ WriteBody("ok")
    /\ goto("return")
    /\ UNCHANGED <<resume, todo, attempt, frames, request, writer, acc, ended, cause, gone, base>>

ReplyError ==
    /\ pc = "final" /\ ~request.stream
    /\ WriteBody("error")
    /\ goto("return")
    /\ UNCHANGED <<resume, todo, attempt, frames, request, writer, acc, ended, cause, gone, base>>

\* Mutant: a retry keeps the bytes of the failed attempt in the buffer.
RetryKeepsBytes ==
    /\ pc = "retry"
    /\ UNCHANGED vars
    /\ goto(IF attempt = 1 THEN "call" ELSE "final")
    /\ cause' = IF attempt = 1 THEN cause ELSE "exhausted"
    /\ UNCHANGED <<resume, todo, attempt, frames, request, writer, acc, ended, gone, base>>

\* A stream's attempt is discarded; executeRetry calls once more or, after the
\* second attempt, reports the failure.
Retry ==
    /\ pc = "retry"
    /\ IF request.stream THEN Discard ELSE UNCHANGED vars
    /\ goto(IF attempt = 1 THEN "call" ELSE "final")
    /\ cause' = IF attempt = 1 THEN cause ELSE "exhausted"
    /\ UNCHANGED <<resume, todo, attempt, frames, request, writer, acc, ended, gone, base>>

----------------------------------------------------------------------------
\* WriteFinalError, with SSEWriter.WriteError as callback when a response was
\* being streamed.
FinalError ==
    /\ pc = "final" /\ request.stream
    /\ \/ /\ Unavailable
          /\ goto("return") /\ UNCHANGED <<vars, todo, resume, writer>>
       \/ /\ promoted /\ cause \notin {"call", "exhausted"}
          /\ FinalErrorBegin
          /\ Emit(<<"delta", "error">>, "closing")
       \/ /\ ~promoted \/ cause \in {"call", "exhausted"}
          /\ FinalErrorSSE \/ FinalErrorJSON
          /\ goto("return") /\ UNCHANGED <<todo, resume, writer>>
    /\ UNCHANGED <<attempt, frames, request, acc, ended, cause, gone, base>>

FinalErrorClosed ==
    /\ pc = "closing"
    /\ FinalErrorEnd
    /\ goto("return")
    /\ UNCHANGED <<resume, todo, attempt, frames, request, writer, acc, ended, cause, gone, base>>

\* The handler returns, its locals die with it, through defer session.Stop()
\* if there is a session.
Return ==
    /\ pc = "return"
    /\ IF request.stream THEN StopFlag \/ StopSignal \/ StopJoin ELSE UNCHANGED vars
    /\ goto(IF request.stream /\ stop' # "returned" THEN "return" ELSE "done")
    /\ frames' = 0 /\ writer' = NewWriter /\ acc' = NewAcc
    /\ ended' = "none" /\ cause' = "none"
    /\ UNCHANGED <<resume, todo, attempt, request, gone, base>>

ClientLeaves ==
    /\ pc # "done"
    /\ ClientGone
    /\ gone' = TRUE
    /\ UNCHANGED <<handlerVars, base>>

----------------------------------------------------------------------------
ReqInit ==
    /\ Init
    /\ pc = "call" /\ resume = "call" /\ todo = <<>>
    /\ attempt = 0 /\ frames = 0
    /\ request \in {r \in [stream : BOOLEAN, drain : BOOLEAN] : r.drain => r.stream}
    /\ writer = NewWriter /\ acc = NewAcc
    /\ ended = "none" /\ cause = "none"
    /\ gone = FALSE /\ base = 0

Handler == EmitNext \/ EmitDone \/ Call \/ SetHeaders \/ StartHeartbeat \/ CheckContext
              \/ ParseEnds \/ ErrorFrame \/ ContentFrame \/ FrameHandled \/ Ended \/ Finished
              \/ CollectFrame \/ Collected \/ Reply \/ ReplyError
              \/ Retry \/ FinalError \/ FinalErrorClosed \/ Return

HeartbeatStep == Heartbeat /\ UNCHANGED reqVars

ReqNext == Handler \/ HeartbeatStep \/ ClientLeaves

\* The goroutines keep running.  The upstream may stall at a frame, but not for
\* ever: the idle reader turns a stalled body into a read error.
ReqSpec == ReqInit /\ [][ReqNext]_allVars /\ WF_allVars(Handler) /\ WF_allVars(HeartbeatStep)

----------------------------------------------------------------------------
\* What the client has been shown: the whole items on the wire, by their kinds.
Whole == IF torn THEN SubSeq(wire, 1, Len(wire) - 1) ELSE wire
ShownKinds == [i \in DOMAIN Whole |-> Whole[i].kind]

View == INSTANCE ClientView WITH shown <- ShownKinds, streamed <- request.stream

\* Whatever the upstream, the retries, the heartbeat and the client do, the
\* client is shown one message, opened and closed at most once and extended by
\* nothing once it is closed, or one error in the form its decision table gives.
ClientSeesOneMessage == View!Spec

\* The last thing sent, keep-alives aside, completes the message or reports an
\* error, under the content type that says what it is.
AnsweredInForm ==
    \E i \in DOMAIN wire :
        /\ wire[i].kind \in {"message_stop", "error", "json"}
        /\ \A j \in DOMAIN wire : j > i => wire[j] = KeepAlive
        /\ wire[i].kind # "json" => head = [code |-> "ok", type |-> "sse"]

\* A request whose client stayed and whose socket worked is answered, in its form.
Answered ==
    pc = "done" /\ ~gone /\ ~firstErr =>
        /\ AnsweredInForm
        /\ ~request.stream => Len(wire) = 1 /\ head.type = "json"

\* A stream streams: whatever the upstream does next, text and tool calls that
\* have been read are with the client, and all before them, in no buffer of the
\* session's nor unflushed in the socket's, although reasoning may be held back
\* and SSEWriter and session each remember on their own whether it still is.
\* (fireVisible, onVisible's Promote, writeRawSSE's Flush.)
VisibleIsSent ==
    request.stream /\ pc \in {"parse", "read"} /\ (acc.text \/ acc.tool) /\ ~gone /\ ~firstErr
        => promoted /\ buf = <<>> /\ ~pendingFlush /\ Range(kept) \subseteq Range(wire)

\* The message on the wire comes from one attempt: a retry starts only when
\* nothing of the previous attempt was sent, and nothing of it is sent later.
OneAttemptShown ==
    \A i \in DOMAIN wire : Semantic(wire[i]) => wire[i].id > base

\* The handler always returns, and with it the heartbeat is gone.
RequestEnds == <>(pc = "done" /\ hb \in {"none", "exited"})
=============================================================================
