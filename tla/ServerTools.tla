---------------------------- MODULE ServerTools ----------------------------
(***************************************************************************)
(* One /v1/messages request with server-side tools: tool search and the    *)
(* advisor, which the proxy runs itself (serverToolOrchestrator).  One     *)
(* message to the client is put together from several upstream answers:    *)
(* when the model calls a server tool, the call is kept from the client,   *)
(* run, shown to the client with its result, added to the conversation,    *)
(* and the model asked again.  runServerToolsWithRetry runs the loop a     *)
(* second time if the first run showed nothing.                            *)
(*                                                                         *)
(* Both forms of the answer are here: streamed through a session, and one  *)
(* JSON body at the end.  The session is reduced to what StreamSession     *)
(* promises: what is written is buffered until promoted, and after a       *)
(* failure or the client's departure writes do nothing.                    *)
(***************************************************************************)
EXTENDS Naturals, Sequences, ResponseAccumulator

CONSTANTS
    DeferredTools,          \* the tools a search may find
    MaxToolSearchRounds,    \* maxToolSearchRounds
    MaxServerToolRounds,    \* maxServerToolRounds
    MaxUses,                \* max_uses of the advisor
    AdvisorEmptyRetries,    \* advisorEmptyRetries
    MaxFrames               \* bound on the upstream frames of one answer

ASSUME RoundsAssumption ==
    /\ MaxToolSearchRounds \in Nat \ {0} /\ MaxServerToolRounds \in Nat \ {0}
    /\ MaxUses \in Nat /\ AdvisorEmptyRetries \in Nat /\ MaxFrames \in Nat

VARIABLES
    stream,     \* the client asked for a stream
    tools,      \* which server tools the request defines
    preflight,  \* the advisor's definition is unusable (PreflightError)
    drain,      \* the model delivers reasoning after a tool call
    run,        \* which run of the loop this is
    round,      \* round of this run, from 0
    pc,         \* where the handler goroutine is
    frames,     \* upstream frames read in this round
    acc,        \* what the accumulator of this round has seen
    called,     \* the server tool intercepted in this round
    ended,      \* how ParseStream ended
    tries,      \* advisor subcalls made for this consultation
    uses,       \* advisor.Context.uses
    deferred,   \* toolsearch.Context.DeferredTools
    msgs,       \* the server-tool rounds added to the conversation
    message,    \* the message written for the client by this run
    promoted,   \* streamSession.promoted: the message is being sent
    reply,      \* what ended the request: "none", "message" or "error"
    gone,       \* the client went away or its socket failed
    calls,      \* history: upstream calls made, by model
    finals,     \* history: times FinalizeStream ran on this accumulator
    overran     \* history: a tail tool call reached max_tokens, finishing the message

request  == <<stream, tools, preflight, drain>>
loopVars == <<run, round, pc, frames, acc, called, ended, tries>>
toolVars == <<uses, deferred, msgs>>
outVars  == <<message, promoted, reply>>
history  == <<calls, finals, overran>>
vars     == <<request, loopVars, toolVars, outVars, gone, history>>

Tools    == {"search", "advisor"}
None     == "none"
Outcomes == {"ok", "error", "max_uses"}
Results  == [tool : Tools, outcome : Outcomes, refs : SUBSET DeferredTools]

MaxRounds == IF "advisor" \in tools THEN MaxServerToolRounds ELSE MaxToolSearchRounds

\* What the client gets: whether message_start, how many message_stop and the
\* last stop_reason were written, whether anything followed a message_stop,
\* whether there are client tool calls to answer, and the server-tool calls,
\* of which use is one shown without its result so far.
NewMessage == [open |-> FALSE, stops |-> 0, reason |-> None, late |-> FALSE,
               client |-> FALSE, use |-> None, results |-> <<>>]

goto(label) == pc' = label

----------------------------------------------------------------------------
\* SSEWriter.  Nothing is written once the client is gone.
Block(m) == [m EXCEPT !.open = TRUE, !.late = @ \/ m.stops > 0]

ShowFrame(m, kind) ==
    CASE kind = "tool"                  -> [Block(m) EXCEPT !.client = TRUE]
      [] kind \in {"text", "reasoning"} -> Block(m)
      [] kind = "redacted"              -> [m EXCEPT !.open = TRUE]
      [] OTHER                          -> m

Close(m, a) ==
    LET shown == IF a.held THEN Block(m) ELSE m
    IN  [shown EXCEPT !.open = TRUE, !.stops = @ + 1, !.reason = StopReason(a)]

ShowUse(m, tool) == [Block(m) EXCEPT !.use = tool]

ShowResult(m, result) ==
    [Block(m) EXCEPT !.use = None, !.results = Append(@, result)]

\* The message becomes m, a stream's sent at once if it shows something the
\* client can see.
Show(m, visible) ==
    IF stream /\ gone THEN UNCHANGED <<message, promoted>>
    ELSE message' = m /\ promoted' = (promoted \/ (stream /\ visible))

----------------------------------------------------------------------------
\* GenerateAssistantResponse for the next round.  Building the payload never
\* fails.  From the second round on the stream's accumulator is replaced, and
\* what it was holding back with it; the JSON form makes a new one each round.
Call ==
    /\ pc = "call"
    /\ calls' = [calls EXCEPT !.executor = @ + 1]
    /\ \/ /\ ~gone
          /\ goto("parse") /\ frames' = 0 /\ called' = None /\ ended' = None
          /\ acc' = NewAcc /\ finals' = 0
       \/ /\ goto("fail") /\ UNCHANGED <<frames, called, ended, acc, finals>>
    /\ UNCHANGED <<request, run, round, tries, toolVars, outVars, gone, overran>>

EndParse(how) == ended' = how /\ goto("ended")

\* ParseStream ends: EOF, or a read error, which a cancelled context causes too.
ParseEnds ==
    /\ pc = "parse"
    /\ EndParse("readErr") \/ EndParse("eof")
    /\ UNCHANGED <<request, run, round, frames, acc, called, tries, toolVars, outVars, gone, history>>

\* An upstream error ends the round, before or after a server tool was called.
ErrorFrame ==
    /\ pc = "parse" /\ frames < MaxFrames
    /\ frames' = frames + 1
    /\ EndParse("streamErr")
    /\ UNCHANGED <<request, run, round, acc, called, tries, toolVars, outVars, gone, history>>

\* The model calls a server tool.  Only the first call of a round counts; the
\* JSON form also ignores one after a local stop.
ServerToolFrame ==
    /\ pc = "parse" /\ frames < MaxFrames
    /\ frames' = frames + 1
    /\ called' \in IF called # None \/ (~stream /\ acc.stop) THEN {called} ELSE tools
    /\ UNCHANGED <<request, run, round, pc, acc, ended, tries, toolVars, outVars, gone, history>>

\* A content frame of a streamed answer before any server tool is called.
StreamFrame ==
    /\ pc = "parse" /\ stream /\ called = None /\ frames < MaxFrames
    /\ frames' = frames + 1
    /\ IF gone
       THEN EndParse("streamErr") /\ UNCHANGED <<acc, outVars, finals>>
       ELSE \E kind \in FrameKinds, halts, left \in BOOLEAN :
                LET a == IF Live(acc, kind) THEN Accumulate(acc, kind, halts, left) ELSE acc
                    m == IF Live(acc, kind) THEN ShowFrame(message, kind) ELSE message
                    visible == Live(acc, kind) /\ kind \in {"text", "tool"}
                IN  /\ left => MayLeave(acc, kind)
                    /\ halts => ~acc.stop
                    /\ UNCHANGED reply
                    /\ IF Live(acc, kind) /\ a.stop /\ ~(drain /\ a.tool)
                       THEN /\ EndParse("localStop")
                            /\ acc' = Finalize(a) /\ finals' = finals + 1
                            /\ Show(Close(m, a), visible \/ a.held)
                       ELSE /\ acc' = a /\ Show(m, visible)
                            /\ UNCHANGED <<pc, ended, finals>>
    /\ UNCHANGED <<request, run, round, called, tries, toolVars, gone, calls, overran>>

\* After it, client tool calls are still shown, redacted reasoning is recorded
\* for the next round, and all other content is skipped.
TailFrame ==
    /\ pc = "parse" /\ stream /\ called # None /\ frames < MaxFrames
    /\ frames' = frames + 1
    /\ \E kind \in {"tool", "redacted", "other"}, halts, left \in BOOLEAN :
        LET live == Live(acc, kind)
            a == IF live THEN Accumulate(acc, kind, halts, left) ELSE acc
            m == IF live /\ kind = "tool" THEN ShowFrame(message, kind) ELSE message
        IN  /\ left => acc.held
            /\ halts => ~acc.stop
            /\ IF live /\ kind = "tool" /\ halts /\ ~drain
               THEN /\ EndParse("localStop")
                    /\ acc' = Finalize(a) /\ finals' = finals + 1 /\ overran' = TRUE
                    /\ Show(Close(m, a), TRUE)
               ELSE /\ acc' = a /\ Show(m, live /\ kind = "tool")
                    /\ UNCHANGED <<pc, ended, finals, overran>>
    /\ UNCHANGED <<request, run, round, called, tries, toolVars, reply, gone, calls>>

\* A content frame of an answer that is not streamed, before or after a server
\* tool is called; the frames after a local stop are read as well.
JsonFrame ==
    /\ pc = "parse" /\ ~stream /\ frames < MaxFrames
    /\ frames' = frames + 1
    /\ \E kind \in FrameKinds, halts, left \in BOOLEAN :
        /\ left => MayLeave(acc, kind)
        /\ halts => ~acc.stop
        /\ acc' = IF Live(acc, kind) THEN Accumulate(acc, kind, halts, left) ELSE acc
    /\ UNCHANGED <<request, run, round, pc, called, ended, tries, toolVars, outVars, gone, history>>

----------------------------------------------------------------------------
\* After ParseStream: a round that failed is never continued, whatever the model
\* called before.  (The JSON form does not look whether the client is gone.)
Ended ==
    /\ pc = "ended"
    /\ \/ stream /\ gone /\ goto("done")
       \/ ended \in {"streamErr", "readErr"} /\ (~stream \/ ~gone) /\ goto("fail")
       \/ ended \in {"eof", "localStop"} /\ (~stream \/ ~gone) /\ goto("read")
    /\ frames' = 0
    /\ UNCHANGED <<request, run, round, acc, called, ended, tries, toolVars, outVars,
                   gone, history>>

\* Mutant: an answer that reached a local stop is closed again.
ReadClosesAgain ==
    /\ pc = "read"
    /\ acc' = Finalize(acc) /\ finals' = finals + 1
    /\ Show(Close(message, acc), acc.held)
    /\ goto(IF called # None THEN "use" ELSE "answered")
    /\ UNCHANGED <<request, run, round, frames, called, ended, tries, toolVars, reply, gone,
                   calls, overran>>

\* The JSON form finalizes every answer and takes over its content; the stream
\* finalizes the one without a server tool, unless a local stop did that.
Read ==
    /\ pc = "read"
    /\ goto(IF called # None THEN "use" ELSE "answered")
    /\ IF ~stream
       THEN /\ acc' = Finalize(acc) /\ finals' = finals + 1
            /\ message' = [message EXCEPT !.open = TRUE, !.client = @ \/ acc.tool,
                                          !.reason = StopReason(acc)]
            /\ UNCHANGED promoted
       ELSE IF called = None /\ ended = "eof"
       THEN /\ acc' = Finalize(acc) /\ finals' = finals + 1
            /\ Show(Close(message, acc), acc.held)
       ELSE UNCHANGED <<acc, finals, message, promoted>>
    /\ UNCHANGED <<request, run, round, frames, called, ended, tries, toolVars, reply, gone,
                   calls, overran>>

\* Mutant: the retry does not look whether the message is already being sent.
WorthRetryThoughSent == ended = "eof" /\ IsEmptyVisibleEndTurn(acc)

WorthRetry == ended = "eof" /\ IsEmptyVisibleEndTurn(acc) /\ ~promoted

\* An answer without a server tool ends the loop: run it again if it showed
\* nothing, else send the message.
Answered ==
    /\ pc = "answered"
    /\ \/ WorthRetry /\ goto("retry")
       \/ ~WorthRetry /\ goto("send")
       \/ stream /\ gone /\ goto("done")
    /\ UNCHANGED <<request, run, round, frames, acc, called, ended, tries, toolVars, outVars,
                   gone, history>>

\* Discard the buffer and run the loop once more, or give up.  The uses and
\* the found tools stay as they are; the conversation starts again.
Retry ==
    /\ pc = "retry"
    /\ message' = NewMessage
    /\ IF run = 1
       THEN run' = 2 /\ round' = 0 /\ msgs' = <<>> /\ acc' = NewAcc /\ goto("call")
       ELSE UNCHANGED <<run, round, msgs, acc>> /\ goto("fail")
    /\ UNCHANGED <<request, frames, called, ended, tries, uses, deferred, promoted, reply,
                   gone, history>>

----------------------------------------------------------------------------
\* Start the intercepted tool and show its call.  A search whose input is not
\* JSON ends the request.
Use ==
    /\ pc = "use"
    /\ \/ called = "search" /\ goto("fail") /\ UNCHANGED <<message, promoted, tries>>
       \/ /\ goto(IF called = "advisor" THEN "consult" ELSE "search")
          /\ tries' = 0
          /\ Show(ShowUse(message, called), TRUE)
    /\ UNCHANGED <<request, run, round, frames, acc, called, ended, toolVars, reply, gone, history>>

\* Mutant: the result is shown but not added to the conversation.
AnswerUnrecorded(outcome, refs) ==
    LET result == [tool |-> called, outcome |-> outcome, refs |-> refs]
    IN  \/ gone /\ goto("done") /\ UNCHANGED <<message, promoted, msgs>>
        \/ ~gone /\ Show(ShowResult(message, result), TRUE) /\ UNCHANGED msgs /\ goto("next")

\* Show the result and add the call and its result to the conversation.
Answer(outcome, refs) ==
    LET result == [tool |-> called, outcome |-> outcome, refs |-> refs]
    IN  \/ stream /\ gone /\ goto("done") /\ UNCHANGED <<message, promoted, msgs>>
        \/ /\ ~stream \/ ~gone
           /\ Show(ShowResult(message, result), TRUE)
           /\ msgs' = Append(msgs, result)
           /\ goto("next")

\* executeSearch: what is found becomes callable and is not found again.
Search ==
    /\ pc = "search"
    /\ \/ \E found \in SUBSET deferred :
            /\ deferred' = deferred \ found
            /\ Answer("ok", found)
       \/ Answer("error", {}) /\ UNCHANGED deferred
    /\ UNCHANGED <<request, run, round, frames, acc, called, ended, tries, uses, reply, gone, history>>

\* Mutant: a consultation is not counted.
ConsultUncounted ==
    /\ pc = "consult"
    /\ \/ preflight /\ Answer("error", {}) /\ UNCHANGED uses
       \/ ~preflight /\ uses >= MaxUses /\ Answer("max_uses", {}) /\ UNCHANGED uses
       \/ /\ ~preflight /\ uses < MaxUses
          /\ uses' = uses
          /\ goto("subcall") /\ UNCHANGED <<msgs, message, promoted>>
    /\ UNCHANGED <<request, run, round, frames, acc, called, ended, tries, deferred, reply, gone, history>>

\* consultAdvisor: one consultation is one use, if there are any left.
Consult ==
    /\ pc = "consult"
    /\ \/ preflight /\ Answer("error", {}) /\ UNCHANGED uses
       \/ ~preflight /\ uses >= MaxUses /\ Answer("max_uses", {}) /\ UNCHANGED uses
       \/ /\ ~preflight /\ uses < MaxUses
          /\ uses' = uses + 1
          /\ goto("subcall") /\ UNCHANGED <<msgs, message, promoted>>
    /\ UNCHANGED <<request, run, round, frames, acc, called, ended, tries, deferred, reply, gone, history>>

\* runAdvisorSubcall: an answer, a failure, or nothing, which is tried again.
Subcall ==
    /\ pc = "subcall"
    /\ calls' = [calls EXCEPT !.advisor = @ + 1]
    /\ \/ /\ tries < AdvisorEmptyRetries /\ tries' = tries + 1
          /\ UNCHANGED <<pc, msgs, message, promoted>>
       \/ (\E outcome \in {"ok", "error"} : Answer(outcome, {})) /\ tries' = 0
    /\ UNCHANGED <<request, run, round, frames, acc, called, ended, uses, deferred, reply, gone,
                   finals, overran>>

\* Mutant: client tool calls next to a server tool's do not end the turn.
NextRoundIgnoresClient ==
    /\ pc = "next"
    /\ IF round + 1 < MaxRounds
       THEN goto("call") /\ round' = round + 1
       ELSE goto(IF stream THEN "close" ELSE "send") /\ UNCHANGED round
    /\ UNCHANGED <<request, run, frames, acc, called, ended, tries, toolVars, outVars, gone, history>>

\* Another round, unless the client has tool calls to answer or the rounds are up.
NextRound ==
    /\ pc = "next"
    /\ IF ~acc.tool /\ round + 1 < MaxRounds
       THEN goto("call") /\ round' = round + 1
       ELSE goto(IF stream THEN "close" ELSE "send") /\ UNCHANGED round
    /\ UNCHANGED <<request, run, frames, acc, called, ended, tries, toolVars, outVars, gone, history>>

\* The stream is finished with the accumulator of the last round ...
CloseStream ==
    /\ pc = "close"
    /\ acc' = Finalize(acc) /\ finals' = finals + 1
    /\ Show(Close(message, acc), acc.held)
    /\ goto("send")
    /\ UNCHANGED <<request, run, round, frames, called, ended, tries, toolVars, reply, gone,
                   calls, overran>>

\* ... and promoted if that has not happened yet; the JSON body is written.
Send ==
    /\ pc = "send"
    /\ goto("done")
    /\ IF stream /\ gone THEN UNCHANGED outVars
       ELSE /\ reply' = "message"
            /\ promoted' = stream
            /\ message' = IF stream THEN message ELSE [message EXCEPT !.stops = 1]
    /\ UNCHANGED <<request, run, round, frames, acc, called, ended, tries, toolVars, gone, history>>

\* Mutant: an error is reported only in a message that is already being sent.
FailOnlyPromoted ==
    /\ pc = "fail"
    /\ goto("done")
    /\ IF stream /\ (gone \/ ~promoted) THEN UNCHANGED <<message, reply>>
       ELSE /\ reply' = "error"
            /\ message' = IF promoted THEN [message EXCEPT !.late = @ \/ message.stops > 0]
                                      ELSE NewMessage
    /\ UNCHANGED <<request, run, round, frames, acc, called, ended, tries, toolVars, promoted, gone, history>>

\* WriteFinalError, or the JSON error: what was not sent yet is dropped.
Fail ==
    /\ pc = "fail"
    /\ goto("done")
    /\ IF stream /\ gone THEN UNCHANGED <<message, reply>>
       ELSE /\ reply' = "error"
            /\ message' = IF promoted THEN [message EXCEPT !.late = @ \/ message.stops > 0]
                                      ELSE NewMessage
    /\ UNCHANGED <<request, run, round, frames, acc, called, ended, tries, toolVars, promoted, gone, history>>

ClientGone ==
    /\ ~gone /\ pc # "done"
    /\ gone' = TRUE
    /\ UNCHANGED <<request, loopVars, toolVars, outVars, history>>

----------------------------------------------------------------------------
Init ==
    /\ stream \in BOOLEAN /\ preflight \in BOOLEAN /\ drain \in BOOLEAN
    /\ tools \in SUBSET Tools \ {{}}
    /\ preflight => "advisor" \in tools
    /\ drain => stream      \* the JSON form never drains
    /\ run = 1 /\ round = 0 /\ pc = "call" /\ frames = 0 /\ acc = NewAcc
    /\ called = None /\ ended = None /\ tries = 0
    /\ uses = 0 /\ deferred = DeferredTools /\ msgs = <<>>
    /\ message = NewMessage /\ promoted = FALSE /\ reply = None /\ gone = FALSE
    /\ calls = [executor |-> 0, advisor |-> 0]
    /\ finals = 0 /\ overran = FALSE

Parse   == ParseEnds \/ ErrorFrame \/ ServerToolFrame \/ StreamFrame \/ TailFrame \/ JsonFrame
RunTool == Use \/ Search \/ Consult \/ Subcall
Handler == Call \/ Parse \/ Ended \/ Read \/ Answered \/ Retry \/ RunTool \/ NextRound
              \/ CloseStream \/ Send \/ Fail
Next    == Handler \/ ClientGone

\* The handler keeps running: every upstream call and every read ends, if only
\* by its timeout.
Spec == Init /\ [][Next]_vars /\ WF_vars(Handler)

----------------------------------------------------------------------------
Messages == [open : BOOLEAN, stops : Nat, reason : {None, "stopped", "tool_use", "end_turn"},
             late : BOOLEAN, client : BOOLEAN, use : Tools \cup {None}, results : Seq(Results)]

TypeOK ==
    /\ stream \in BOOLEAN /\ preflight \in BOOLEAN /\ drain \in BOOLEAN /\ tools \subseteq Tools
    /\ run \in 1..2 /\ round \in 0..(MaxRounds - 1) /\ frames \in 0..MaxFrames
    /\ pc \in {"call", "parse", "ended", "read", "answered", "retry", "use", "search", "consult",
               "subcall", "next", "close", "send", "fail", "done"}
    /\ acc \in Accumulators
    /\ called \in Tools \cup {None}
    /\ ended \in {None, "streamErr", "readErr", "eof", "localStop"}
    /\ tries \in 0..AdvisorEmptyRetries /\ uses \in 0..MaxUses
    /\ deferred \subseteq DeferredTools /\ msgs \in Seq(Results)
    /\ message \in Messages
    /\ promoted \in BOOLEAN /\ reply \in {None, "message", "error"} /\ gone \in BOOLEAN
    /\ calls \in [executor : Nat, advisor : Nat]
    /\ finals \in Nat /\ overran \in BOOLEAN

\* However many upstream answers it is made of, the message is closed once and
\* nothing is written after that.  The exception is a client tool call that
\* reaches max_tokens behind a server tool's (see FinalizedOnce).
MessageEndsOnce == ~overran => message.stops <= 1 /\ ~message.late

\* The model is told of every server-tool call what the client was shown of it:
\* whenever it is asked again and when the message is complete, every call has
\* its result, in the same order, and the tools it found can be called.
ServerToolsAnswered ==
    ~gone /\ (pc = "call" \/ reply = "message") =>
        /\ message.use = None
        /\ msgs = message.results
        /\ \A i \in DOMAIN msgs : msgs[i].refs \cap deferred = {}

\* Rounds, runs, uses and retries together bound what one request can cost.
CallsBounded ==
    /\ calls.executor <= 2 * MaxRounds
    /\ calls.advisor <= MaxUses * (1 + AdvisorEmptyRetries)

\* The model is not asked again once the client has tool calls to answer, and
\* stop_reason tells the client whether it has.
TurnBelongsToClient ==
    /\ pc = "call" => ~message.client
    /\ reply = "message" /\ ~gone =>
        /\ message.reason = "tool_use" => message.client
        /\ message.client => message.reason \in {"tool_use", "stopped"}

\* The loop starts again only if nothing of its first run was sent, and keeps
\* nothing of its message.
OneRunShown == [][run' # run => ~promoted /\ reply = None /\ message' = NewMessage]_vars

\* The request always ends, and a client that stayed has its message or an error.
RequestEnds == <>(pc = "done" /\ (gone \/ reply # None))

\* An accumulator is finalized at most once (finalize.go).
FinalizedOnce == finals <= 1

=============================================================================
