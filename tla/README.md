# A TLA+ model of kirocc

kirocc is a proxy: it takes Anthropic `/v1/messages` requests from Claude Code,
turns them into Kiro API calls, and turns the Kiro event stream back into
Anthropic SSE events. It keeps almost nothing on disk, but a good deal happens
at once: a heartbeat writes to the client's socket next to the request handler,
retries run behind a response that may already be committed, and all requests
share one credential cache with a deduplicated refresh. This directory models
those parts, checks them with TLC and proves the most important properties with
TLAPS. Paths below are relative to the repository.

## Inventory

| Part | Code | State it keeps | Operations | Talks to |
|---|---|---|---|---|
| stream session | `internal/app/messages/stream_session.go`, `gate_writer.go` | semantic buffer, promoted / committed / finalizing / finalized / stopped flags, first error, activity slot, heartbeat goroutine | Start, Stop, Write, Flush, Promote, Discard, SetSSEHeaders, WriteKeepAlive, WriteFinalError | socket; SSE writer (callback into Promote); request context |
| request pipeline | `execute.go`, `response.go`, `errors.go` | attempt, retry reason, error classification; streamed or not | call, parse callback or collecting, finish, retry once, final error | Kiro client, event-stream parser, SSE writer, session |
| SSE writer, response accumulator | `internal/respconv` | message started, block open, visible output fired; text held back for stop sequences and thinking tags, rune budget, tool calls, usage | HandleEvent, Finish, WriteError, ResetAccumulator | session |
| event-stream parser | `internal/kiroproto` | tool call in progress | ParseStream, tool-use accumulation, flush at EOF | idle reader below, callback above |
| Kiro API client | `internal/kiroclient` | attempt, current token (per call) | up to three HTTP attempts, backoff, forced refresh on 403, idle timeout of the body | credential manager through the refresher of `cmd/kirocc/main.go` |
| credential manager | `internal/auth/refresh.go` | cached token, force flag, singleflight group | GetToken, ForceRefresh, InvalidateCache, refresh | kiro-cli's database (read-only), refresh endpoint |
| server-tool orchestrator, advisor, tool search | `servertool.go`, `advisor.go`, `internal/toolsearch`, `internal/advisor` | rounds, uses left, promoted tools, messages so far | intercept a tool call, run it, continue the stream | all of the above |
| request conversion | `internal/reqconv` | none of its own; the client's conversation comes back with every request | split, textualize and merge messages, order tool results, replay reasoning, shorten names, cache points, sanitise schemas | reads what SSE writer and server tools wrote a turn earlier |
| models and catalog | `internal/models`, `internal/kirocatalog`, `effort.go` | discovered mappings and efforts behind one RWMutex | SetCatalog, Resolve, ResolveKnown, ListModels, ResolveEffort | startup goroutine, request entry, advisor, `/v1/models` |
| server, lifecycle, config, logging, tracing | `internal/server`, `cmd/kirocc`, ... | none that decides anything | routing, key check, shutdown | |

What is hard here: the heartbeat can commit HTTP 200 between any two steps of
the handler; the session gives its lock away in the middle of a final error;
every socket write can fail or end in the middle of an event; a retry must not
show anything of the attempt it replaces; ForceRefresh is not atomic and shares
flights with GetToken; tokens captured at the start of a request outlive their
validity; the server-tool loop continues one SSE message over several
upstream streams; what one turn shows the client is what the next turn's payload
is made of, after the client has cut, repeated or extended it; and the model
catalog arrives while requests are being routed. What makes each part correct:

- **session**: one writer at a time on the wire, nothing after the end, no JSON
  on a committed response, no heartbeat after Stop, buffered text delivered once
  and in order or not at all;
- **pipeline**: every request whose client is still there is answered, with one
  complete message or one error, from one attempt;
- **credential manager**: never serve what it knows is expired, never refresh
  for nothing, and really refresh when forced;
- **client**: bounded attempts, no token tried again that was just rejected;
- **server tools**: one message however many rounds, the model and the client
  told the same about every tool, no round while the client has calls to answer,
  bounded rounds, uses and upstream calls;
- **event stream**: every tool call the upstream makes is handed on once, whole
  and under its own name, none before it is complete; a silent upstream does not
  hold the request for ever; a truncated answer is told from a complete one;
- **text pipeline**: all text shown once, none of it after a stop sequence or
  beyond the budget, wherever the upstream cuts it;
- **request conversion**: alternating roles, every call in the history answered
  in the next entry, nothing said lost or put into another's mouth, reasoning
  replayed only beside the calls of its own round, and a history that only grows;
- **models and catalog**: what a client was told of a model stays true, built-ins
  keep their routes and efforts, and the effort sent is one the model accepts.

`PROJECT.json` lists every component and, under `hazards`, each place in the
code where one of these things can go wrong.

## Modules

| Module | What it is |
|---|---|
| `StreamSession` | the session, one action per critical section; the handler calls its methods in any order |
| `StreamSessionProofs` | its inductive invariant and theorems |
| `ClientView` | abstract specification: what the client of a request may see |
| `StreamRequest` | the real handlers, streamed (on top of `StreamSession`) and not; implements `ClientView` |
| `StreamRequestProofs` | its inductive invariant and theorems, the refinement of `ClientView` among them |
| `AuthManager` | cache, force flag, singleflight, database and provider |
| `AuthManagerProofs` | its inductive invariant and theorems |
| `UpstreamCall` | requests with captured tokens and the client's attempt loop, on top of `AuthManager` |
| `UpstreamCallProofs` | that `UpstreamCall` implements `AuthManager`, its inductive invariant and theorems |
| `ResponseAccumulator` | what the accumulator remembers of an answer, as far as control depends on it; used by `StreamRequest` and `ServerTools` |
| `ToolUseAccumulator` | a tool call put together from its frames, as operators |
| `EventStream` | `ParseStream` over the idle reader, the network and the upstream behind it |
| `EventStreamProofs` | its inductive invariant and theorems |
| `TextPipeline` | thinking tags, stop sequences and `max_tokens` over text cut into chunks |
| `ServerTools` | the server-tool loop, streamed and not, with the advisor and tool search |
| `ServerToolsProofs` | its inductive invariant and theorems |
| `RequestConversion` | `internal/reqconv` as operators: from messages to history and current message |
| `Conversation` | a conversation over several turns: rounds, answers, the client, and `RequestConversion` on what comes back |
| `ConversationProofs` | what the passes of `RequestConversion` do to any messages; the inductive invariants of `Conversation` and theorems |
| `ModelCatalog` | routes, efforts and the model list, with discovery |
| `ModelCatalogProofs` | its inductive invariant and theorems |
| `MC*` | instances for TLC |

### StreamSession

Each action is one critical section of `streamSession.mu`. `wire` is what the
socket was given, `torn` that its last item is incomplete, `head` the status line
and content type the client saw. An item is a kind and, for what the handler
writes, a serial number, so that order and duplication can be told; keep-alives,
direct errors and the JSON body carry 0. `SocketWrite` chooses how many items get
out, whether the last is cut, and whether the write fails, which is what
`http.ResponseWriter.Write` may do. `Flush` and the flush after a write may fail
on their own. `hb` is the heartbeat's program counter: the check under the mutex,
then the `select` whose arms are `HeartbeatActivity`, `HeartbeatDone`,
`WriteKeepAlive` and `KeepAliveRefused`. The timer is not modelled: it may fire
whenever the heartbeat waits. `stop` follows `Stop` through its three steps, the
flag under the mutex, `close(stopCh)` with `cancel()`, and `wg.Wait()`.
`WriteFinalError` is four actions, one per row of its decision table, the
promoted row split where the code releases the mutex. `kept` is a history
variable: what was written and not discarded.

### StreamRequest and ClientView

`pc` is the handler goroutine between two calls into the session. The
`SSEWriter` turns an event into a list `todo` of session operations (open the
message, promote at the first visible output, write deltas, close it), and
`EmitNext` performs one of them at a time, so the heartbeat, a socket error and
the client's departure can fall between any two. An upstream frame is reduced to
what it makes the accumulator do: text, text held back, a tool call, reasoning,
redacted reasoning, nothing visible, each possibly reaching a local stop; a frame
may instead be an error, retryable or not, and the stream may end or break at any
frame. One delta stands for all the items of a content block.

`request` says which form was asked for. Without a stream there is no session:
`CollectFrame` only accumulates (a local stop does not end the reading there),
`Collected` decides as `handleNonStreamingResponse` does, whoever is still
connected, and `Reply` or `ReplyError` is the only write, straight to the socket.
The session's variables keep their initial values then, apart from the socket and
the header map, which belong to the response.

`ClientView` knows neither buffers nor attempts. Its state is the sequence of all the
client has been shown (`shown`): one message, opened before anything is made of it,
opened and closed at most once, with nothing but keep-alives behind its end; or an
error, as a JSON body only if nothing at all was shown before, and with nothing behind
it. `ClientSeesOneMessage` is its specification under the refinement mapping `View`,
which hides nothing: `shown` is the kind of every whole item on the wire, in order
(`ShownKinds`). So every item that is written must be a step of `ClientView`, and an
event after the message's end, or a second opening, is none. The promotion may show
many items at once, which are the beginning of a message (`Open`). The mutant reads on
behind a local stop, whose message is closed (`FrameHandledReadsOn`).

`VisibleIsSent` is what makes a stream a stream: between two upstream frames nothing
visible waits in one of the three places that hold output back.

### AuthManager

A token is its serial number, in the order the provider issued it; `valid` is the
set of tokens `isTokenValid` accepts, from which `Expire` takes them in any
order. `call[c]` is a goroutine inside `GetToken` or `ForceRefresh` (which raises
the flag, drops the cache and goes on as `GetToken`), `flight` the singleflight
call, with the steps of `refreshCredentials`: take the flag and look at the cache
(`ConsumeFlag`), read the database, refresh, install, leave. A caller can board
until the flight lands, even after it has installed its token. kiro-cli writes
the database at any moment and the refresh endpoint may fail or issue a
short-lived token. `since`, `alone` and `old` are history variables.

### UpstreamCall

`req[c]` is a handler: it asks for a token once (`Arrive`, `Authenticated`), and
each upstream call starts from that token with three attempts. `Transient` stands
for transport errors, 429, 5xx and the retryable exceptions in a 200 response;
`Forbidden` calls `ForceRefresh` unless it was the last attempt; `Refreshed` uses
the new token at once. `Proceed` is the next upstream call of the same request.
`rejected` is the upstream's, revoked at any time. `refused`, `alone` and `sent`
are history.

### ToolUseAccumulator and EventStream

The operators are `update` and `flush`: a frame may carry an id, a name, a piece
of the input (or the whole of it, if it comes as an object) and the stop mark,
each or none. `Completed` lists the calls a frame completes (two, if it starts a
call over one that never got its stop, and stops it), `Update` is what is left.
Ids and names are numbers; an id made up for a call without one is greater than
all of the upstream's.

In `EventStream` the upstream makes its calls one after the other. `sent` holds the
frames that were sent and not yet parsed, and with each the upstream's story by then:
the calls it has made, with what it has said of each, and those of them it has
finished. `heard` is the story of the frames the parser has dealt with. The upstream
leaves out the stop mark only where a new id can tell the next call apart, for nothing
else could. A frame travels as two parts, the 12-byte prelude and the rest, which is
the granularity at which `readFrame` tells one end of the data from another.
`arriving`, `taken` and `buffered` count the parts that will arrive, that the reader's
goroutine has read, and that the parser may use. `Fetch` is the goroutine of
`idleReader.Read`, `Receive` and `Timeout` are the arms of its `select`; after a
timeout the goroutine is `stray`, and its late result is dropped with its channel.
`conn` says how the upstream's side ended: properly, between two parts, or within
one ("torn"). `ParseStream` itself is `NextFrame`, `Read`, `Prelude` and `Decode`,
which comes to an error, an event, an exception or the calls the frame completes
(`queue`); `Event`, `Exception` and `Callback` call the callback, which may say stop
each time, `FrameDone` looks at what it said, and `AtEof` flushes. `told` counts the
calls of the callback, `calls` is what it got.

### TextPipeline

Text is a sequence of characters, and the tags and stop sequences are constants
short enough to occur, whole or in part, in texts of seven characters. `Parse` is
the loop of `parseThinkingTags`, as a recursive function; the two filters are
functions on a record of the accumulator's fields, applied in the code's order by
`AccumulateText`. `AssistantResponse` takes a chunk of any characters,
`Reasoning` and `Opaque` the other output that counts towards the budget, and
`FinalizeStream` flushes. The reference is `Reading`, which reads the text received
in one piece, character by character, and tells for each whether it is part of a
tag, of the thinking or of the plain text.

### ServerTools

One request whose tools include tool search, the advisor or both. `pc` is the
handler in `handleStreaming` or `handleNonStreaming`, which `stream`, chosen at
the start, tells apart; they share their actions where the code does the same
thing twice, and each disjunct that only one of them has says so. Only streams
promote, drain and fail with the socket: the JSON form writes when all is over,
so it asks again for an empty answer after a tool round as well. A round is
`Call`, one action per frame of the answer, `Ended` (the checks after
`ParseStream`), `Read` (`Finish`, or `BuildResponse`), then `Answered` or the
tool: `Use`, `Search`, or `Consult` and its `Subcall`s, and `NextRound`.
`message` is what the client gets, reduced to what the properties need: how
often it was closed, whether something followed, the stop reason, the tools shown
with their results. `msgs` is the conversation the model will be asked with; it
is local to a run of the loop, while `uses` and `deferred` live in contexts that
both runs share. The session is what `StreamSession` promises, a buffer until
`promoted`, and `gone` stands for everything that makes its writes fail: the
departed client and the broken socket. Building a payload never fails here.

The frames after an interception are of their own kind (`TailFrame`): client
tool calls are handled as ever, redacted reasoning is recorded, everything else
is skipped. A local stop in that tail is where finding 2 comes from; `overran`
remembers it, and `MessageEndsOnce` is what holds otherwise.

### RequestConversion and Conversation

A content block is a kind and the number of what it carries; the wording, names
and inputs are left out. `Normalize` and `BuildPayload` are the code's passes in
the code's order, each an operator of its own: split an assistant's message at its
server-tool results (`AddBlock`, `FlushSegments`), turn tool content into text that
Kiro would not accept, settle roles, merge, put placeholders where two messages of
one role meet, order results as their calls, find the reasoning to replay. A block
turned into text remembers in `of` what it was, so that the properties can still
find it.

`Conversation` closes the circle. `msgs` is the client's: it asks (as user or
developer), answers all calls of an answer in one message and any order, drops a
prefix once, and sends, a conversation that ends with an answer included. The model
answers in frames; `round` is the accumulator with the SSE writer's pending blobs,
`answer` the blocks the client gets, `loop` what the server-tool loop appends for
the next round. `log` numbers everything said and remembers its round; a failed
answer is forgotten by everybody. One text block stands for the deltas of one;
plain thinking is left out, since conversion drops it. `Requesting` is where a
payload is built, and there the properties evaluate it, with tools and without.

### ModelCatalog

An id is a stem and a suffix. `ModelMapOrdered` has one family for each shape of
row in the real table: `[1m]` rows of their own, a SKU for 1M next to the usual one,
none, the reasoning models with their fixed window, aliases, and the router `auto`.
`Resolve` (with `RowOf`, the row an id goes by, and `Routed`, what the row comes to),
`ResolveKnown` and `Offers` are the tiers and conditions of `models.go`;
`EffectiveMappings` is overrides, built-ins, discovered rows, in that order. `Discovered` installs what `SetCatalog` makes of a catalog, at any moment.
A listing takes its rows once and looks at the table again for each row that needs
a route (`ListRow`); a request looks once for the route and up to three times for the
effort (`ForceEffort`, `AskedEffort`, `DefaultEffort`), so that discovery can land in
between. A client's next call uses an id it was told, listed or echoed.

## Runs

| Run | Instance | What it shows |
|---|---|---|
| `stream_session` | 3 writes of 2 kinds, 2 keep-alives | `JsonIsAlone`, `Delivery`, `HeartbeatJoined`, `WireClosed`, `FinalErrorUninterrupted`; `StopReturns` under fairness |
| `stream_request` | both forms, 2 frames per attempt, 2 attempts, 1 keep-alive | `ClientSeesOneMessage` (refinement), `Answered`, `OneAttemptShown`, `VisibleIsSent`; `RequestEnds` under fairness |
| `upstream_call` | 2 requests (symmetric), 2 calls each, 2 tokens | `NoExpiredTokenServed`, `RefreshOnlyWhenNeeded`, `ForcedAloneIsReal`, `RetryIsNotBurnt`, `AttemptsBounded`; no deadlock |
| `event_stream` | 3 frames, 2 pieces of input, a frame is sent when the one before has been received | `CallsIntact`, `EndLosesNoCall`, `OnlyCompleteCalls`, `StopRespected`; `StreamEnds` under fairness |
| `text_pipeline` | texts of 7 characters out of 4, chunks of up to 3, tags of 3 and 2 characters, no, one or two stop sequences, no budget or one token, 2 runes of other output | `TextIntact`, `StopExact`, `BudgetExact` |
| `server_tools` | both forms, 1 deferred tool, 2 rounds of tool search or 3 with the advisor, 1 use, 1 empty retry, 3 frames an answer | `MessageEndsOnce`, `ServerToolsAnswered`, `CallsBounded`, `TurnBelongsToClient`, `OneRunShown`; `RequestEnds` under fairness |
| `conversation` | 5 things said, 5 messages, 2 rounds an answer | `TurnsAlternate`, `ResultsFollowCalls`, `CallsAnsweredUnlessShared`, `NothingLost`, `ReasoningOfRound`, `TextEndsAnswer`, `HistoryGrows` |
| `model_catalog` | 4 catalogs, 4 sets of overrides, 3 forced and 4 asked efforts, 2 budgets | `PromiseKept`, `EffortAsIntended`, `BuiltinsKeep`; no deadlock |
| `force_refresh_race` | 2 requests, 1 call, 2 tokens | violation of `RejectedNotReserved`, a finding |
| `finalized_twice` | as `server_tools` | violation of `FinalizedOnce`, a finding |
| `truncation` | as `event_stream` | violation of `TruncationDetected`, a finding |
| `orphaned_call` | as `conversation` | violation of `CallsAnswered`, a finding |

No run names a type invariant. They are there to be read, and to be proved: `TypeOK`
of `StreamSession`, `AuthTypeOK`, `UpstreamTypeOK`, `ReqTypeOK` and those of
`ServerTools` and `EventStream` are, for all values of the constants.

**Bounds.** `MaxWrites = 3`: one item buffered and lost in a retry, one buffered
and promoted, one written directly. `MaxKeepAlives`: the first commits the
response, a second finds it committed; in `StreamRequest` one is enough, as what
matters is on which side of each handler step it falls. `MaxWrites = 20` in
`stream_request` is never reached. `MaxFrames = 2`: one frame that leaves
something behind in the accumulator and one that meets it, in each attempt.
`MaxTokens = 2`: the token in use and its successor. Two requests are one that
flies and one that boards, or comes in between; what more of them could do is
proved. In `server_tools` three rounds are a first, one in between and a last
(the code allows 6, or 3 for tool search alone); one use is one consultation
granted and one refused; three frames are content before a server tool's call,
the call and content behind it. In `event_stream` three frames are two of one
call and one of the next, or an end of any kind behind a call; `MaxAhead = 0`
does not order anything, since parts are parsed in the order they are received
whenever they are. In `text_pipeline` seven characters hold both tags and two
characters around them, or a stop sequence across a tag, and a budget of one
token is reached in the middle of a chunk, at its end and by other output. In
`conversation` five things said are a question, an answer with reasoning and two
calls, and what the client adds to its results; or two rounds with reasoning, a
server tool's call and a text; a payload has up to four messages, and the fifth is
its answer. The
catalogs and overrides of `model_catalog` meet each shape of built-in row, with
and without a 1M window and efforts; the budgets are none and one that maps to a
level not every model has. `upstream_call`, `force_refresh_race` and
`model_catalog` check for deadlock; in the others a finished request, or a
conversation at its bound, stops.

**Fairness.** A goroutine that can run does run: the heartbeat, the handler,
`Stop` after it was called, the flight. Nothing is assumed of the client,
kiro-cli, the provider or the order of timer and channels in `select`. Every
blocking call returns: socket writes carry a 30 s deadline, the refresh a 35 s
context, the HTTP attempt a header timeout, the body an idle timeout whose close frees the
pending read (a guarantee of `net/http`, which `idle_reader.go` names), and the
database is a local file. `StreamSession` alone assumes no fairness of the
handler, since its handler is arbitrary.

## Findings

1. `ForceRefresh` does not always refresh (`internal/auth/refresh.go:178`). It
   raises a flag and then calls `GetToken`, which joins a flight that is already
   in the air. If that flight was unforced, it answers with the database's token,
   which may be the one just rejected, against the comment on `ForceRefresh`
   ("returns credentials after an actual refresh"). The flag stays up and makes a
   later, unrelated flight refresh. `force_refresh_race` shows it.
   `ForcedAloneIsReal` is what does hold, and is proved.
2. A client tool call behind a server tool's that reaches `max_tokens` closes the
   message (`stopOrDrain`, unless the model is one that drains), but the loop
   goes on: it runs the tool, writes its blocks after `message_stop` and finishes
   the message a second time (`servertool.go:199` and `:360`), though
   `finalizeResult` "must be called exactly once per stream" (`finalize.go:16`).
   `finalized_twice` shows it.
3. A connection lost between two frames ends the stream like a complete answer:
   `readFrame` turns `io.ErrUnexpectedEOF`, which is how `net/http` reports a
   chunked body that was cut off, into `io.EOF` if no byte of a frame was read
   (`internal/kiroproto/frame.go:26`). The tool call in progress is flushed as if
   complete. The README promises that truncated responses are detected; the
   one trace, `ToolParseError`, is set and never read. `truncation` shows it.
4. A round that calls a client's tool and a server tool comes back to Kiro with the
   client's call unanswered. Its message holds both calls and the server tool's
   result (`servertool.go:346`); splitting it gives that result a user entry of its
   own, and the client's result, one entry further on, no longer follows its call.
   It becomes text, an image in it is dropped, and the reasoning of the round is not
   replayed, although "a tool call in history must be answered by a user turn
   carrying a toolResult" (`server_tool_history.go:15`). `orphaned_call` shows it;
   `CallsAnsweredUnlessShared` is what holds of every other call, and is proved.

### Also met on the way

No run is about these: some contradict no document, and the others are of less
consequence than the four.

- Text held back for a stop sequence or a tag is dropped from a stream when a server
  tool is called: `ResetAccumulator` replaces the accumulator that holds it
  (`servertool.go:165`), while `flushStopSeqPending` is "called when the stream ends
  without a stop sequence match" (`stop_sequence.go:42`). The JSON form keeps it.
- `FinalizeStream` shows what was held back for a tag after a stop sequence or
  `max_tokens` has ended the answer (`accumulator.go:147`), though the buffer for
  stop sequences a few lines below is dropped then.
- The stop sequence found is the first of the list, not the first in the text
  (`stop_sequence.go:14`). A chunk that both exceeds the budget and holds a stop
  sequence is cut at the stop sequence only, and text behind thinking that exceeds
  the budget within one chunk is not cut at all (`event_processor.go:29`): that is
  why `BudgetExact` speaks of answers without either.
- A 403 for the token a request captured at its start drops whatever newer token is
  cached (`refresh.go:176`), which costs a refresh.
- The JSON form reads on behind a local stop, so an upstream error there turns an
  answer into an error that the streamed form has already finished.
- An image in a result that becomes text is lost, also where the text is right
  because the client has dropped the call. An assistant's message of nothing but
  reasoning becomes an entry without text, although Kiro "rejects a history entry
  that carries no content at all" (`history.go:105`, on the user's entries).
- A round is sent again differently once the client replays it: text and message ids
  of the in-loop messages differ (`history.go:129`), and long tool names are shortened
  in the loop only. `HistoryGrows` therefore speaks of what the entries say.
- Discovery of `claude-sonnet-4.6` with a 1M window changes where
  `claude-sonnet-4-6[1m]` goes. The built-in row spells no suffix and is found only with
  the suffix stripped, so the discovered row that spells it is the first to match: the
  id goes to the SKU `claude-sonnet-4.6` without thinking instead of
  `claude-sonnet-4.6-1m` with thinking, although "built-ins always win and discovery
  only fills gaps" (`catalog.go:22`) and the catalog's 1M window for that very model
  "must not quietly change that" it "only switches to the -1m SKU on an explicit 1M
  opt-in" (`catalog_test.go:121`, whose test resolves the bare id only). In the same way
  a discovered `claude-opus-9` takes `claude-opus-9[1m]` from an environment override of
  `claude-opus-9`. This is a disagreement of code and comment that no run of its own
  shows; `Overtaken` names exactly these ids, and `BuiltinsKeep` and `PromiseKept` leave
  them out. Of an overtaken id `PromiseKept` still says that it has a row, that the
  advisor agrees with a request, and that it leads to the 1M window.
- `gpt-5.6-sol[1m]` leads to the 1M window by a built-in row of its own
  (`models.go:104`), as `models_test.go:318` tests. `src/README.md:395` ("does not
  resolve") and the comment at `models.go:237` ("falls through to the default fallback
  below") describe an older table.
- Overrides can make `models.go` contradict itself: `ResolveKnown` gives a suffixed
  row's plain SKU where `Resolve` gives its 1M one; `ListModels` offers a suffixed
  row that has no 1M SKU; an alias of a GPT model with a 1M window is echoed with a
  suffix that does not route back. `PromiseKept` excludes overridden ids in echoes
  and asks the advisor's agreement without overrides only.
- On Claude models, thinking turned off together with a stripped `[1m]` suffix still
  sends the default effort, and a budget is mapped although `resolveEffort` says it is
  omitted (`effort.go`).

## Proofs

Assumptions: `"error"` is an event kind and `"json"`, `"keepalive"` are not
(`KindsAssumption`); in `StreamRequest` the kinds are the SSE writer's
(`SseKindsAssumption`). The bounds are naturals, and where an answer, a request or a
loop must have at least one frame, upstream call or round, they are not zero
(`StreamAssumption`, `MaxCallsAssumption`, `RoundsAssumption`). Catalogs and overrides
are sequences of rows of the right types (`CatalogConstants`). Nothing else: the
theorems hold for any number of writes, keep-alives, frames, callers, tokens, upstream
calls, rounds, uses, retries and deferred tools, and for any catalog and overrides.

**StreamSessionProofs.** None of the invariants is inductive by itself.
`JsonIsAlone` needs to know that an uncommitted response means an empty wire and
no header (`UntouchedUntilCommitted`), that nothing was buffered that looks like
a JSON body (`BufferIsSemantic`), and that a JSON body on the wire finalizes the
session under the lock that wrote it (`Finalization`). `FailuresLatch` carries a
torn write to `firstErr` and on to cancellation, which the heartbeat's invariants
use. The lemma `SocketWriteGrows` says what one socket write can do, and every
writing action is proved from it. The action properties `WireClosed` and
`FinalErrorUninterrupted` follow from the invariant by one case per action. That the
heartbeat of a healthy response does not give up (`HeartbeatServes`) is a theorem
only: no run names it. `Delivery` has an invariant of its own, `DInv`: serial numbers
grow along the wire and along what is kept (`InOrder`), before the promotion the
buffer is what is kept and none of it was sent (`HeldBack`), and afterwards what was
sent is a beginning of it, all of it unless the socket failed (`PassedOn`).

**StreamRequestProofs.** `RInv` has a part for each form. A request that is not
streamed writes once, so `PlainInv` is short. For a stream the session's own invariants
are the base (`RequestKeepsSession`: what `StreamSession` promises its arbitrary
handler holds under this one), and the rest says what the handler's place means for
the session. `Places` ties the labels to `finalizing`, `finalized` and `stop`.
`Opening` and `ClosingOnce` follow `message_start` and `message_stop` through what is
due, what is kept and what the writer remembers: the first is due before anything
else, the second is the last thing due where the message is about to be complete. `Erring` is the same for the error that only
`WriteFinalError` writes. `Refusals` says why a write may be refused before the handler
leaves: because the client went away or the socket failed, which is what excuses
`Answered`. `ThisAttempt` numbers what is kept from where this attempt began, and
`Header` and `OwnOnWire` say what else the wire may hold.
`RequestAnswered` and `RequestOneAttemptShown` follow. For `RequestImplementsView`
`Shape` adds what is kept: it begins with `message_start`, has no other, and what closes
it is last. Every step of the handler, the heartbeat and the socket then either leaves
what the client was shown alone or extends it by the items of one step of `ClientView`,
with one lemma on how a socket write extends it.

**AuthManagerProofs.** `RefreshOnlyWhenNeeded` needs `StillNeeded`: between its
look at the cache and its own installation a flight has the cache to itself, as
there is one flight and everything else only empties the cache; and
that needs `Known`, as a token issued later must not be in the cache already.
`NoExpiredTokenServed` is about every answer, whichever way it came: what had expired
when the call began (`old`, replaced by the flight's when the call boards) stays expired
(`OldStays`, `ExpiredStays`), so a token that is valid when it is looked at is none of
it; a token newly issued is none of it either (`Known`); and one that was valid when
read from the database may expire before the flight lands, but was valid after take-off
(`FlightFresh`). `ForcedAloneIsReal` needs
`AloneProgress`, which follows the lone call through its flight: the flag is up
until its own flight takes it, then the flight is forced, then its token is newer;
and `FlightManned`, that a flight's callers are exactly those that wait, so that
there is none in the air before a lone caller boards.

**UpstreamCallProofs.** `UpstreamImplementsAuth` shows that each step of a request
is a step any caller of the manager may take, or leaves it alone, so everything
proved of `AuthSpec` holds here. The invariant adds to the manager's own what ties a
request to its call: a request is inside of the manager exactly while it waits for a
token (`InManagerWhenWaiting`), and what it has seen rejected was issued before it
forced the refresh. With `ForcedAloneIsReal` that gives `RetryIsNotBurnt`.
`Counted` pays for each attempt, those after a forced refresh included, from which
`AttemptsBounded` follows. That a manager step of somebody else disturbs none of it
is the lemma `ManagerMoves`.

**ServerToolsProofs.** The invariant pays for every upstream call when it is made: a
round when the model is asked, a consultation with all the retries it may need when
its use is counted (`Costs`), which gives `CallsBounded`. `ClosedOnce` says where in
the loop a closed message may be met, unless a tail call has overrun (finding 2): in
a round that stopped locally without a server tool, or when the loop is over.
`TurnTold` ties the client calls the message shows to what the accumulator has seen,
`ToolsTold` what the client sees of the server tools to what the model will be told,
and that no message it is told of refers to a tool still deferred; `RetryUnseen` lets
the loop start again only behind a buffer. `RoundContinues` is the control that all
of them need. `ServerToolsAnswered` and `TurnBelongsToClient` follow from one part
each; that the operators on accumulators and messages keep the fields they do not set
is stated once, in the `Facts` lemmas.

**EventStreamProofs.** The stories carry the proof. `StoryTold` says that each frame
under way adds to the story of the one before what the upstream meant by it (`Adds`),
and that a later story keeps every call that was settled in an earlier one (`Keeps`,
`Settled`: stopped, or followed by another). `Gathered` is the heart of it: as
long as the parser reads on, its accumulator is what the upstream has said so far of
the call behind those handed over or queued, or empty if there is none. `Handed` and
`Waiting` say of those that they are settled and the same, `OwnIds` that the ids the
parser makes up meet no other. `WireRead` counts parts, so that the end of the body is
seen only when every frame has been parsed; with `ParserPlaced` that gives
`EndLosesNoCall`. `OnlyCompleteCalls` and `CallsIntact` are then about the last call of
a stream that ended, finding 3 included; `StopRespected` is one case per action.

**ModelCatalogProofs.** The catalog is installed once and into an empty one
(`InstalledOnce`), so levels change only from none to some (`DiscoveredLevels`): that
keeps the levels a request saw when it came (`LevelsKept`) and the validity of an
effort already chosen. `EffortAsIntended` follows step by step through the looks
`resolveEffort` takes. For `BuiltinsKeep`, rows put behind a table do not change the
first of those that match (`FirstStays`), hence neither `RowOf` nor what comes of it:
`RouteStays` for an id that is spelled out, `StrippedRouteStays` for one found with its
suffix stripped, as long as no row behind spells it.
That `SetCatalog`'s rows are a sequence at all needs an induction over its loop
(`FlattenType`); it is carried out over a set of numbers with the least-number lemma
`Least`, which the library's well-founded induction gives without an operator argument.

**ConversationProofs.** The passes of `RequestConversion` are folds, and the library
has no theorem on folds that the provers can use. The first part makes one: with
the least-number lemma an `Induction` over the elements of a set, and from it that
a fold over a sequence takes one step per element (`MergeSteps`, `TurnSteps`,
`ExpandSteps`, `FlattenSteps`), for any set of values that the steps do not leave.
Then come the passes, for messages of any number and length. After the splitting,
results are the user's only (`ExpandType`). Textualizing leaves only results of calls in
the message before, or without tools neither calls nor results (`OrphansFacts`,
`ToollessFacts`). The passes behind it, merging and padding, might part what now belongs
together; `Carried` says why they do not. It maps each message to the place
where it went: what is not text alone is there unchanged and nowhere else, and two
messages of different roles that stood side by side still do. That carries `Attached` and
`Toolless` through (`CarriedAttached`, `CarriedToolless`), and the padding alternates the
roles (`TurnKeeps`): `NormalizeFacts` is the sum. `PayloadFacts` turns the messages into
entries. `PayloadAlternates` and `PayloadResultsInPlace` assume only that the messages
are `Given`: an assistant's has no `tool_result`, and a developer's no results, as the
types of the API have it. That all messages of a conversation are such is the first part of
the invariant, and makes `ConversationTurnsAlternate` and
`ConversationResultsFollowCalls`; the second is `TextAtEnd`, from which
`ConversationTextEndsAnswer` follows for the stream.

The other direction, that calls are answered, needs more of the messages.
`Accounted(ms, open)` says it of a request: each call of a message is `open` (it needs
no answer), or has the server tool's result directly behind it in its own message, or,
with no server tool's result behind it at all, has its result in the next message of the
user's. The splitting keeps the last two: a pair ends up in neighbouring segments and what
follows the last result in the last one (`AddBlockReplied`, by induction over the blocks;
`RequestReplied`, over the messages). Textualizing removes no result that answers a call
(`OrphansReplied`), `Carried` takes it through merging and padding (`CarriedReplied`), and
`PayloadAnswersCalls` says it of the entries. `PayloadReplaysInFlight` says where
reasoning may be, for any messages: nowhere but at calls that the current message answers.
The second invariant, `AccountsInv`, is that a
conversation keeps these books, where the open calls are those that share their round with
one of a server tool (`OpenCalls`, finding 4's case). `MessagesAccounted` says it of
the messages: what the client has not answered yet waits at their end (`Waiting`), and
after `Forget` what is left is still accounted for, since a call needs only what comes
after it. `LoopAccounted` is about the messages the server-tool loop appends, none of whose
calls may be open; `AnswerAccounted` about what the client has been shown, whose calls are of
this round or open already; `RoundInLog` says which things said are this round's, and is
what makes its calls open when a server tool's comes. `Failed` takes things said back, but
none before the request, which are the only ones the messages know of.
`ConversationCallsAnswered` follows: only a call that shares its round with a server
tool's can be parted from its result.

**Only model-checked.** Liveness (`StopReturns`, `StreamEnds`, both `RequestEnds`), as
the prover has no rules for fairness. `PromiseKept`, which does not hold of all
catalogs and overrides (see "Also met on the way"). `TextPipeline`: what `Parse` and
`Reading` compute for texts of any length are statements about recursive functions, which
need an induction written out by hand for each. Of `Conversation`, `NothingLost` and
`HistoryGrows`, which compare whole payloads block by block, and `ReasoningOfRound`, of which
`PayloadReplaysInFlight` is the part about places; whose round the blobs are of needs the
rounds of all blocks of the client's messages.

## Not modelled

Contents of events, JSON, headers, logging, tracing and capture (nothing depends
on them); binary frame decoding; configuration; token counting, usage and credit
totals. Of request conversion: the shortening of tool names, tool definitions, cache
points, the environment block and wording, and the schema sanitizer, a recursive
rewrite decided by keyword tables. Of the models: hidden patterns, display names and
the removal of duplicates from the list. In
`TextPipeline` a character is a rune, so the rune-wise splitting of UTF-8 does not
show; in `EventStream` a checksum error is a frame that is "invalid".

## Plan

1. `StreamSession`, `StreamRequest`, `ClientView`, `AuthManager`, `UpstreamCall`
   with their runs; proofs for `StreamSession`, `AuthManager` and `UpstreamCall`. (Done.)
2. `ServerTools` with its runs and proofs. (Done.)
3. `EventStream` with `ToolUseAccumulator`, and `TextPipeline`, with their runs.
   (Done.)
4. The plain non-streaming handler in `StreamRequest`; block order and redacted
   reasoning of both forms in `Conversation`. (Done.)
5. `RequestConversion` with `Conversation`, and `ModelCatalog`. (Done.)
6. `StreamRequest` implements `ClientView`, with `Answered`, `OneAttemptShown` and
   `Delivery`; the safety properties of `EventStream`; `EffortAsIntended` and
   `BuiltinsKeep` of `ModelCatalog`, with their proofs. (Done.)
7. `TurnsAlternate`, `ResultsFollowCalls` and `TextEndsAnswer` of `Conversation`, with
   what they need of `RequestConversion`, proved. (Done.)
8. `CallsAnsweredUnlessShared` of `Conversation`, with `PayloadAnswersCalls`, proved. (Done.)
9. Proofs still open: `ReasoningOfRound`, `NothingLost` and `HistoryGrows` of
   `Conversation`; the budget and stop sequences of `TextPipeline`.
