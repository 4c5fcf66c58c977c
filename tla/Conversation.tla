---------------------------- MODULE Conversation ----------------------------
(***************************************************************************)
(* A conversation that goes through kirocc turn by turn.  The client keeps *)
(* it and sends all of it each time (RequestConversion makes a payload of  *)
(* it); the model answers in rounds; the SSE writer, or the JSON form,     *)
(* makes a message of the rounds; the client appends that message and      *)
(* answers its calls.  What one half writes, the other reads a turn later. *)
(*                                                                         *)
(* Everything said gets the next number of "log", which remembers what it  *)
(* is and in which round the model said it (0: it is the client's).        *)
(***************************************************************************)
EXTENDS RequestConversion

CONSTANTS MaxSaid,      \* things said in a conversation
          MaxMessages,  \* messages of the client's conversation
          MaxRounds     \* rounds of one request

ASSUME ConversationBounds == {MaxSaid, MaxMessages, MaxRounds} \subseteq Nat

VARIABLES msgs,    \* the client's messages
          forgot,  \* the client has dropped old messages
          sent,    \* history: what the last answered request settled
          pc,      \* "client", or "model" while a request is being answered
          stream,  \* the request's form
          answer,  \* the content blocks the client gets
          loop,    \* the messages the server-tool loop has appended
          used,    \* rounds of this request
          round,   \* the accumulator and the writer's pending blobs
          log,     \* history: everything said
          asked    \* history: how much of it was said before this request

vars == <<msgs, forgot, sent, pc, stream, answer, loop, used, round, log, asked>>
clientVars == <<msgs, forgot, sent>>
requestVars == <<stream, loop, used, asked>>

(***************************************************************************)
(* A round: the reasoning blobs, texts and calls of the model; the text    *)
(* held back for a tag or a stop sequence; the server tool's call, 0 for   *)
(* none; and of a stream the blobs not yet written, the first "before" of  *)
(* which came before the text held back.                                   *)
(***************************************************************************)
NewRound == [redacted |-> <<>>, text |-> <<>>, held |-> <<>>, calls |-> <<>>,
             server |-> 0, pending |-> <<>>, before |-> 0]

Blocks(kind, ids) == [i \in DOMAIN ids |-> Block(kind, ids[i])]
Blobs(ids) == Blocks("redacted_thinking", ids)
Texts(ids) == Blocks("text", ids)

Init ==
    /\ msgs = <<>> /\ forgot = FALSE /\ sent = <<>>
    /\ pc = "client" /\ stream = TRUE /\ asked = 0
    /\ answer = <<>> /\ loop = <<>> /\ used = 0 /\ round = NewRound
    /\ log = <<>>

\* The request is over and nothing of it is left but what the client keeps.
Over ==
    /\ pc' = "client" /\ stream' = TRUE /\ asked' = 0
    /\ answer' = <<>> /\ loop' = <<>> /\ used' = 0 /\ round' = NewRound

NewId == Len(log) + 1
Note(kinds, rnd) == log' = log \o [i \in DOMAIN kinds |-> [kind |-> kinds[i], round |-> rnd]]
Room(n) == Len(log) + n <= MaxSaid

\* Rounds are told apart by the number of the first thing said after they began.
Said(kind) == Note(<<kind>>, IF round = NewRound THEN NewId ELSE Last(log).round)

-----------------------------------------------------------------------------
(* The client. *)

Calls(msg) == Selected(msg.blocks, LAMBDA b : b.kind = "tool_use")
Unanswered == IF msgs # <<>> /\ Last(msgs).role = "assistant" THEN Ids(Calls(Last(msgs))) ELSE <<>>

Turn == pc = "client" /\ Len(msgs) < MaxMessages
Append1(role, blocks) ==
    /\ msgs' = Append(msgs, Message(role, blocks))
    /\ UNCHANGED <<forgot, sent, pc, requestVars, answer, round>>

\* Text, under either of the roles clients use for it, or an image alone.
Ask ==
    /\ Turn /\ Unanswered = <<>> /\ Room(1)
    /\ \E role \in {"user", "developer"}, kind \in {"text", "image"} :
          /\ role = "developer" => kind = "text" /\ msgs # <<>>
          /\ Note(<<kind>>, 0)
          /\ Append1(role, <<Block(kind, NewId)>>)

\* The calls of an answer are answered together, in any order, and one result
\* may have an image, or a remark of the user's may follow.
Answer ==
    /\ Turn /\ Unanswered # <<>>
    /\ \E order \in [DOMAIN Unanswered -> Range(Unanswered)], extra \in {"nothing", "text", "image"} :
          LET results == [i \in DOMAIN order |-> Block("tool_result", order[i])] IN
          /\ Range(order) = Range(Unanswered)
          /\ \/ /\ extra = "nothing"
                /\ Append1("user", results) /\ UNCHANGED log
             \/ /\ extra # "nothing" /\ Room(1) /\ Note(<<extra>>, 0)
                /\ Append1("user", IF extra = "text" THEN Append(results, Block("text", NewId))
                                   ELSE [results EXCEPT ![1].images = <<NewId>>])

\* Old messages go, at any point of the conversation.
Forget ==
    /\ pc = "client" /\ ~forgot
    /\ \E n \in 1..(Len(msgs) - 1) : msgs' = SubSeq(msgs, n + 1, Len(msgs))
    /\ forgot' = TRUE /\ sent' = <<>>
    /\ UNCHANGED <<pc, requestVars, answer, round, log>>

\* What a payload settles: its entries without the reasoning, which goes, and
\* without the assistant's message at its end, which the answer may extend.  A
\* current message without content becomes an empty one.
Settled(request) ==
    LET p == BuildPayload(request, TRUE)
        Past(e) == [e EXCEPT !.reasoning = 0,
                             !.text = IF @ = <<Piece(Continue)>> THEN <<Piece(Empty)>> ELSE @]
        entries == [i \in DOMAIN p.history |-> Past(p.history[i])]
    IN IF EndsWithUser(Normalize(request, TRUE)) THEN Append(entries, Past(p.current)) ELSE Front(entries)

\* The client sends its messages, those that end with an answer as well.
Send ==
    /\ pc = "client" /\ msgs # <<>> /\ Unanswered = <<>>
    /\ Len(msgs) < MaxMessages
    /\ pc' = "model" /\ stream' \in BOOLEAN
    /\ used' = 1 /\ asked' = Len(log)
    /\ sent' = Settled(msgs)
    /\ UNCHANGED <<msgs, forgot, answer, loop, round, log>>

-----------------------------------------------------------------------------
(* The model's frames.  A stream writes as they come; in the tail behind a *)
(* server tool's call it writes client calls only.  The JSON form collects. *)

InTail == round.server # 0
Frame(kind) == pc = "model" /\ Room(1) /\ Said(kind) /\ UNCHANGED <<clientVars, pc, requestVars>>
Released == [round EXCEPT !.pending = <<>>, !.before = 0]

TextFrame ==
    /\ Frame("text")
    /\ ~(stream /\ InTail)
    /\ round' = [Released EXCEPT !.text = @ \o round.held \o <<NewId>>, !.held = <<>>]
    /\ answer' = IF stream THEN answer \o Blobs(round.pending) \o Texts(round.held \o <<NewId>>) ELSE answer

HeldFrame ==
    /\ Frame("text")
    /\ ~(stream /\ InTail) /\ round.held = <<>>
    /\ round' = [round EXCEPT !.held = <<NewId>>, !.before = Len(round.pending)]
    /\ UNCHANGED answer

BlobFrame ==
    /\ Frame("redacted_thinking")
    /\ round' = [round EXCEPT !.redacted = Append(@, NewId),
                              !.pending = IF stream /\ ~InTail THEN Append(@, NewId) ELSE @]
    /\ UNCHANGED answer

CallFrame ==
    /\ Frame("tool_use")
    /\ round' = [Released EXCEPT !.calls = Append(@, NewId)]
    /\ answer' = IF stream THEN answer \o Blobs(round.pending) \o Blocks("tool_use", <<NewId>>) ELSE answer

ServerToolFrame ==
    /\ Frame("server_tool_use")
    /\ ~InTail
    /\ round' = [round EXCEPT !.server = NewId]
    /\ UNCHANGED answer

(***************************************************************************)
(* The end of a round.                                                     *)
(***************************************************************************)
HasText(r) == r.text # <<>> \/ r.held # <<>>

FinishKeepsBlobs(blocks, r) == blocks \o Texts(r.held) \o Blobs(r.pending)

\* Finish: the text held back, and the pending blobs, unless they trail an
\* answer that has text and no calls.
Finish(blocks, r) ==
    LET kept == IF HasText(r) /\ r.calls = <<>>
                THEN SubSeq(r.pending, 1, IF r.held = <<>> THEN 0 ELSE r.before)
                ELSE r.pending
    IN blocks \o Blobs(kept) \o Texts(r.held)

\* The content of one round of the JSON form.
Content(r) == Blobs(r.redacted) \o Texts(r.text \o r.held) \o Blocks("tool_use", r.calls)

IsEmptyVisibleEndTurn(r) == r.redacted # <<>> /\ ~HasText(r) /\ r.calls = <<>>
IsPromoted == \E i \in DOMAIN answer : answer[i].kind # "redacted_thinking"

Deliver(blocks) ==
    /\ blocks # <<>>
    /\ msgs' = Append(msgs, Message("assistant", blocks))
    /\ Over
    /\ UNCHANGED <<forgot, sent, log>>

Answered ==
    /\ pc = "model" /\ ~InTail
    /\ ~IsEmptyVisibleEndTurn(round) \/ (stream /\ IsPromoted)
    /\ Deliver(IF stream THEN Finish(answer, round) ELSE answer \o Content(round))

\* The upstream fails, or says nothing visible twice: the client gets an
\* error, keeps its messages, and forgets what it saw of the answer.
Failed ==
    /\ pc = "model"
    /\ Over
    /\ log' = SubSeq(log, 1, asked) /\ sent' = <<>>
    /\ UNCHANGED <<msgs, forgot>>

\* What the loop tells the model of a round with a server tool, and what it
\* shows the client of it.
ServerRound(r) ==
    <<Message("assistant", Blobs(r.redacted) \o Blocks("server_tool_use", <<r.server>>)),
      Message("user", Blocks("tool_result", <<r.server>>))>>

Shown(r, result) ==
    answer \o (IF stream THEN Blobs(r.pending) ELSE Content(r))
           \o <<Block("server_tool_use", r.server), Block(result, r.server)>>

ServerTool ==
    /\ pc = "model" /\ InTail
    /\ \E result \in {"tool_search_tool_result", "advisor_tool_result"} :
          LET shown == Shown(round, result) IN
          \/ /\ round.calls = <<>> /\ used < MaxRounds /\ Room(1)
             /\ loop' = loop \o ServerRound(round)
             /\ answer' = shown /\ used' = used + 1 /\ round' = NewRound
             /\ UNCHANGED <<clientVars, pc, stream, log, asked>>
          \/ /\ round.calls # <<>> \/ used = MaxRounds
             /\ Deliver(IF stream THEN Finish(shown, Released) ELSE shown)

Next ==
    \/ Ask \/ Answer \/ Forget \/ Send
    \/ TextFrame \/ HeldFrame \/ BlobFrame \/ CallFrame \/ ServerToolFrame
    \/ Answered \/ Failed \/ ServerTool

Spec == Init /\ [][Next]_vars
-----------------------------------------------------------------------------
(***************************************************************************)
(* Properties.  They speak of the payload that is built when a round       *)
(* begins, for a request with tools and for the same one without.          *)
(***************************************************************************)
Request == msgs \o loop
\* (The first payload of a request is the same in both forms.)
Requesting == pc = "model" /\ round = NewRound /\ (loop = <<>> => stream)

Entries(hasTools) == LET p == BuildPayload(Request, hasTools) IN Append(p.history, p.current)

\* Kiro gets a conversation it accepts: user and assistant in turn, from the
\* user to the user, and no message of the user's is empty; whatever the
\* client has dropped, repeated or put under another role.
TurnsAlternate ==
    Requesting => \A hasTools \in BOOLEAN :
        LET e == Entries(hasTools) IN
        /\ Len(e) % 2 = 1
        /\ \A i \in DOMAIN e : e[i].role = IF i % 2 = 1 THEN "user" ELSE "assistant"
        /\ \A i \in DOMAIN e : e[i].role = "user" => e[i].text # <<>> \/ e[i].results # <<>>

\* A result stands directly behind the calls it belongs to, in their order,
\* and there is neither without tools.
ResultsFollowCalls ==
    Requesting =>
        /\ LET e == Entries(TRUE) IN \A i \in DOMAIN e :
              e[i].results = Selected(IF i = 1 THEN <<>> ELSE e[i - 1].calls, LAMBDA id : id \in Range(e[i].results))
        /\ LET e == Entries(FALSE) IN \A i \in DOMAIN e : e[i].calls = <<>> /\ e[i].results = <<>>

\* A call made in a round in which the model called a server tool as well.
SharesRound(id) == \E other \in DOMAIN log : log[other].kind = "server_tool_use" /\ log[other].round = log[id].round

\* Every call in the history is answered in the next entry, client's and
\* server tools' alike, except a client's call that shares its round with one
\* of a server tool (CallsAnswered says what becomes of those).
CallsAnsweredUnlessShared ==
    Requesting => LET e == Entries(TRUE) IN \A i \in DOMAIN e : \A id \in Range(e[i].calls) :
        \/ i < Len(e) /\ id \in Range(e[i + 1].results)
        \/ log[id].kind = "tool_use" /\ SharesRound(id)

\* "A tool call in history must be answered by a user turn carrying a
\* toolResult" (server_tool_history.go:15).  It is not, if the answer called a
\* client's tool and a server tool: the split puts the server tool's result
\* between the client's call and its result.
CallsAnswered ==
    Requesting => LET e == Entries(TRUE) IN \A i \in DOMAIN e : \A id \in Range(e[i].calls) :
        i < Len(e) /\ id \in Range(e[i + 1].results)

\* What the messages say, reasoning apart: who said it, and the block.
Speaker(msg, b) == IF msg.role = "assistant" /\ ~IsServerToolResult(b) THEN "assistant" ELSE "user"
SaidBlocks ==
    FlattenSeq([i \in DOMAIN Request |->
        LET blocks == Selected(Request[i].blocks, LAMBDA b : b.kind # "redacted_thinking")
        IN [j \in DOMAIN blocks |-> [by |-> Speaker(Request[i], blocks[j]), block |-> blocks[j]]]])

\* An entry says a block, as text or as what it is; a result that is one still
\* has its images with it.
Says(e, b) ==
    \/ [of |-> b.of, id |-> b.id] \in Range(e.text)
    \/ IsToolUse(b) /\ b.id \in Range(e.calls)
    \/ b.kind = "image" /\ b.id \in Range(e.images)
    \/ /\ IsToolResult(b) \/ IsServerToolResult(b)
       /\ b.id \in Range(e.results) /\ Range(b.images) \subseteq Range(e.images)

\* Nothing said is lost, repeated, moved past something else, or put into
\* another's mouth, however messages are split, merged, turned into text and
\* padded: each block is in one entry, its speaker's, and the entries are in
\* the order of the blocks.
NothingLost ==
    Requesting => \A hasTools \in BOOLEAN :
        LET e == Entries(hasTools)
            said == SaidBlocks
            Where(i) == {k \in DOMAIN e : Says(e[k], said[i].block)}
        IN \A i \in DOMAIN said : \E k \in DOMAIN e :
              /\ Where(i) = {k}
              /\ e[k].role = said[i].by
              /\ i > 1 => \A l \in Where(i - 1) : l <= k

\* The round whose calls the current message answers.
InFlight(e) == {log[id].round : id \in Range(e[Len(e)].results)}

\* Reasoning goes back only where the calls of its round are being answered,
\* to the entry that makes them; and if the request has a blob of that round,
\* it does go back.
ReasoningOfRound ==
    Requesting =>
        LET e == Entries(TRUE)
            blobs == {b \in UNION {Range(Request[i].blocks) : i \in DOMAIN Request} : b.kind = "redacted_thinking"}
        IN \A i \in DOMAIN e :
              IF i = Len(e) - 1 /\ \E b \in blobs : log[b.id].round \in InFlight(e)
              THEN e[i].reasoning # 0 /\ log[e[i].reasoning].round \in InFlight(e)
              ELSE e[i].reasoning = 0

\* The last round's text ends the client's message if the model said no more
\* than reasoning behind it and called nothing: a blob behind the text would
\* make clients drop the answer (streaming.go:209, nonstreaming.go:121).
TextEndsAnswer ==
    [][pc = "model" /\ ~InTail /\ round.calls = <<>> /\ HasText(round) /\ msgs' # msgs
       => Last(Last(msgs').blocks).kind = "text"]_vars

\* From one request to the next the history only grows: what the model was
\* told, it is told again, so that message ids and the upstream's cache hold
\* (history.go:129).
HistoryGrows == [][sent # <<>> /\ sent' # <<>> => IsPrefix(sent, sent')]_sent
=============================================================================
