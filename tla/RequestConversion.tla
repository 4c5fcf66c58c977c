------------------------- MODULE RequestConversion -------------------------
(***************************************************************************)
(* internal/reqconv: how the messages of an Anthropic request become the   *)
(* conversation of a Kiro payload.  Pure operators, in the code's order:   *)
(* Normalize, then BuildPayload.                                           *)
(*                                                                         *)
(* A content block is its kind and the number of what it carries: texts,   *)
(* images and reasoning blobs have a number each, a call has one, and a    *)
(* result has the number of the call it answers.  "images" are those       *)
(* nested in a result.  A block that is turned into text keeps its former  *)
(* kind in "of", so that what it says can still be found.  Wording, names  *)
(* and inputs are left out, and with them the difference between content   *)
(* that is a string and content that is one text block.                    *)
(***************************************************************************)
EXTENDS Integers, Sequences, SequencesExt

Block(kind, id) == [kind |-> kind, of |-> kind, id |-> id, images |-> <<>>]
Message(role, blocks) == [role |-> role, blocks |-> blocks]

Empty    == Block("(empty)", 0)
Continue == Block("Continue", 0)
Synthetic(block) == [block EXCEPT !.kind = "text"]

IsToolUse(b)          == b.kind \in {"tool_use", "server_tool_use"}
IsToolResult(b)       == b.kind \in {"tool_result", "tool_search_tool_result"}
IsServerToolResult(b) == b.kind \in {"advisor_tool_result", "tool_search_tool_result"}
IsText(b)             == b.kind = "text"

\* The text a block leaves behind; the images nested in it are gone.
AsText(b) == [b EXCEPT !.kind = "text", !.images = <<>>]

\* SelectSeq, by a definition that can be reasoned about.
Selected(seq, Test(_)) == FlattenSeq([i \in DOMAIN seq |-> IF Test(seq[i]) THEN <<seq[i]>> ELSE <<>>])

Ids(blocks) == [i \in DOMAIN blocks |-> blocks[i].id]
ToolUseIds(msg) == Ids(Selected(msg.blocks, IsToolUse))

(***************************************************************************)
(* ExpandServerToolResults: the answer of a round with a server tool holds *)
(* the call and its result; Kiro wants the result from the user.           *)
(***************************************************************************)
Segments == [out |-> <<>>, assistant |-> <<>>, results |-> <<>>]

NonEmpty(role, blocks) == IF blocks = <<>> THEN <<>> ELSE <<Message(role, blocks)>>

FlushSegments(s) ==
    [Segments EXCEPT !.out = s.out \o NonEmpty("assistant", s.assistant) \o NonEmpty("user", s.results)]

AddBlockUnflushed(s, b) ==
    IF IsServerToolResult(b)
    THEN [s EXCEPT !.results = Append(@, [b EXCEPT !.kind = "tool_result"])]
    ELSE [s EXCEPT !.assistant = Append(@, b)]

AddBlock(s, b) ==
    IF IsServerToolResult(b)
    THEN [s EXCEPT !.results = Append(@, [b EXCEPT !.kind = "tool_result"])]
    ELSE [(IF s.results = <<>> THEN s ELSE FlushSegments(s)) EXCEPT !.assistant = Append(@, b)]

ExpandAssistantMessage(msg) == FlushSegments(FoldLeft(AddBlock, Segments, msg.blocks)).out

HasServerToolResult(msg) ==
    /\ msg.role = "assistant"
    /\ \E i \in DOMAIN msg.blocks : IsServerToolResult(msg.blocks[i])

ExpandServerToolResults(msgs) ==
    FlattenSeq([i \in DOMAIN msgs |->
                  IF HasServerToolResult(msgs[i]) THEN ExpandAssistantMessage(msgs[i]) ELSE <<msgs[i]>>])

(***************************************************************************)
(* Tool content that Kiro would not accept as such becomes text.           *)
(***************************************************************************)
MapBlocks(msg, Op(_)) == [msg EXCEPT !.blocks = [i \in DOMAIN @ |-> Op(@[i])]]

TextualizeAll(msgs) ==
    LET Textualize(b) == IF IsToolUse(b) \/ IsToolResult(b) THEN AsText(b) ELSE b
    IN [i \in DOMAIN msgs |-> MapBlocks(msgs[i], Textualize)]

CallsLately(msgs, i) ==
    IF i = Len(msgs) /\ i > 1 /\ msgs[i - 1].role = "assistant" THEN Range(ToolUseIds(msgs[i - 1])) ELSE {}

CallsBefore(msgs, i) ==
    IF i > 1 /\ msgs[i - 1].role = "assistant" THEN Range(ToolUseIds(msgs[i - 1])) ELSE {}

TextualizeOrphanToolResults(msgs) ==
    [i \in DOMAIN msgs |->
       LET Textualize(b) == IF IsToolResult(b) /\ b.id \notin CallsBefore(msgs, i) THEN AsText(b) ELSE b
       IN IF msgs[i].role = "user" THEN MapBlocks(msgs[i], Textualize) ELSE msgs[i]]

TextualizeToolContent(msgs, hasTools) ==
    IF hasTools THEN TextualizeOrphanToolResults(msgs) ELSE TextualizeAll(msgs)

(***************************************************************************)
(* Roles: user first, then assistant and user in turn.                     *)
(***************************************************************************)
NormalizeRoles(msgs) ==
    [i \in DOMAIN msgs |-> [msgs[i] EXCEPT !.role = IF @ = "assistant" THEN @ ELSE "user"]]

IsPlainText(msg) == \A i \in DOMAIN msg.blocks : IsText(msg.blocks[i])

Mergeable(m, n) == m.role = n.role /\ IsPlainText(m) /\ IsPlainText(n)

AddMerged(out, m) ==
    IF out # <<>> /\ Mergeable(Last(out), m)
    THEN Append(Front(out), [m EXCEPT !.blocks = Last(out).blocks \o @])
    ELSE Append(out, m)

MergeAdjacentSameRole(msgs) == FoldLeft(AddMerged, <<>>, msgs)

Placeholder(role) == Message(role, <<Synthetic(Empty)>>)

EnsureStartsWithUser(msgs) ==
    IF msgs # <<>> /\ msgs[1].role # "user" THEN <<Placeholder("user")>> \o msgs ELSE msgs

OppositeRole(role) == IF role = "assistant" THEN "user" ELSE "assistant"

RolesAsTheyAre(msgs) == msgs

AddInTurn(out, m) ==
    IF out # <<>> /\ Last(out).role = m.role
    THEN out \o <<Placeholder(OppositeRole(m.role)), m>>
    ELSE Append(out, m)

EnsureAlternatingRoles(msgs) == FoldLeft(AddInTurn, <<>>, msgs)

Normalize(msgs, hasTools) ==
    EnsureAlternatingRoles(
      EnsureStartsWithUser(
        MergeAdjacentSameRole(
          NormalizeRoles(
            TextualizeToolContent(ExpandServerToolResults(msgs), hasTools)))))

(***************************************************************************)
(* A message becomes an entry: its text, the calls of an assistant, the    *)
(* results and images of a user.  An image nested in a result moves to the *)
(* entry.  "reasoning" is the number of the blob replayed, 0 for none.     *)
(***************************************************************************)
Entry(role, text, calls, results, images) ==
    [role |-> role, text |-> text, calls |-> calls, results |-> results,
     images |-> images, reasoning |-> 0]

Piece(b) == [of |-> b.of, id |-> b.id]
TextContent(msg) == LET texts == Selected(msg.blocks, IsText) IN [i \in DOMAIN texts |-> Piece(texts[i])]
TextOr(text, synthetic) == IF text = <<>> THEN <<Piece(synthetic)>> ELSE text

ToolResults(msg) == Ids(Selected(msg.blocks, IsToolResult))
ImagesUnpromoted(msg) == Ids(Selected(msg.blocks, LAMBDA b : b.kind = "image"))

Images(msg) ==
    FlattenSeq([i \in DOMAIN msg.blocks |->
                  IF msg.blocks[i].kind = "image" THEN <<msg.blocks[i].id>> ELSE msg.blocks[i].images])

ResultsAsSent(results, ids) == results

ReorderToolResults(results, ids) ==
    Selected(ids, LAMBDA id : id \in Range(results)) \o Selected(results, LAMBDA id : id \notin Range(ids))

\* Both places that call it: an entry of the history, and the current message.
UserEntry(msg, precedingIds, synthetic) ==
    LET results == ToolResults(msg)
        text    == TextContent(msg)
    IN Entry("user", IF results = <<>> THEN TextOr(text, synthetic) ELSE text, <<>>,
             ReorderToolResults(results, precedingIds), Images(msg))

AssistantEntry(msg) == Entry("assistant", TextContent(msg), ToolUseIds(msg), <<>>, <<>>)

(***************************************************************************)
(* The blob to replay: of those next to a call the current results answer, *)
(* the last.  The call next to a blob is the one after it, or else the one *)
(* before it.                                                              *)
(***************************************************************************)
CallBehind(blocks, i) ==
    LET after == {j \in (i + 1)..Len(blocks) : IsToolUse(blocks[j])}
    IN {blocks[j].id : j \in {k \in after : \A l \in after : k <= l}}

CallNextTo(blocks, i) ==
    LET after  == {j \in (i + 1)..Len(blocks) : IsToolUse(blocks[j])}
        before == {j \in 1..(i - 1) : IsToolUse(blocks[j])}
    IN {blocks[j].id : j \in IF after # {} THEN {k \in after : \A l \in after : k <= l}
                             ELSE {k \in before : \A l \in before : l <= k}}

ReplayableRedactedThinking(msg, answered) ==
    LET fits == {i \in DOMAIN msg.blocks :
                    /\ msg.blocks[i].kind = "redacted_thinking"
                    /\ CallNextTo(msg.blocks, i) \cap answered # {}}
    IN IF fits = {} THEN 0 ELSE msg.blocks[CHOOSE i \in fits : \A j \in fits : j <= i].id

\* The ids of the calls the message before the i-th made.
PrecedingIds(msgs, i) == IF i > 1 THEN ToolUseIds(msgs[i - 1]) ELSE <<>>

BuildHistory(msgs, answered) ==
    [i \in DOMAIN msgs |->
       IF msgs[i].role = "user" THEN UserEntry(msgs[i], PrecedingIds(msgs, i), Empty)
       ELSE IF i = Len(msgs) /\ Range(ToolUseIds(msgs[i])) \cap answered # {}
            THEN [AssistantEntry(msgs[i]) EXCEPT !.reasoning = ReplayableRedactedThinking(msgs[i], answered)]
            ELSE AssistantEntry(msgs[i])]

\* The system prompt and its acknowledgement, in front of every history.
SystemPair == <<Entry("user", <<Piece(Block("system", 0))>>, <<>>, <<>>, <<>>),
                Entry("assistant", <<Piece(Block("ack", 0))>>, <<>>, <<>>, <<>>)>>

EndsWithUser(msgs) == msgs # <<>> /\ Last(msgs).role = "user"

BuildPayload(messages, hasTools) ==
    LET msgs    == Normalize(messages, hasTools)
        history == IF EndsWithUser(msgs) THEN Front(msgs) ELSE msgs
        current == IF EndsWithUser(msgs) THEN Last(msgs) ELSE Message("user", <<Synthetic(Continue)>>)
    IN [history |-> SystemPair \o BuildHistory(history, Range(ToolResults(current))),
        current |-> UserEntry(current, PrecedingIds(history, Len(history) + 1), Continue)]
=============================================================================
