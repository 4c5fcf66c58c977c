----------------------------- MODULE TextPipeline -----------------------------
(***************************************************************************)
(* The text of one upstream answer on its way through responseAccumulator: *)
(* thinking tags are taken out, a tail that may be the beginning of a tag  *)
(* or of a stop sequence is held back, and everything shown counts towards *)
(* max_tokens.  The chunks may be cut anywhere, within a tag or a stop     *)
(* sequence too.                                                           *)
(*                                                                         *)
(* Text is a sequence of characters (runes).  The module compares what the *)
(* pipeline has shown with what the whole text, read in one piece, says    *)
(* should be shown.                                                        *)
(***************************************************************************)
EXTENDS Integers, Sequences
LOCAL INSTANCE SequencesExt

CONSTANTS
    Characters,
    OpenTag, CloseTag,  \* thinkingOpenTag, thinkingCloseTag
    StopLists,          \* the stop_sequences a request may have, in order
    Budgets,            \* the max_tokens it may have, 0 for none
    MaxText,            \* bound on the characters of the answer
    MaxChunk,           \* bound on those of a chunk
    MaxOpaque           \* bound on the runes of a tool call or redacted block

ASSUME TagsAssumption ==
    /\ OpenTag \in Seq(Characters) \ {<<>>} /\ CloseTag \in Seq(Characters) \ {<<>>}
    /\ StopLists \subseteq Seq(Seq(Characters) \ {<<>>}) /\ Budgets \subseteq Nat
    /\ MaxText \in Nat /\ MaxChunk \in Nat /\ MaxOpaque \in Nat

VARIABLES
    stops,      \* stopSequences
    budget,     \* maxTokensBudget
    inside,     \* thinkingTagInside
    tagBuf,     \* thinkingTagBuf
    suppress,   \* suppressReasoningContent
    pending,    \* stopSeqPending
    runes,      \* outputRuneCount
    stop,       \* StopReason with LocalStop: "none", "stop_sequence" or "max_tokens"
    matched,    \* StopSequence
    text,       \* TextBuf, all of which is shown to the client
    thought,    \* ThinkingBuf, likewise
    done,       \* FinalizeStream has run
    raw,        \* history: the text received
    others      \* history: runes of the reasoning and opaque blocks received

vars == <<stops, budget, inside, tagBuf, suppress, pending, runes, stop, matched, text, thought,
          done, raw, others>>

----------------------------------------------------------------------------
OccursAt(t, s, i) == i + Len(t) - 1 <= Len(s) /\ SubSeq(s, i, i + Len(t) - 1) = t

Positions(t, s) == {i \in DOMAIN s : OccursAt(t, s, i)}

\* strings.Index, from 1; 0 if t does not occur.
Index(t, s) ==
    IF Positions(t, s) = {} THEN 0
    ELSE CHOOSE i \in Positions(t, s) : \A j \in Positions(t, s) : i <= j

First(n, s) == SubSeq(s, 1, n)
From(n, s)  == SubSeq(s, n, Len(s))

\* partialTagSuffix: the longest end of s that may be the beginning of the tag.
PartialTagSuffix(s, tag) ==
    LET fits == {n \in 0..(Len(tag) - 1) : IsSuffix(First(n, tag), s)}
    IN  CHOOSE n \in fits : \A m \in fits : m <= n

Tag(in) == IF in THEN CloseTag ELSE OpenTag

\* What a piece of text or of thinking is put in front of.
Before(piece, in, rest) ==
    IF in THEN [rest EXCEPT !.thought = piece \o @] ELSE [rest EXCEPT !.text = piece \o @]

\* The loop of parseThinkingTags, over a buffer and in or outside of thinking.
Parse[buffer \in Seq(Characters), in \in BOOLEAN] ==
    LET at   == Index(Tag(in), buffer)
        keep == PartialTagSuffix(buffer, Tag(in))
        end  == [text |-> <<>>, thought |-> <<>>, inside |-> in,
                 left |-> From(Len(buffer) - keep + 1, buffer), tags |-> FALSE]
    IN  IF at = 0
        THEN Before(First(Len(buffer) - keep, buffer), in, end)
        ELSE LET rest == Parse[From(at + Len(Tag(in)), buffer), ~in]
             IN  Before(First(at - 1, buffer), in, [rest EXCEPT !.tags = @ \/ ~in])

----------------------------------------------------------------------------
\* The accumulator's fields that the filters change, as one record.
State == [pending |-> pending, runes |-> runes, stop |-> stop, matched |-> matched, out |-> <<>>]

Become(s) == pending' = s.pending /\ runes' = s.runes /\ stop' = s.stop /\ matched' = s.matched

\* Mutant: as many characters are held back as the sequence has.
ApplyStopSequenceFilterHoldsLess(s, delta) ==
    LET all   == s.pending \o delta
        found == {k \in DOMAIN stops : Index(stops[k], all) > 0}
        k     == CHOOSE k \in found : \A j \in found : k <= j
    IN  IF found # {}
        THEN [s EXCEPT !.pending = <<>>, !.out = First(Index(stops[k], all) - 1, all),
                       !.stop = "stop_sequence", !.matched = stops[k]]
        ELSE [s EXCEPT !.pending = <<>>, !.out = all]

\* applyStopSequenceFilter: cut at the first of the listed sequences that
\* occurs, else hold back as much as may belong to one.
ApplyStopSequenceFilter(s, delta) ==
    LET all   == s.pending \o delta
        found == {k \in DOMAIN stops : Index(stops[k], all) > 0}
        k     == CHOOSE k \in found : \A j \in found : k <= j
        keep  == CHOOSE n \in {Len(stops[j]) - 1 : j \in DOMAIN stops} :
                    \A j \in DOMAIN stops : Len(stops[j]) - 1 <= n
        show  == IF Len(all) <= keep THEN 0 ELSE Len(all) - keep
    IN  IF found # {}
        THEN [s EXCEPT !.pending = <<>>, !.out = First(Index(stops[k], all) - 1, all),
                       !.stop = "stop_sequence", !.matched = stops[k]]
        ELSE [s EXCEPT !.pending = From(show + 1, all), !.out = First(show, all)]

\* Mutant: the budget is looked at only after the text has gone out.
ApplyMaxTokensBudgetLate(s, delta) ==
    LET total == s.runes + Len(delta)
    IN  [s EXCEPT !.out = delta, !.runes = total,
                  !.stop = IF budget > 0 /\ total \div 4 >= budget THEN "max_tokens" ELSE @]

\* applyMaxTokensBudget: a token is four runes; what goes beyond is cut off.
ApplyMaxTokensBudget(s, delta) ==
    LET total     == s.runes + Len(delta)
        remaining == budget * 4 - s.runes
    IN  CASE budget = 0 \/ total \div 4 < budget ->
                [s EXCEPT !.out = delta, !.runes = total]
          [] budget > 0 /\ total \div 4 >= budget /\ remaining <= 0 ->
                [s EXCEPT !.out = <<>>, !.stop = "max_tokens"]
          [] budget > 0 /\ total \div 4 >= budget /\ remaining > 0 /\ Len(delta) > remaining ->
                [s EXCEPT !.out = First(remaining, delta), !.runes = @ + remaining,
                          !.stop = "max_tokens"]
          [] OTHER ->
                [s EXCEPT !.out = delta, !.runes = total, !.stop = "max_tokens"]

\* accumulateThinking, which does not ask whether there was a stop before.
AccumulateThinking(s, delta) ==
    IF delta = <<>> THEN [s EXCEPT !.out = <<>>] ELSE ApplyMaxTokensBudget(s, delta)

\* The way of visible text: the stop sequences, then the budget unless there
\* was a stop.  What was before the stop is shown.
AccumulateText(s, delta) ==
    LET filtered == IF delta # <<>> /\ stops # <<>> THEN ApplyStopSequenceFilter(s, delta)
                    ELSE [s EXCEPT !.out = delta]
    IN  IF filtered.out # <<>> /\ filtered.stop = "none"
        THEN ApplyMaxTokensBudget(filtered, filtered.out)
        ELSE filtered

----------------------------------------------------------------------------
\* assistantResponseEvent: tags, then thinking, then text.
AssistantResponse ==
    /\ ~done /\ stop = "none"
    /\ \E delta \in SeqOf(Characters, MaxChunk) \ {<<>>} :
        LET parsed == Parse[tagBuf \o delta, inside]
            think  == AccumulateThinking(State, parsed.thought)
            show   == AccumulateText(think, parsed.text)
        IN  /\ Len(raw) + Len(delta) <= MaxText
            /\ raw' = raw \o delta
            /\ inside' = parsed.inside /\ tagBuf' = parsed.left
            /\ suppress' = (suppress \/ parsed.tags)
            /\ Become(show)
            /\ thought' = thought \o think.out
            /\ text' = text \o show.out
    /\ UNCHANGED <<stops, budget, done, others>>

\* reasoningContentEvent with thinking text, not counted twice.
Reasoning ==
    /\ ~done /\ stop = "none" /\ ~suppress
    /\ \E n \in 1..MaxOpaque :
        LET think == AccumulateThinking(State, [i \in 1..n |-> "reasoning"])
        IN  /\ others + n <= MaxOpaque
            /\ others' = others + n
            /\ Become(think)
            /\ thought' = thought \o think.out
    /\ UNCHANGED <<stops, budget, inside, tagBuf, suppress, text, done, raw>>

\* accumulateOpaqueOutput: a tool call, or redacted reasoning, which is taken
\* after a stop too.
Opaque ==
    /\ ~done
    /\ \E n \in 1..MaxOpaque :
        /\ others + n <= MaxOpaque
        /\ others' = others + n
        /\ runes' = runes + n
        /\ stop' = IF stop = "none" /\ budget > 0 /\ runes' \div 4 >= budget
                   THEN "max_tokens" ELSE stop
    /\ UNCHANGED <<stops, budget, inside, tagBuf, suppress, pending, matched, text, thought, done, raw>>

\* Mutant: what was held back for a stop sequence is not flushed.
FinalizeKeepsPending ==
    /\ ~done
    /\ LET think == AccumulateThinking(State, IF inside THEN tagBuf ELSE <<>>)
           show  == AccumulateText(think, IF inside THEN <<>> ELSE tagBuf)
       IN  /\ Become(show)
           /\ thought' = thought \o think.out
           /\ text' = text \o show.out
    /\ tagBuf' = <<>> /\ done' = TRUE
    /\ UNCHANGED <<stops, budget, inside, suppress, raw, others>>

\* FinalizeStream: what was held back for a tag goes the way of its kind, what
\* was held back for a stop sequence is shown if there was no stop.
FinalizeStream ==
    /\ ~done
    /\ LET think == AccumulateThinking(State, IF inside THEN tagBuf ELSE <<>>)
           show  == AccumulateText(think, IF inside THEN <<>> ELSE tagBuf)
           clear == [show EXCEPT !.pending = <<>>, !.out = <<>>]
           flush == IF show.pending # <<>> /\ show.stop = "none"
                    THEN ApplyMaxTokensBudget(clear, show.pending) ELSE clear
       IN  /\ Become(flush)
           /\ thought' = thought \o think.out
           /\ text' = text \o show.out \o flush.out
    /\ tagBuf' = <<>> /\ done' = TRUE
    /\ UNCHANGED <<stops, budget, inside, suppress, raw, others>>

Init ==
    /\ stops \in StopLists /\ budget \in Budgets
    /\ inside = FALSE /\ tagBuf = <<>> /\ suppress = FALSE /\ pending = <<>> /\ runes = 0
    /\ stop = "none" /\ matched = <<>> /\ text = <<>> /\ thought = <<>>
    /\ done = FALSE /\ raw = <<>> /\ others = 0

Next == AssistantResponse \/ Reasoning \/ Opaque \/ FinalizeStream

Spec == Init /\ [][Next]_vars

----------------------------------------------------------------------------
\* The text read in one piece: for each position whether it is inside of
\* thinking, and how much of a tag is left from there (0 if it is in none).
Reading[i \in 0..MaxText] ==
    IF i = 0 THEN [inside |-> FALSE, tag |-> 0]
    ELSE LET last == Reading[i - 1]
         IN  IF last.tag > 1 THEN [last EXCEPT !.tag = @ - 1]
             ELSE IF OccursAt(Tag(last.inside), raw, i)
             THEN [inside |-> ~last.inside, tag |-> Len(Tag(last.inside))]
             ELSE [last EXCEPT !.tag = 0]

Selected(in) ==
    LET Keep(k) == Reading[k].tag = 0 /\ Reading[k].inside = in
        chosen  == SelectSeq([i \in DOMAIN raw |-> i], Keep)
    IN  [i \in DOMAIN chosen |-> raw[chosen[i]]]

PlainText == Selected(FALSE)
Thinking  == Selected(TRUE)

Occurs(s, t) == Index(t, s) > 0

TypeOK ==
    /\ stops \in StopLists /\ budget \in Budgets
    /\ inside \in BOOLEAN /\ suppress \in BOOLEAN /\ done \in BOOLEAN
    /\ tagBuf \in Seq(Characters) /\ pending \in Seq(Characters) /\ text \in Seq(Characters)
    /\ raw \in Seq(Characters) /\ thought \in Seq(Characters \cup {"reasoning"})
    /\ runes \in Nat /\ others \in 0..MaxOpaque
    /\ stop \in {"none", "stop_sequence", "max_tokens"}
    /\ matched \in Seq(Characters)
    \* Not more than may turn out to be a tag is ever held back.
    /\ Len(tagBuf) < Len(Tag(inside))

\* As long as nothing stops it, all the text is shown once and in order, except
\* for the end that is still held back, and so is the thinking: it does not
\* matter how the upstream cut the text.  In the end nothing is held back.
TextIntact ==
    stop = "none" =>
        /\ text \o pending \o (IF inside THEN <<>> ELSE tagBuf) = PlainText
        /\ others = 0 => thought \o (IF inside THEN tagBuf ELSE <<>>) = Thinking
        /\ done => pending = <<>> /\ tagBuf = <<>>

\* A stop sequence is found wherever the chunks were cut: without a stop none
\* has been shown, and at a stop exactly the text in front of it has.  (After a
\* stop FinalizeStream still shows what was held back for a thinking tag.)
StopExact ==
    /\ stop = "none" => \A k \in DOMAIN stops : ~Occurs(text \o pending, stops[k])
    /\ stop = "stop_sequence" /\ ~done /\ (budget = 0 \/ Len(Thinking) + others = 0) =>
           /\ IsPrefix(text \o matched, PlainText)
           /\ ~Occurs(text, matched)

\* An answer without thinking shows what max_tokens allows and no more, and is
\* cut at that very character.  (A stop sequence in the chunk that exceeds the
\* budget goes first, and what FinalizeStream adds is not counted.)
BudgetExact ==
    budget > 0 /\ others = 0 /\ Thinking = <<>> /\ stop # "stop_sequence" /\ ~done =>
        /\ Len(text) <= 4 * budget
        /\ Len(text) = 4 * budget <=> stop = "max_tokens"

=============================================================================
