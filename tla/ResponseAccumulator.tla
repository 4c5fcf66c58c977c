------------------------ MODULE ResponseAccumulator ------------------------
(***************************************************************************)
(* What responseAccumulator remembers of one upstream answer, as far as    *)
(* control depends on it: whether there was reasoning, visible text, a     *)
(* client tool call, whether text is held back for tag or stop-sequence    *)
(* matching, and whether a stop sequence or max_tokens was reached.  The   *)
(* streaming, non-streaming and server-tool paths all feed one of these.   *)
(***************************************************************************)
FrameKinds == {"text", "held", "tool", "reasoning", "redacted", "other"}

NewAcc == [reasoning |-> FALSE, text |-> FALSE, held |-> FALSE,
           tool |-> FALSE, stop |-> FALSE]

Accumulators == [reasoning : BOOLEAN, text : BOOLEAN, held : BOOLEAN,
                 tool : BOOLEAN, stop : BOOLEAN]

\* Content after a local stop is ignored, except for redacted reasoning.
Live(a, kind) == kind # "other" /\ (a.stop => kind = "redacted")

\* ProcessEvent: what a live content frame adds.  halts is the local stop (stop
\* sequence or max_tokens) it may trigger; what was held back for a stop
\* sequence is dropped then, what was held back for a thinking tag is left.
Accumulate(a, kind, halts, left) ==
    [a EXCEPT !.reasoning = @ \/ kind \in {"reasoning", "redacted"},
              !.text      = @ \/ kind = "text",
              !.tool      = @ \/ kind = "tool",
              !.held      = IF halts THEN left ELSE @ \/ kind = "held",
              !.stop      = @ \/ halts]

\* Only text that was held back, or came with this frame, can be left over.
MayLeave(a, kind) == a.held \/ kind \in {"text", "held"}

\* FinalizeStream shows what is held back.
Finalize(a) == [a EXCEPT !.text = @ \/ a.held, !.held = FALSE]

\* Reasoning, but nothing the client would see: worth another attempt.
IsEmptyVisibleEndTurn(a) == ~a.stop /\ a.reasoning /\ ~a.text /\ ~a.tool

\* resolveStopReason.
StopReason(a) == IF a.stop THEN "stopped" ELSE IF a.tool THEN "tool_use" ELSE "end_turn"
=============================================================================
