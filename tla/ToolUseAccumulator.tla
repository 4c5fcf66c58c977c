------------------------- MODULE ToolUseAccumulator -------------------------
(***************************************************************************)
(* toolUseAccumulator: puts a tool call together from its toolUseEvent     *)
(* frames.  A frame may carry the call's id, its name, a piece of its      *)
(* input (or all of it, as an object) and the stop mark; all of them are   *)
(* optional.                                                               *)
(***************************************************************************)
EXTENDS Naturals, Sequences

\* An id or a name that a frame does not carry, and the accumulator's empty ones.
Absent == 0

Empty == [id |-> Absent, name |-> Absent, input |-> <<>>]

\* A frame starts a new call if it brings another id, or a name while there is
\* no call and it has no id itself.
StartsCall(acc, f) ==
    \/ f.id # Absent /\ f.id # acc.id
    \/ f.id = Absent /\ acc.id = Absent /\ f.name # Absent

\* Mutant: the name of the last call is kept for the next.
ExtendedKeepsName(acc, f, fresh) ==
    LET call == IF StartsCall(acc, f)
                THEN [acc EXCEPT !.id = IF f.id # Absent THEN f.id ELSE fresh, !.input = <<>>]
                ELSE acc
    IN  [call EXCEPT !.name  = IF f.name # Absent THEN f.name ELSE @,
                     !.input = IF f.whole THEN f.input ELSE @ \o f.input]

\* What the frame makes of the call it belongs to; a call without an id gets
\* the fresh one.
Extended(acc, f, fresh) ==
    LET call == IF StartsCall(acc, f)
                THEN [Empty EXCEPT !.id = IF f.id # Absent THEN f.id ELSE fresh]
                ELSE acc
    IN  [call EXCEPT !.name  = IF f.name # Absent THEN f.name ELSE @,
                     !.input = IF f.whole THEN f.input ELSE @ \o f.input]

\* update: the calls the frame completes, and what is left.  A call whose stop
\* never came is complete when the next one starts.
Completed(acc, f, fresh) ==
    (IF StartsCall(acc, f) /\ acc.id # Absent THEN <<acc>> ELSE <<>>)
        \o (IF f.stop THEN <<Extended(acc, f, fresh)>> ELSE <<>>)

Update(acc, f, fresh) == IF f.stop THEN Empty ELSE Extended(acc, f, fresh)

\* flush: the call still in progress when the stream ends.
Flush(acc) == IF acc.id = Absent THEN <<>> ELSE <<acc>>
=============================================================================
