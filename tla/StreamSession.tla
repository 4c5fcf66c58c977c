--------------------------- MODULE StreamSession ---------------------------
(***************************************************************************)
(* The stream session of one streaming /v1/messages request: the object    *)
(* that owns every byte the proxy sends downstream.  Three goroutines meet *)
(* in it under one mutex: the request handler, which writes semantic SSE   *)
(* events into a buffer until the response is "promoted" and straight to   *)
(* the socket afterwards; the heartbeat, which writes keep-alive comments  *)
(* straight to the socket at any time; and whoever calls Stop.             *)
(*                                                                         *)
(* Each action below is one critical section of the session's mutex, or    *)
(* one blocking point between two of them.  This module lets the handler   *)
(* call the methods in any order it likes, so what holds here holds for    *)
(* every handler; StreamRequest runs the real one on top of it.            *)
(*                                                                         *)
(* Abstracted: the bytes of an event (an item is its kind and, for what    *)
(* the handler writes, a serial number), and time (the idle timer may      *)
(* expire whenever the heartbeat waits on it).  WriteHeader is left out:   *)
(* no code path calls it on a session, so statusCode is always 0.          *)
(***************************************************************************)
EXTENDS Naturals, Sequences, SequencesExt

CONSTANTS
    EventKinds,     \* kinds of semantic events SSEWriter writes, "error" among them
    MaxWrites,      \* bound on the items the handler writes
    MaxKeepAlives   \* bound on the keep-alives the heartbeat sends

ASSUME KindsAssumption ==
    /\ "error" \in EventKinds
    /\ {"json", "keepalive"} \cap EventKinds = {}

ASSUME BoundsAssumption == MaxWrites \in Nat /\ MaxKeepAlives \in Nat

VARIABLES
    wire,           \* items handed to the socket, in order
    torn,           \* the last item of wire was only partly written
    head,           \* status line and content type the client saw, or NoHead
    contentType,    \* Content-Type in the header map
    buf,            \* semantic items held back until promotion
    promoted, committed, pendingFlush,
    firstErr,       \* a downstream write or flush has failed
    finalizing, finalized,
    cancelled,      \* the session's context is done
    activity,       \* token in the 1-slot activity channel
    hb,             \* where the heartbeat goroutine is
    stop,           \* how far Stop has got
    written,        \* serial number of the handler's last item
    kept            \* history: items accepted and not thrown away since

socketVars  == <<wire, torn, head, committed, firstErr, cancelled>>
sessionVars == <<contentType, buf, promoted, finalizing, finalized>>
historyVars == <<written, kept>>
vars == <<socketVars, sessionVars, pendingFlush, activity, hb, stop, historyVars>>

NoHead == [code |-> "none", type |-> "none"]
Heads  == [code : {"none", "ok", "error"}, type : {"none", "sse", "json"}]

\* Semantic items carry the serial number of the Write call; the session's own
\* items (keep-alives, direct errors, the JSON body) carry 0.
Item      == [kind : EventKinds \cup {"json", "keepalive"}, id : Nat]
KeepAlive == [kind |-> "keepalive", id |-> 0]
SseError  == [kind |-> "error", id |-> 0]
JsonBody  == [kind |-> "json", id |-> 0]

Semantic(item) == item.id > 0
IsKeepAlive(item) == item = KeepAlive

Stopped == stop # "no"

\* Mutant: unavailableLocked forgets the stopped flag.
UnavailableUnlessStopped == firstErr \/ finalized \/ cancelled

Unavailable == firstErr \/ Stopped \/ finalized \/ cancelled

----------------------------------------------------------------------------
\* One socket write of items: it may end early, in the middle of an item, and
\* any failure is kept in firstErr and cancels the request's context.
SocketWrite(items, code) ==
    \E n \in 0..Len(items), part, err \in BOOLEAN :
        /\ part => n > 0
        /\ (part \/ n < Len(items)) => err
        /\ wire' = wire \o SubSeq(items, 1, n)
        /\ torn' = part
        /\ committed' = (committed \/ n > 0)
        /\ head' = IF head = NoHead /\ (n > 0 \/ code = "error")
                   THEN [code |-> code, type |-> contentType'] ELSE head
        /\ firstErr' = (firstErr \/ err)
        /\ cancelled' = (cancelled \/ err)

\* Write then flush under the same lock; a clean flush records activity, a
\* failed one leaves the write pending.
SocketWriteFlush(items) ==
    /\ SocketWrite(items, "ok")
    /\ pendingFlush' \in (IF firstErr' THEN {pendingFlush, TRUE} ELSE {FALSE})
    /\ activity' = (activity \/ ~firstErr')

CanSetHeaders == contentType = "none" /\ ~committed /\ ~finalized

SetSSEHeaders ==
    /\ CanSetHeaders
    /\ contentType' = "sse"
    /\ UNCHANGED <<socketVars, buf, promoted, finalizing, finalized, pendingFlush,
                   activity, hb, stop, historyVars>>

Write(kind) ==
    LET item == [kind |-> kind, id |-> written + 1]
    IN  /\ ~Unavailable
        /\ written' = written + 1
        /\ kept' = Append(kept, item)
        /\ \/ /\ ~promoted
              /\ buf' = Append(buf, item)
              /\ UNCHANGED <<socketVars, contentType, pendingFlush>>
           \/ /\ promoted
              /\ UNCHANGED <<contentType, buf>>
              /\ SocketWrite(<<item>>, "ok")
              /\ pendingFlush' = (pendingFlush \/ ~firstErr')
        /\ UNCHANGED <<promoted, finalizing, finalized, activity, hb, stop>>

CanFlush == promoted /\ ~firstErr /\ ~Stopped /\ ~finalized

Flush ==
    /\ CanFlush
    /\ \E err \in BOOLEAN :
        /\ firstErr' = err
        /\ cancelled' = (cancelled \/ err)
        /\ pendingFlush' = (pendingFlush /\ err)
        /\ activity' = (activity \/ (pendingFlush /\ ~err))
        \* Flushing a response nothing was written to sends its header.
        /\ head' = IF head = NoHead /\ ~err
                   THEN [code |-> "ok", type |-> contentType] ELSE head
    /\ UNCHANGED <<wire, torn, committed, sessionVars, hb, stop, historyVars>>

Promote ==
    /\ ~Unavailable /\ ~promoted
    /\ promoted' = TRUE
    /\ \/ /\ buf # <<>>
          /\ UNCHANGED contentType
          /\ SocketWriteFlush(buf)
          /\ buf' = IF torn' \/ Len(wire') < Len(wire) + Len(buf) THEN buf ELSE <<>>
       \/ /\ buf = <<>>
          /\ \E err \in BOOLEAN :
                /\ firstErr' = err
                /\ cancelled' = err
                /\ pendingFlush' = (pendingFlush /\ err)
                /\ activity' = (activity \/ (pendingFlush /\ ~err))
                /\ head' = IF head = NoHead /\ ~err
                           THEN [code |-> "ok", type |-> contentType] ELSE head
          /\ UNCHANGED <<wire, torn, committed, contentType, buf>>
    /\ UNCHANGED <<finalizing, finalized, hb, stop, historyVars>>

\* Mutant: Discard reports the attempt dropped but leaves its bytes buffered.
DiscardNothing ==
    /\ ~promoted
    /\ kept' = <<>>
    /\ UNCHANGED <<socketVars, sessionVars, pendingFlush, activity, hb, stop, written>>

Discard ==
    /\ ~promoted
    /\ buf' = <<>>
    /\ kept' = <<>>
    /\ UNCHANGED <<socketVars, contentType, promoted, finalizing, finalized,
                   pendingFlush, activity, hb, stop, written>>

----------------------------------------------------------------------------
\* WriteFinalError: a promoted stream hands the lock back while SSEWriter's
\* callback closes the open block and writes the error event ...
FinalErrorBegin ==
    /\ ~Unavailable /\ promoted /\ ~finalizing
    /\ finalizing' = TRUE
    /\ UNCHANGED <<socketVars, contentType, buf, promoted, finalized, pendingFlush,
                   activity, hb, stop, historyVars>>

FinalErrorEnd ==
    /\ finalizing
    /\ finalizing' = FALSE
    /\ finalized' = TRUE
    /\ UNCHANGED <<socketVars, contentType, buf, promoted, pendingFlush,
                   activity, hb, stop, historyVars>>

\* ... anything already on the wire makes the error an SSE event ...
FinalErrorSSE ==
    /\ ~Unavailable /\ ~finalizing
    /\ promoted \/ committed
    /\ buf'  = IF promoted THEN buf ELSE <<>>
    /\ kept' = IF promoted THEN kept ELSE <<>>
    /\ UNCHANGED contentType
    /\ SocketWriteFlush(<<SseError>>)
    /\ finalized' = TRUE
    /\ UNCHANGED <<promoted, finalizing, hb, stop, written>>

\* Mutant: the decision table looks at promotion only.
FinalErrorJSONUnpromoted ==
    /\ ~Unavailable /\ ~finalizing
    /\ ~promoted
    /\ buf' = <<>>
    /\ kept' = <<>>
    /\ contentType' = "json"
    /\ SocketWrite(<<JsonBody>>, "error")
    /\ pendingFlush' = (pendingFlush \/ ~firstErr')
    /\ finalized' = TRUE
    /\ UNCHANGED <<promoted, finalizing, activity, hb, stop, written>>

\* ... and an untouched response becomes a JSON error with its own status.
FinalErrorJSON ==
    /\ ~Unavailable /\ ~finalizing
    /\ ~promoted /\ ~committed
    /\ buf' = <<>>
    /\ kept' = <<>>
    /\ contentType' = "json"
    /\ SocketWrite(<<JsonBody>>, "error")
    /\ pendingFlush' = (pendingFlush \/ ~firstErr')
    /\ finalized' = TRUE
    /\ UNCHANGED <<promoted, finalizing, activity, hb, stop, written>>

----------------------------------------------------------------------------
\* Mutant: the stopped check is not in the critical section that adds to the
\* wait group.
StartUnchecked ==
    /\ hb = "none"
    /\ hb' = "check"
    /\ UNCHANGED <<socketVars, sessionVars, pendingFlush, activity, stop, historyVars>>

CanStart == hb = "none" /\ ~Stopped

Start ==
    /\ CanStart
    /\ hb' = "check"
    /\ UNCHANGED <<socketVars, sessionVars, pendingFlush, activity, stop, historyVars>>

HeartbeatCheck ==
    /\ hb = "check"
    /\ hb' = IF Stopped \/ firstErr \/ finalizing \/ finalized THEN "exited" ELSE "select"
    /\ UNCHANGED <<socketVars, sessionVars, pendingFlush, activity, stop, historyVars>>

\* The four arms of the heartbeat's select.
HeartbeatActivity ==
    /\ hb = "select" /\ activity
    /\ activity' = FALSE
    /\ hb' = "check"
    /\ UNCHANGED <<socketVars, sessionVars, pendingFlush, stop, historyVars>>

HeartbeatDone ==
    /\ hb = "select"
    /\ stop \in {"signalled", "returned"} \/ cancelled
    /\ hb' = "exited"
    /\ UNCHANGED <<socketVars, sessionVars, pendingFlush, activity, stop, historyVars>>

KeepAlivesSent == Len(SelectSeq(wire, IsKeepAlive))

\* Mutant: a keep-alive may interrupt the callback of WriteFinalError.
WriteKeepAliveAnytime ==
    /\ hb = "select"
    /\ ~Unavailable
    /\ KeepAlivesSent < MaxKeepAlives
    /\ UNCHANGED contentType
    /\ SocketWriteFlush(<<KeepAlive>>)
    /\ hb' = IF firstErr' THEN "exited" ELSE "check"
    /\ UNCHANGED <<buf, promoted, finalizing, finalized, stop, historyVars>>

WriteKeepAlive ==
    /\ hb = "select"
    /\ ~finalizing /\ ~Unavailable
    /\ KeepAlivesSent < MaxKeepAlives
    /\ UNCHANGED contentType
    /\ SocketWriteFlush(<<KeepAlive>>)
    /\ hb' = IF firstErr' THEN "exited" ELSE "check"
    /\ UNCHANGED <<buf, promoted, finalizing, finalized, stop, historyVars>>

KeepAliveRefused ==
    /\ hb = "select"
    /\ finalizing \/ Unavailable
    /\ hb' = "exited"
    /\ UNCHANGED <<socketVars, sessionVars, pendingFlush, activity, stop, historyVars>>

----------------------------------------------------------------------------
\* Stop: raise the flag under the mutex, then close stopCh and cancel, then
\* wait for the heartbeat.
StopFlag ==
    /\ stop = "no"
    /\ stop' = "flagged"
    /\ UNCHANGED <<socketVars, sessionVars, pendingFlush, activity, hb, historyVars>>

StopSignal ==
    /\ stop = "flagged"
    /\ stop' = "signalled"
    /\ cancelled' = TRUE
    /\ UNCHANGED <<wire, torn, head, committed, firstErr, sessionVars, pendingFlush,
                   activity, hb, historyVars>>

\* Mutant: the heartbeat returns without wg.Done.
StopJoinLeaked ==
    /\ stop = "signalled"
    /\ hb = "none"
    /\ stop' = "returned"
    /\ UNCHANGED <<socketVars, sessionVars, pendingFlush, activity, hb, historyVars>>

StopJoin ==
    /\ stop = "signalled"
    /\ hb \in {"none", "exited"}
    /\ stop' = "returned"
    /\ UNCHANGED <<socketVars, sessionVars, pendingFlush, activity, hb, historyVars>>

\* The client goes away: net/http cancels the request's context.
ClientGone ==
    /\ ~cancelled
    /\ cancelled' = TRUE
    /\ UNCHANGED <<wire, torn, head, committed, firstErr, sessionVars, pendingFlush,
                   activity, hb, stop, historyVars>>

----------------------------------------------------------------------------
Init ==
    /\ wire = <<>> /\ torn = FALSE /\ head = NoHead
    /\ committed = FALSE /\ firstErr = FALSE /\ cancelled = FALSE
    /\ contentType = "none" /\ buf = <<>> /\ promoted = FALSE
    /\ finalizing = FALSE /\ finalized = FALSE
    /\ pendingFlush = FALSE /\ activity = FALSE
    /\ hb = "none" /\ stop = "no"
    /\ written = 0 /\ kept = <<>>

\* While WriteFinalError's callback runs, the handler can only write.
HandlerCall ==
    \/ /\ written < MaxWrites
       /\ \E kind \in EventKinds :
            /\ (kind = "error") = finalizing
            /\ Write(kind)
    \/ Flush
    \/ ~finalizing /\ (SetSSEHeaders \/ Start \/ Promote \/ Discard)
    \/ FinalErrorBegin \/ FinalErrorEnd \/ FinalErrorSSE \/ FinalErrorJSON

Heartbeat == HeartbeatCheck \/ HeartbeatActivity \/ HeartbeatDone
                \/ WriteKeepAlive \/ KeepAliveRefused

StopCall == StopFlag \/ StopSignal \/ StopJoin

Next == HandlerCall \/ Heartbeat \/ StopCall \/ ClientGone

Spec == Init /\ [][Next]_vars

\* A started goroutine keeps running, and Stop, once called, is not abandoned.
\* Nothing makes the handler or the client do anything.  Every socket call
\* returns: it carries a 30s write deadline.
FairSpec == Spec /\ WF_vars(Heartbeat) /\ WF_vars(StopSignal) /\ WF_vars(StopJoin)
----------------------------------------------------------------------------
TypeOK ==
    /\ wire \in Seq(Item) /\ torn \in BOOLEAN /\ head \in Heads
    /\ contentType \in {"none", "sse", "json"}
    /\ buf \in Seq(Item) /\ kept \in Seq(Item) /\ written \in Nat
    /\ promoted \in BOOLEAN /\ committed \in BOOLEAN /\ pendingFlush \in BOOLEAN
    /\ firstErr \in BOOLEAN /\ cancelled \in BOOLEAN /\ activity \in BOOLEAN
    /\ finalizing \in BOOLEAN /\ finalized \in BOOLEAN
    /\ hb \in {"none", "check", "select", "exited"}
    /\ stop \in {"no", "flagged", "signalled", "returned"}

\* A JSON error is the whole response: nothing precedes or follows it, and it
\* travels under its own status and content type.  (WriteFinalError's decision
\* table against a heartbeat that may commit the response at any moment.)
JsonIsAlone ==
    \A i \in DOMAIN wire : wire[i].kind = "json" =>
        Len(wire) = 1 /\ head = [code |-> "error", type |-> "json"]

\* After the final error, after a failed or torn write and after Stop has
\* raised its flag, not one more byte reaches the socket, from any goroutine.
WireClosed == [][finalized \/ torn \/ firstErr \/ Stopped => UNCHANGED wire]_vars

\* While WriteFinalError has given the lock to its callback, no keep-alive
\* gets between the bytes of the closing block and the error event.
FinalErrorUninterrupted ==
    [][finalizing /\ wire' # wire => Semantic(Last(wire'))]_vars

Sent == {item \in Range(wire) : Semantic(item)}

InOrder(items) ==
    \A i, j \in DOMAIN items :
        i < j /\ Semantic(items[i]) /\ Semantic(items[j]) => items[i].id < items[j].id

\* Semantic items reach the client in the order they were written, each once,
\* none that a retry discarded, and none is missing unless the socket failed:
\* what was sent is a beginning of what was kept, and the buffer is the rest.
Delivery ==
    /\ InOrder(wire) /\ InOrder(kept)
    /\ \E n \in 0..Len(kept) :
          /\ Sent = {kept[k] : k \in 1..n}
          /\ ~firstErr => buf = SubSeq(kept, n + 1, Len(kept))

\* Once Stop has returned no heartbeat runs, however Start and Stop raced.
HeartbeatJoined == stop = "returned" => hb \in {"none", "exited"}

\* The heartbeat of a healthy response never dies: it gives up only after an
\* error, a final error, Stop or cancellation.
HeartbeatServes ==
    hb = "exited" => firstErr \/ Stopped \/ finalizing \/ finalized \/ cancelled

\* Stop never waits forever for the heartbeat.
StopReturns == Stopped ~> (stop = "returned")

=============================================================================
