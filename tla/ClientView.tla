----------------------------- MODULE ClientView -----------------------------
(***************************************************************************)
(* What the client of one request is promised, without buffers, attempts,  *)
(* heartbeats or locks, as the sequence of all it has been shown.  Without *)
(* a stream that is one JSON body.  A stream shows one message, opened     *)
(* once and before anything is made of it, and closed at most once; or it  *)
(* shows an error, as a JSON body to a client that has been shown nothing  *)
(* at all, and as an event once anything, be it a keep-alive comment, has  *)
(* committed the response to HTTP 200.  Behind a message's end come        *)
(* keep-alives only, behind an error or a JSON body nothing.               *)
(***************************************************************************)
EXTENDS Naturals, Sequences

VARIABLES
    shown,      \* the kinds of the items shown, in their order
    streamed    \* the client asked for a stream

view == <<shown, streamed>>

Shows(kind) == \E i \in DOMAIN shown : shown[i] = kind

Opened == Shows("message_start")
Failed == Shows("error") \/ Shows("json")
Ended  == Failed \/ Shows("message_stop")

\* The beginning of a message, or all of it.
BeginsMessage(items) ==
    /\ items # <<>>
    /\ \A i \in DOMAIN items :
          /\ items[i] \in {"message_start", "delta", "message_stop"}
          /\ items[i] = "message_start" <=> i = 1
          /\ items[i] = "message_stop" => i = Len(items)

Init == shown = <<>> /\ streamed \in BOOLEAN

KeepAlive ==
    /\ streamed /\ ~Failed
    /\ shown' = Append(shown, "keepalive")

\* The first write of a message may carry many events, a whole message even ...
Open ==
    /\ streamed /\ ~Opened /\ ~Ended
    /\ LET items == SubSeq(shown', Len(shown) + 1, Len(shown'))
       IN  BeginsMessage(items) /\ shown' = shown \o items

\* ... the others carry one.
Continue ==
    /\ Opened /\ ~Ended
    /\ \E kind \in {"delta", "message_stop"} : shown' = Append(shown, kind)

FailStream ==
    /\ streamed /\ shown # <<>> /\ ~Ended
    /\ shown' = Append(shown, "error")

AnswerJson ==
    /\ shown = <<>>
    /\ shown' = <<"json">>

Next ==
    /\ KeepAlive \/ Open \/ Continue \/ FailStream \/ AnswerJson
    /\ UNCHANGED streamed

Spec == Init /\ [][Next]_view
=============================================================================
