------------------------ MODULE StreamSessionProofs ------------------------
(***************************************************************************)
(* Proofs about StreamSession: whatever the handler calls in whatever      *)
(* order, for any number of writes and keep-alives, a JSON error stands    *)
(* alone, the socket stays closed once closed, Stop joins the heartbeat,   *)
(* and the heartbeat does not give up on a healthy response.               *)
(***************************************************************************)
EXTENDS StreamSession, SequenceTheorems, TLAPS

\* What makes the invariants inductive.  The heart is that everything on the
\* wire before promotion is a keep-alive, so "not committed" means that the
\* client has seen nothing, and that a JSON body finalizes the session under
\* the same lock that wrote it.
BufferIsSemantic == \A i \in DOMAIN buf : buf[i].kind \in EventKinds

UntouchedUntilCommitted ==
    /\ ~committed => wire = <<>>
    /\ ~committed /\ ~promoted /\ ~finalized => head = NoHead

FailuresLatch ==
    /\ torn => firstErr
    /\ firstErr => cancelled

Finalization ==
    /\ finalizing => promoted
    /\ \A i \in DOMAIN wire : wire[i].kind = "json" => finalized

IInv ==
    /\ TypeOK
    /\ BufferIsSemantic
    /\ UntouchedUntilCommitted
    /\ FailuresLatch
    /\ Finalization
    /\ JsonIsAlone
    /\ HeartbeatJoined
    /\ HeartbeatServes

USE KindsAssumption, BoundsAssumption
----------------------------------------------------------------------------
LEMMA InitIInv == Init => IInv
<1> SUFFICES ASSUME Init PROVE IInv
  OBVIOUS
<1>1. TypeOK
  <2>1. wire \in Seq(Item) /\ buf \in Seq(Item) /\ kept \in Seq(Item)
    BY DEF Init
  <2>2. head \in Heads
    BY DEF Init, NoHead, Heads
  <2> QED
    BY <2>1, <2>2 DEF Init, TypeOK
<1>2. BufferIsSemantic /\ UntouchedUntilCommitted /\ FailuresLatch
  BY DEF Init, BufferIsSemantic, UntouchedUntilCommitted, FailuresLatch
<1>3. Finalization /\ JsonIsAlone
  BY DEF Init, Finalization, JsonIsAlone
<1>4. HeartbeatJoined /\ HeartbeatServes
  BY DEF Init, HeartbeatJoined, HeartbeatServes
<1> QED
  BY <1>1, <1>2, <1>3, <1>4 DEF IInv

----------------------------------------------------------------------------
\* What one socket write does: it appends a prefix of the items, and a failure
\* or a torn item is latched.
LEMMA SocketWriteGrows ==
  ASSUME TypeOK, NEW items \in Seq(Item), NEW code \in {"ok", "error"},
         contentType' \in {"none", "sse", "json"}, SocketWrite(items, code)
  PROVE  /\ wire' \in Seq(Item) /\ head' \in Heads
         /\ torn' \in BOOLEAN /\ committed' \in BOOLEAN
         /\ firstErr' \in BOOLEAN /\ cancelled' \in BOOLEAN
         /\ torn' => firstErr'
         /\ (firstErr => cancelled) => (firstErr' => cancelled')
         /\ \E n \in 0..Len(items) :
               /\ Len(wire') = Len(wire) + n
               /\ \A i \in 1..Len(wire) : wire'[i] = wire[i]
               /\ \A i \in 1..n : wire'[Len(wire) + i] = items[i]
               /\ committed' = (committed \/ n > 0)
               /\ n < Len(items) => firstErr'
               /\ n = 0 => wire' = wire
               /\ n = 0 /\ code = "ok" => head' = head
               /\ code = "error" /\ head = NoHead
                     => head' = [code |-> "error", type |-> contentType']
               /\ torn' => n > 0
               /\ head' = IF head = NoHead /\ (n > 0 \/ code = "error")
                          THEN [code |-> code, type |-> contentType'] ELSE head
<1>1. PICK n \in 0..Len(items), part \in BOOLEAN, err \in BOOLEAN :
          /\ part => n > 0
          /\ (part \/ n < Len(items)) => err
          /\ wire' = wire \o SubSeq(items, 1, n)
          /\ torn' = part
          /\ committed' = (committed \/ n > 0)
          /\ head' = IF head = NoHead /\ (n > 0 \/ code = "error")
                     THEN [code |-> code, type |-> contentType'] ELSE head
          /\ firstErr' = (firstErr \/ err)
          /\ cancelled' = (cancelled \/ err)
  BY DEF SocketWrite
<1>2. wire \in Seq(Item) /\ Len(wire) \in Nat /\ Len(items) \in Nat
  BY LenProperties DEF TypeOK
<1> DEFINE sent == SubSeq(items, 1, n)
<1>3. \A i \in 1..n : items[i] \in Item
  BY <1>2, ElementOfSeq
<1>4. sent \in Seq(Item) /\ Len(sent) = n /\ \A i \in 1..n : sent[i] = items[i]
  BY <1>2, <1>3, SubSeqProperties
<1> HIDE DEF sent
<1>5. /\ wire \o sent \in Seq(Item)
      /\ Len(wire \o sent) = Len(wire) + n
      /\ \A i \in 1..Len(wire) + n : (wire \o sent)[i] =
            IF i <= Len(wire) THEN wire[i] ELSE sent[i - Len(wire)]
  BY <1>2, <1>4, ConcatProperties
<1>6. wire' = wire \o sent
  BY <1>1 DEF sent
<1>7. wire' \in Seq(Item) /\ Len(wire') = Len(wire) + n
  BY <1>5, <1>6
<1>8. \A i \in 1..Len(wire) : wire'[i] = wire[i]
  BY <1>2, <1>5, <1>6
<1>9. \A i \in 1..n : wire'[Len(wire) + i] = items[i]
  BY <1>2, <1>4, <1>5, <1>6
<1>10. n = 0 => wire' = wire
  <2> SUFFICES ASSUME n = 0 PROVE wire' = wire
    OBVIOUS
  <2>1. sent = <<>>
    BY <1>4, EmptySeq
  <2> QED
    BY <2>1, <1>2, <1>6, ConcatEmptySeq
<1>11. head' \in Heads
  BY <1>1 DEF TypeOK, Heads
<1>12. /\ torn' \in BOOLEAN /\ committed' \in BOOLEAN
       /\ firstErr' \in BOOLEAN /\ cancelled' \in BOOLEAN
       /\ torn' => firstErr'
       /\ (firstErr => cancelled) => (firstErr' => cancelled')
  BY <1>1 DEF TypeOK
<1>13. /\ n < Len(items) => firstErr'
       /\ n = 0 /\ code = "ok" => head' = head
       /\ code = "error" /\ head = NoHead
                     => head' = [code |-> "error", type |-> contentType']
       /\ torn' => n > 0
       /\ head' = IF head = NoHead /\ (n > 0 \/ code = "error")
                  THEN [code |-> code, type |-> contentType'] ELSE head
  BY <1>1
<1> QED
  BY <1>1, <1>7, <1>8, <1>9, <1>10, <1>11, <1>12, <1>13

\* A write of semantic items or of the session's own SSE items keeps every
\* part of the invariant that speaks of the wire.
LEMMA SocketWriteKeeps ==
  ASSUME IInv, ~finalized, NEW items \in Seq(Item),
         \A i \in DOMAIN items : items[i].kind # "json",
         UNCHANGED contentType, SocketWrite(items, "ok")
  PROVE  /\ wire' \in Seq(Item) /\ head' \in Heads
         /\ torn' \in BOOLEAN /\ committed' \in BOOLEAN
         /\ firstErr' \in BOOLEAN /\ cancelled' \in BOOLEAN
         /\ FailuresLatch'
         /\ ~committed' => wire' = <<>> /\ head' = head /\ ~committed
         /\ \A i \in DOMAIN wire' : wire'[i].kind # "json"
<1>1. TypeOK /\ wire \in Seq(Item) /\ contentType' \in {"none", "sse", "json"}
  BY DEF IInv, TypeOK
<1>2. PICK n \in 0..Len(items) :
         /\ Len(wire') = Len(wire) + n
         /\ \A i \in 1..Len(wire) : wire'[i] = wire[i]
         /\ \A i \in 1..n : wire'[Len(wire) + i] = items[i]
         /\ committed' = (committed \/ n > 0)
         /\ n = 0 => wire' = wire
         /\ n = 0 => head' = head
  BY <1>1, SocketWriteGrows
<1>3. Len(wire) \in Nat /\ Len(items) \in Nat /\ DOMAIN wire = 1..Len(wire)
         /\ DOMAIN items = 1..Len(items)
  BY <1>1, LenProperties
<1>4. /\ wire' \in Seq(Item) /\ head' \in Heads
      /\ torn' \in BOOLEAN /\ committed' \in BOOLEAN
      /\ firstErr' \in BOOLEAN /\ cancelled' \in BOOLEAN
      /\ torn' => firstErr'
      /\ (firstErr => cancelled) => (firstErr' => cancelled')
  BY <1>1, SocketWriteGrows
<1>5. FailuresLatch'
  BY <1>4 DEF IInv, FailuresLatch
<1>6. ~committed' => wire' = <<>> /\ head' = head /\ ~committed
  <2> SUFFICES ASSUME ~committed' PROVE wire' = <<>> /\ head' = head /\ ~committed
    OBVIOUS
  <2>1. ~committed /\ ~(n > 0)
    BY <1>2, Zenon
  <2>2. n = 0
    BY <2>1, <1>3
  <2> QED
    BY <2>1, <2>2, <1>2 DEF IInv, UntouchedUntilCommitted
<1>7. ASSUME NEW i \in DOMAIN wire' PROVE wire'[i].kind # "json"
  <2>1. DOMAIN wire' = 1..(Len(wire) + n)
    BY <1>2, <1>4, LenProperties
  <2>2. CASE i <= Len(wire)
    <3>1. i \in DOMAIN wire /\ wire'[i] = wire[i]
      BY <2>1, <2>2, <1>2, <1>3
    <3> QED
      BY <3>1 DEF IInv, Finalization
  <2>3. CASE ~(i <= Len(wire))
    <3> DEFINE k == i - Len(wire)
    <3>1. k \in 1..n /\ i = Len(wire) + k
      BY <2>1, <2>3, <1>3
    <3>2. k \in DOMAIN items
      BY <3>1, <1>3
    <3>3. wire'[i] = items[k]
      BY <3>1, <1>2
    <3> QED
      BY <3>2, <3>3
  <2> QED
    BY <2>2, <2>3
<1> QED
  BY <1>4, <1>5, <1>6, <1>7

----------------------------------------------------------------------------
\* What a step of a session that sends nothing must preserve, and what it may
\* not touch.
QuietStep ==
    /\ UNCHANGED <<wire, torn, head, committed, firstErr>>
    /\ cancelled' \in BOOLEAN
    /\ cancelled => cancelled'

\* A step that sends nothing keeps what the invariant says of the wire.
LEMMA QuietKeeps ==
  ASSUME IInv, QuietStep, promoted => promoted', finalized => finalized'
  PROVE  UntouchedUntilCommitted' /\ FailuresLatch' /\ JsonIsAlone'
         /\ \A i \in DOMAIN wire' : wire'[i].kind = "json" => finalized'
<1>1. UntouchedUntilCommitted'
  BY DEF QuietStep, IInv, UntouchedUntilCommitted
<1>2. FailuresLatch'
  BY DEF QuietStep, IInv, FailuresLatch, TypeOK
<1>3. JsonIsAlone' /\ \A i \in DOMAIN wire' : wire'[i].kind = "json" => finalized'
  BY DEF QuietStep, IInv, JsonIsAlone, Finalization
<1> QED
  BY <1>1, <1>2, <1>3

\* The parts of the invariant that are not about the wire.
Control ==
    /\ finalizing => promoted
    /\ HeartbeatJoined
    /\ HeartbeatServes

\* Steps of the heartbeat, of Stop and of the client that send nothing.
LEMMA ControlStep ==
  ASSUME IInv,
         \/ Start \/ HeartbeatCheck \/ HeartbeatActivity \/ HeartbeatDone
         \/ KeepAliveRefused \/ StopCall \/ ClientGone \/ SetSSEHeaders
         \/ FinalErrorBegin \/ FinalErrorEnd
  PROVE  IInv'
<1>1. QuietStep
  BY DEF IInv, TypeOK, QuietStep, Start, HeartbeatCheck, HeartbeatActivity, HeartbeatDone,
         KeepAliveRefused, StopCall, StopFlag, StopSignal, StopJoin, ClientGone,
         SetSSEHeaders, FinalErrorBegin, FinalErrorEnd, socketVars
<1>2. (promoted => promoted') /\ (finalized => finalized') /\ UNCHANGED buf
  BY DEF Start, HeartbeatCheck, HeartbeatActivity, HeartbeatDone,
         KeepAliveRefused, StopCall, StopFlag, StopSignal, StopJoin, ClientGone,
         SetSSEHeaders, FinalErrorBegin, FinalErrorEnd, sessionVars
<1>3. UntouchedUntilCommitted' /\ FailuresLatch' /\ JsonIsAlone'
         /\ \A i \in DOMAIN wire' : wire'[i].kind = "json" => finalized'
  BY <1>1, <1>2, QuietKeeps
<1>4. TypeOK'
  <2> USE DEF Start, HeartbeatCheck, HeartbeatActivity, HeartbeatDone,
         KeepAliveRefused, StopCall, StopFlag, StopSignal, StopJoin, ClientGone,
         SetSSEHeaders, FinalErrorBegin, FinalErrorEnd,
         socketVars, sessionVars, historyVars
  <2>1. UNCHANGED <<promoted, pendingFlush, written, kept>>
    OBVIOUS
  <2>2. /\ contentType' \in {"none", "sse", "json"}
        /\ hb' \in {"none", "check", "select", "exited"}
        /\ stop' \in {"no", "flagged", "signalled", "returned"}
    BY DEF IInv, TypeOK
  <2>3. activity' \in BOOLEAN /\ finalizing' \in BOOLEAN /\ finalized' \in BOOLEAN
    BY DEF IInv, TypeOK
  <2> QED
    BY <1>1, <1>2, <2>1, <2>2, <2>3, Zenon DEF IInv, TypeOK, QuietStep
<1>5. Control'
  BY DEF IInv, TypeOK, Finalization, FailuresLatch, Control, HeartbeatJoined, HeartbeatServes,
         Stopped, Unavailable, CanStart,
         Start, HeartbeatCheck, HeartbeatActivity, HeartbeatDone,
         KeepAliveRefused, StopCall, StopFlag, StopSignal, StopJoin, ClientGone,
         SetSSEHeaders, FinalErrorBegin, FinalErrorEnd,
         socketVars, sessionVars, historyVars
<1> QED
  BY <1>2, <1>3, <1>4, <1>5
     DEF IInv, Control, Finalization, BufferIsSemantic

\* Discarding, and flushing a promoted response.
LEMMA DiscardStep == ASSUME IInv, Discard PROVE IInv'
<1>1. QuietStep
  BY DEF IInv, TypeOK, QuietStep, Discard, socketVars
<1>2. UntouchedUntilCommitted' /\ FailuresLatch' /\ JsonIsAlone'
         /\ \A i \in DOMAIN wire' : wire'[i].kind = "json" => finalized'
  BY <1>1, QuietKeeps DEF Discard
<1>3. buf' = <<>> /\ buf' \in Seq(Item) /\ kept' \in Seq(Item) /\ BufferIsSemantic'
  BY DEF Discard, BufferIsSemantic
<1>4. TypeOK'
  <2>1. UNCHANGED <<socketVars, contentType, promoted, finalizing, finalized,
                    pendingFlush, activity, hb, stop, written>>
    BY DEF Discard
  <2> QED
    BY <1>3, <2>1 DEF IInv, TypeOK, socketVars
<1>5. Control'
  BY DEF IInv, Finalization, Control, HeartbeatJoined, HeartbeatServes, Stopped,
         Discard, socketVars
<1> QED
  BY <1>2, <1>3, <1>4, <1>5 DEF IInv, Control, Finalization

LEMMA FlushStep == ASSUME IInv, Flush PROVE IInv'
<1>1. PICK err \in BOOLEAN :
        /\ firstErr' = err
        /\ cancelled' = (cancelled \/ err)
        /\ pendingFlush' = (pendingFlush /\ err)
        /\ activity' = (activity \/ (pendingFlush /\ ~err))
        /\ head' = IF head = NoHead /\ ~err
                   THEN [code |-> "ok", type |-> contentType] ELSE head
  BY DEF Flush
<1>2. /\ UNCHANGED <<wire, torn, committed, contentType, buf, promoted, finalizing,
                     finalized, hb, stop, written, kept>>
      /\ promoted /\ ~firstErr /\ ~Stopped /\ ~finalized
  BY DEF Flush, CanFlush, sessionVars, historyVars
<1>3. TypeOK'
  <2>1. head' \in Heads
    BY <1>1 DEF IInv, TypeOK, Heads
  <2>2. firstErr' \in BOOLEAN /\ cancelled' \in BOOLEAN
          /\ pendingFlush' \in BOOLEAN /\ activity' \in BOOLEAN
    BY <1>1
  <2> QED
    BY <1>2, <2>1, <2>2 DEF IInv, TypeOK
<1>4. BufferIsSemantic' /\ UntouchedUntilCommitted'
  BY <1>2 DEF IInv, BufferIsSemantic, UntouchedUntilCommitted
<1>5. FailuresLatch'
  BY <1>1, <1>2 DEF IInv, FailuresLatch
<1>6. Finalization' /\ JsonIsAlone'
  BY <1>2 DEF IInv, Finalization, JsonIsAlone
<1>7. HeartbeatJoined' /\ HeartbeatServes'
  BY <1>1, <1>2 DEF IInv, HeartbeatJoined, HeartbeatServes, Stopped
<1> QED
  BY <1>3, <1>4, <1>5, <1>6, <1>7 DEF IInv

----------------------------------------------------------------------------
\* A step that writes items none of which is a JSON body keeps what the
\* invariant says of the wire.
LEMMA WritingKeeps ==
  ASSUME IInv, ~Unavailable, NEW items \in Seq(Item),
         \A i \in DOMAIN items : items[i].kind # "json",
         UNCHANGED contentType, SocketWrite(items, "ok"),
         promoted => promoted'
  PROVE  /\ wire' \in Seq(Item) /\ head' \in Heads
         /\ torn' \in BOOLEAN /\ committed' \in BOOLEAN
         /\ firstErr' \in BOOLEAN /\ cancelled' \in BOOLEAN
         /\ UntouchedUntilCommitted' /\ FailuresLatch' /\ JsonIsAlone'
         /\ \A i \in DOMAIN wire' : wire'[i].kind # "json"
<1>1. ~finalized
  BY DEF Unavailable
<1>2. /\ wire' \in Seq(Item) /\ head' \in Heads
      /\ torn' \in BOOLEAN /\ committed' \in BOOLEAN
      /\ firstErr' \in BOOLEAN /\ cancelled' \in BOOLEAN
      /\ FailuresLatch'
      /\ ~committed' => wire' = <<>> /\ head' = head /\ ~committed
      /\ \A i \in DOMAIN wire' : wire'[i].kind # "json"
  BY <1>1, SocketWriteKeeps
<1>3. UntouchedUntilCommitted'
  BY <1>1, <1>2 DEF IInv, UntouchedUntilCommitted
<1> QED
  BY <1>2, <1>3 DEF JsonIsAlone

\* Items of one kind are items.
LEMMA OneItem ==
  ASSUME NEW item \in Item
  PROVE  /\ <<item>> \in Seq(Item) /\ Len(<<item>>) = 1
         /\ \A i \in DOMAIN <<item>> : <<item>>[i] = item
  OBVIOUS

LEMMA OwnItems ==
  /\ KeepAlive \in Item /\ KeepAlive.kind # "json"
  /\ SseError \in Item /\ SseError.kind # "json"
  /\ JsonBody \in Item /\ JsonBody.kind = "json"
  BY DEF Item, KeepAlive, SseError, JsonBody

LEMMA WriteKeepAliveStep == ASSUME IInv, WriteKeepAlive PROVE IInv'
<1>1. /\ ~finalizing /\ ~Unavailable
      /\ UNCHANGED <<contentType, buf, promoted, finalizing, finalized, stop, written, kept>>
      /\ SocketWrite(<<KeepAlive>>, "ok")
      /\ pendingFlush' \in (IF firstErr' THEN {pendingFlush, TRUE} ELSE {FALSE})
      /\ activity' = (activity \/ ~firstErr')
      /\ hb' = IF firstErr' THEN "exited" ELSE "check"
  BY DEF WriteKeepAlive, SocketWriteFlush, historyVars
<1>2. <<KeepAlive>> \in Seq(Item)
        /\ \A i \in DOMAIN <<KeepAlive>> : <<KeepAlive>>[i].kind # "json"
  BY OwnItems, OneItem
<1>3. /\ wire' \in Seq(Item) /\ head' \in Heads
      /\ torn' \in BOOLEAN /\ committed' \in BOOLEAN
      /\ firstErr' \in BOOLEAN /\ cancelled' \in BOOLEAN
      /\ UntouchedUntilCommitted' /\ FailuresLatch' /\ JsonIsAlone'
      /\ \A i \in DOMAIN wire' : wire'[i].kind # "json"
  BY <1>1, <1>2, WritingKeeps
<1>4. TypeOK'
  <2>1. hb' \in {"none", "check", "select", "exited"}
    BY <1>1
  <2>2. activity' \in BOOLEAN /\ pendingFlush' \in BOOLEAN
    BY <1>1, <1>3 DEF IInv, TypeOK
  <2> QED
    BY <1>1, <1>3, <2>1, <2>2, Zenon DEF IInv, TypeOK
<1>5. BufferIsSemantic' /\ Finalization'
  BY <1>1, <1>3 DEF IInv, BufferIsSemantic, Finalization
<1>6. HeartbeatJoined' /\ HeartbeatServes'
  BY <1>1 DEF HeartbeatJoined, HeartbeatServes, Unavailable, Stopped
<1> QED
  BY <1>3, <1>4, <1>5, <1>6 DEF IInv

LEMMA FinalErrorSSEStep == ASSUME IInv, FinalErrorSSE PROVE IInv'
<1>1. /\ ~finalizing /\ ~Unavailable
      /\ UNCHANGED <<contentType, promoted, finalizing, hb, stop, written>>
      /\ SocketWrite(<<SseError>>, "ok")
      /\ pendingFlush' \in (IF firstErr' THEN {pendingFlush, TRUE} ELSE {FALSE})
      /\ activity' = (activity \/ ~firstErr')
      /\ finalized' = TRUE
  BY DEF FinalErrorSSE, SocketWriteFlush
<1>2. <<SseError>> \in Seq(Item)
        /\ \A i \in DOMAIN <<SseError>> : <<SseError>>[i].kind # "json"
  BY OwnItems, OneItem
<1>3. /\ wire' \in Seq(Item) /\ head' \in Heads
      /\ torn' \in BOOLEAN /\ committed' \in BOOLEAN
      /\ firstErr' \in BOOLEAN /\ cancelled' \in BOOLEAN
      /\ UntouchedUntilCommitted' /\ FailuresLatch' /\ JsonIsAlone'
      /\ \A i \in DOMAIN wire' : wire'[i].kind # "json"
  BY <1>1, <1>2, WritingKeeps
<1>4. /\ buf' \in Seq(Item) /\ kept' \in Seq(Item) /\ BufferIsSemantic'
  <2>1. <<>> \in Seq(Item) /\ DOMAIN <<>> = {}
    OBVIOUS
  <2>2. (buf' = buf \/ buf' = <<>>) /\ (kept' = kept \/ kept' = <<>>)
    BY DEF FinalErrorSSE
  <2> QED
    BY <2>1, <2>2 DEF IInv, TypeOK, BufferIsSemantic
<1>5. TypeOK'
  <2>1. activity' \in BOOLEAN /\ pendingFlush' \in BOOLEAN /\ finalized' \in BOOLEAN
    BY <1>1, <1>3 DEF IInv, TypeOK
  <2> QED
    BY <1>1, <1>3, <1>4, <2>1, Zenon DEF IInv, TypeOK
<1>6. Finalization'
  BY <1>1, <1>3 DEF IInv, Finalization
<1>7. HeartbeatJoined' /\ HeartbeatServes'
  BY <1>1 DEF IInv, HeartbeatJoined, HeartbeatServes
<1> QED
  BY <1>3, <1>4, <1>5, <1>6, <1>7 DEF IInv

\* The JSON error: nothing was committed, so nothing was written, so the body
\* is the whole response.
LEMMA FinalErrorJSONStep == ASSUME IInv, FinalErrorJSON PROVE IInv'
<1>1. /\ ~finalizing /\ ~Unavailable /\ ~promoted /\ ~committed
      /\ UNCHANGED <<promoted, finalizing, activity, hb, stop, written>>
      /\ buf' = <<>> /\ kept' = <<>> /\ contentType' = "json"
      /\ SocketWrite(<<JsonBody>>, "error")
      /\ pendingFlush' = (pendingFlush \/ ~firstErr')
      /\ finalized' = TRUE
  BY DEF FinalErrorJSON
<1>2. TypeOK /\ wire = <<>> /\ Len(wire) = 0 /\ head = NoHead
  BY <1>1 DEF IInv, UntouchedUntilCommitted, Unavailable
<1>3. <<JsonBody>> \in Seq(Item) /\ Len(<<JsonBody>>) = 1
  BY OwnItems, OneItem
<1>4. /\ wire' \in Seq(Item) /\ head' \in Heads
      /\ torn' \in BOOLEAN /\ committed' \in BOOLEAN
      /\ firstErr' \in BOOLEAN /\ cancelled' \in BOOLEAN
      /\ torn' => firstErr'
      /\ (firstErr => cancelled) => (firstErr' => cancelled')
  BY <1>1, <1>2, <1>3, SocketWriteGrows
<1>5. PICK n \in 0..Len(<<JsonBody>>) :
         /\ Len(wire') = Len(wire) + n
         /\ committed' = (committed \/ n > 0)
         /\ n = 0 => wire' = wire
         /\ head = NoHead => head' = [code |-> "error", type |-> contentType']
  BY <1>1, <1>2, <1>3, SocketWriteGrows
<1>6. UntouchedUntilCommitted'
  <2>1. ~committed' => ~(n > 0)
    BY <1>5, Zenon
  <2>2. ~(n > 0) => n = 0
    BY <1>3
  <2> QED
    BY <1>1, <1>2, <1>5, <2>1, <2>2 DEF UntouchedUntilCommitted
<1>7. JsonIsAlone'
  <2> SUFFICES ASSUME NEW i \in DOMAIN wire'
               PROVE  Len(wire') = 1 /\ head' = [code |-> "error", type |-> "json"]
    BY DEF JsonIsAlone
  <2>1. Len(wire') = n /\ n \in 0..1
    BY <1>2, <1>3, <1>5
  <2>2. i \in 1..Len(wire')
    BY <1>4, LenProperties
  <2> QED
    BY <2>1, <2>2, <1>1, <1>2, <1>5
<1>8. TypeOK'
  <2>1. <<>> \in Seq(Item)
    OBVIOUS
  <2>2. pendingFlush' \in BOOLEAN /\ finalized' \in BOOLEAN
    BY <1>1, <1>2, <1>4 DEF TypeOK
  <2>3. contentType' \in {"none", "sse", "json"}
    BY <1>1
  <2>4. buf' \in Seq(Item) /\ kept' \in Seq(Item)
    BY <1>1, <2>1
  <2> QED
    BY <1>1, <1>2, <1>4, <2>2, <2>3, <2>4, Zenon DEF TypeOK
<1>9. BufferIsSemantic' /\ FailuresLatch' /\ Finalization'
  BY <1>1, <1>4 DEF IInv, BufferIsSemantic, FailuresLatch, Finalization
<1>10. HeartbeatJoined' /\ HeartbeatServes'
  BY <1>1 DEF IInv, HeartbeatJoined, HeartbeatServes
<1> QED
  BY <1>6, <1>7, <1>8, <1>9, <1>10 DEF IInv

----------------------------------------------------------------------------
LEMMA WriteStep == ASSUME IInv, NEW kind \in EventKinds, Write(kind) PROVE IInv'
<1> DEFINE item == [kind |-> kind, id |-> written + 1]
<1>1. /\ ~Unavailable
      /\ written' = written + 1 /\ kept' = Append(kept, item)
      /\ UNCHANGED <<contentType, promoted, finalizing, finalized, activity, hb, stop>>
      /\ \/ ~promoted /\ buf' = Append(buf, item) /\ UNCHANGED <<socketVars, pendingFlush>>
         \/ /\ promoted /\ UNCHANGED buf /\ SocketWrite(<<item>>, "ok")
            /\ pendingFlush' = (pendingFlush \/ ~firstErr')
  BY DEF Write
<1>2. item \in Item /\ item.kind \in EventKinds /\ item.kind # "json"
  BY DEF IInv, TypeOK, Item
<1> HIDE DEF item
<1>3. written' \in Nat /\ kept' \in Seq(Item)
  BY <1>1, <1>2, AppendProperties DEF IInv, TypeOK
<1>4. CASE ~promoted /\ buf' = Append(buf, item) /\ UNCHANGED <<socketVars, pendingFlush>>
  <2>1. QuietStep
    BY <1>4 DEF QuietStep, socketVars, IInv, TypeOK
  <2>2. UntouchedUntilCommitted' /\ FailuresLatch' /\ JsonIsAlone'
         /\ \A i \in DOMAIN wire' : wire'[i].kind = "json" => finalized'
    BY <1>1, <2>1, QuietKeeps
  <2>3. buf' \in Seq(Item) /\ BufferIsSemantic'
    <3>1. buf \in Seq(Item) /\ Len(buf) \in Nat /\ DOMAIN buf = 1..Len(buf)
      BY LenProperties DEF IInv, TypeOK
    <3>2. /\ buf' \in Seq(Item) /\ Len(buf') = Len(buf) + 1
          /\ \A i \in 1..Len(buf) : buf'[i] = buf[i]
          /\ buf'[Len(buf) + 1] = item
      BY <1>2, <1>4, <3>1, AppendProperties
    <3>3. DOMAIN buf' = 1..(Len(buf) + 1)
      BY <3>2, LenProperties
    <3> QED
      BY <1>2, <3>1, <3>2, <3>3 DEF IInv, BufferIsSemantic
  <2>4. TypeOK'
    <3>1. UNCHANGED <<wire, torn, head, committed, firstErr, cancelled, pendingFlush,
                      contentType, promoted, finalizing, finalized, activity, hb, stop>>
      BY <1>1, <1>4 DEF socketVars
    <3> QED
      BY <1>3, <2>3, <3>1 DEF IInv, TypeOK
  <2>5. Finalization' /\ HeartbeatJoined' /\ HeartbeatServes'
    BY <1>1, <1>4, <2>2
       DEF IInv, Finalization, HeartbeatJoined, HeartbeatServes, Stopped, socketVars
  <2> QED
    BY <2>2, <2>3, <2>4, <2>5 DEF IInv
<1>5. CASE /\ promoted /\ UNCHANGED buf /\ SocketWrite(<<item>>, "ok")
           /\ pendingFlush' = (pendingFlush \/ ~firstErr')
  <2>1. <<item>> \in Seq(Item) /\ \A i \in DOMAIN <<item>> : <<item>>[i].kind # "json"
    BY <1>2, OneItem
  <2>2. /\ wire' \in Seq(Item) /\ head' \in Heads
        /\ torn' \in BOOLEAN /\ committed' \in BOOLEAN
        /\ firstErr' \in BOOLEAN /\ cancelled' \in BOOLEAN
        /\ UntouchedUntilCommitted' /\ FailuresLatch' /\ JsonIsAlone'
        /\ \A i \in DOMAIN wire' : wire'[i].kind # "json"
    BY <1>1, <1>5, <2>1, WritingKeeps
  <2>3. TypeOK'
    <3>1. pendingFlush' \in BOOLEAN
      BY <1>5, <2>2 DEF IInv, TypeOK
    <3> QED
      BY <1>1, <1>3, <1>5, <2>2, <3>1, Zenon DEF IInv, TypeOK
  <2>4. BufferIsSemantic' /\ Finalization'
    BY <1>1, <1>5, <2>2 DEF IInv, BufferIsSemantic, Finalization
  <2>5. HeartbeatJoined' /\ HeartbeatServes'
    BY <1>1 DEF IInv, HeartbeatJoined, HeartbeatServes, Unavailable, Stopped
  <2> QED
    BY <2>2, <2>3, <2>4, <2>5 DEF IInv
<1> QED
  BY <1>1, <1>4, <1>5

LEMMA PromoteStep == ASSUME IInv, Promote PROVE IInv'
<1>1. /\ ~Unavailable /\ ~promoted /\ promoted' = TRUE
      /\ UNCHANGED <<contentType, finalizing, finalized, hb, stop, written, kept>>
  BY DEF Promote, historyVars
<1>2. HeartbeatJoined' /\ HeartbeatServes'
  BY <1>1 DEF IInv, HeartbeatJoined, HeartbeatServes, Unavailable, Stopped
<1>3. CASE /\ buf # <<>> /\ SocketWriteFlush(buf)
           /\ buf' = IF torn' \/ Len(wire') < Len(wire) + Len(buf) THEN buf ELSE <<>>
  <2>1. /\ SocketWrite(buf, "ok") /\ pendingFlush' \in (IF firstErr' THEN {pendingFlush, TRUE} ELSE {FALSE})
        /\ activity' = (activity \/ ~firstErr')
    BY <1>3 DEF SocketWriteFlush
  <2>2. buf \in Seq(Item) /\ \A i \in DOMAIN buf : buf[i].kind # "json"
    BY DEF IInv, TypeOK, BufferIsSemantic
  <2>3. /\ wire' \in Seq(Item) /\ head' \in Heads
        /\ torn' \in BOOLEAN /\ committed' \in BOOLEAN
        /\ firstErr' \in BOOLEAN /\ cancelled' \in BOOLEAN
        /\ UntouchedUntilCommitted' /\ FailuresLatch' /\ JsonIsAlone'
        /\ \A i \in DOMAIN wire' : wire'[i].kind # "json"
    BY <1>1, <2>1, <2>2, WritingKeeps
  <2>4. buf' \in Seq(Item) /\ BufferIsSemantic'
    <3>1. <<>> \in Seq(Item) /\ DOMAIN <<>> = {}
      OBVIOUS
    <3>2. buf' = buf \/ buf' = <<>>
      BY <1>3
    <3> QED
      BY <2>2, <3>1, <3>2 DEF IInv, BufferIsSemantic
  <2>5. TypeOK'
    <3>1. activity' \in BOOLEAN /\ pendingFlush' \in BOOLEAN /\ promoted' \in BOOLEAN
      BY <1>1, <2>1, <2>3 DEF IInv, TypeOK
    <3> QED
      BY <1>1, <2>3, <2>4, <3>1, Zenon DEF IInv, TypeOK
  <2>6. Finalization'
    BY <1>1, <2>3 DEF Finalization
  <2> QED
    BY <1>2, <2>3, <2>4, <2>5, <2>6 DEF IInv
<1>4. CASE /\ buf = <<>>
           /\ \E err \in BOOLEAN :
                /\ firstErr' = err
                /\ cancelled' = err
                /\ pendingFlush' = (pendingFlush /\ err)
                /\ activity' = (activity \/ (pendingFlush /\ ~err))
                /\ head' = IF head = NoHead /\ ~err
                           THEN [code |-> "ok", type |-> contentType] ELSE head
           /\ UNCHANGED <<wire, torn, committed, contentType, buf>>
  <2>1. PICK err \in BOOLEAN :
          /\ firstErr' = err
          /\ cancelled' = err
          /\ pendingFlush' = (pendingFlush /\ err)
          /\ activity' = (activity \/ (pendingFlush /\ ~err))
          /\ head' = IF head = NoHead /\ ~err
                     THEN [code |-> "ok", type |-> contentType] ELSE head
    BY <1>4
  <2>2. TypeOK'
    <3>1. head' \in Heads
      BY <2>1 DEF IInv, TypeOK, Heads
    <3>2. /\ firstErr' \in BOOLEAN /\ cancelled' \in BOOLEAN /\ promoted' \in BOOLEAN
          /\ pendingFlush' \in BOOLEAN /\ activity' \in BOOLEAN
      BY <1>1, <2>1
    <3> QED
      BY <1>1, <1>4, <3>1, <3>2, Zenon DEF IInv, TypeOK
  <2>3. BufferIsSemantic' /\ UntouchedUntilCommitted'
    BY <1>1, <1>4 DEF IInv, BufferIsSemantic, UntouchedUntilCommitted
  <2>4. FailuresLatch'
    BY <1>1, <1>4, <2>1 DEF IInv, FailuresLatch, Unavailable
  <2>5. JsonIsAlone' /\ Finalization'
    BY <1>1, <1>4 DEF IInv, JsonIsAlone, Finalization, Unavailable
  <2> QED
    BY <1>2, <2>2, <2>3, <2>4, <2>5 DEF IInv
<1> QED
  BY <1>3, <1>4 DEF Promote

----------------------------------------------------------------------------
LEMMA StutterStep == ASSUME IInv, UNCHANGED vars PROVE IInv'
<1>1. TypeOK'
  BY DEF IInv, TypeOK, vars, socketVars, sessionVars, historyVars
<1>2. BufferIsSemantic' /\ UntouchedUntilCommitted' /\ FailuresLatch' /\ Finalization'
  BY DEF IInv, BufferIsSemantic, UntouchedUntilCommitted, FailuresLatch, Finalization,
         vars, socketVars, sessionVars
<1>3. JsonIsAlone' /\ HeartbeatJoined' /\ HeartbeatServes'
  BY DEF IInv, JsonIsAlone, HeartbeatJoined, HeartbeatServes, Stopped,
         vars, socketVars, sessionVars
<1> QED
  BY <1>1, <1>2, <1>3 DEF IInv

\* A step of the session, whoever takes it and whatever made the handler call.
SessionStep ==
    \/ \E kind \in EventKinds : Write(kind)
    \/ Flush \/ Promote \/ Discard \/ FinalErrorSSE \/ FinalErrorJSON \/ WriteKeepAlive
    \/ Start \/ HeartbeatCheck \/ HeartbeatActivity \/ HeartbeatDone
    \/ KeepAliveRefused \/ StopCall \/ ClientGone \/ SetSSEHeaders
    \/ FinalErrorBegin \/ FinalErrorEnd
    \/ UNCHANGED vars

LEMMA NextIsSessionStep == [Next]_vars => SessionStep
  BY DEF Next, HandlerCall, Heartbeat, SessionStep

\* Every step of the session preserves the invariant.
LEMMA SessionStepIInv == IInv /\ SessionStep => IInv'
<1> SUFFICES ASSUME IInv, SessionStep PROVE IInv'
  OBVIOUS
<1>1. CASE \E kind \in EventKinds : Write(kind)
  BY <1>1, WriteStep
<1>2. CASE Flush
  BY <1>2, FlushStep
<1>3. CASE Promote
  BY <1>3, PromoteStep
<1>4. CASE Discard
  BY <1>4, DiscardStep
<1>5. CASE FinalErrorSSE
  BY <1>5, FinalErrorSSEStep
<1>6. CASE FinalErrorJSON
  BY <1>6, FinalErrorJSONStep
<1>7. CASE WriteKeepAlive
  BY <1>7, WriteKeepAliveStep
<1>8. CASE \/ Start \/ HeartbeatCheck \/ HeartbeatActivity \/ HeartbeatDone
           \/ KeepAliveRefused \/ StopCall \/ ClientGone \/ SetSSEHeaders
           \/ FinalErrorBegin \/ FinalErrorEnd
  BY <1>8, ControlStep
<1>9. CASE UNCHANGED vars
  BY <1>9, StutterStep
<1> QED
  BY <1>1, <1>2, <1>3, <1>4, <1>5, <1>6, <1>7, <1>8, <1>9 DEF SessionStep

LEMMA NextIInv == IInv /\ [Next]_vars => IInv'
  BY NextIsSessionStep, SessionStepIInv

\* The inductive invariant holds in every reachable state.
THEOREM Invariance == Spec => []IInv
  BY InitIInv, NextIInv, PTL DEF Spec

\* The session's state always has the shape its fields declare.
THEOREM SessionTypeOK == Spec => []TypeOK
  BY Invariance, PTL DEF IInv

\* WriteFinalError's JSON body is the whole response, whatever the handler and
\* the heartbeat wrote before it and try to write after it.
THEOREM SessionJsonIsAlone == Spec => []JsonIsAlone
  BY Invariance, PTL DEF IInv

\* No heartbeat survives a Stop that has returned.
THEOREM SessionHeartbeatJoined == Spec => []HeartbeatJoined
  BY Invariance, PTL DEF IInv

\* The heartbeat never gives up on a healthy response.
THEOREM SessionHeartbeatServes == Spec => []HeartbeatServes
  BY Invariance, PTL DEF IInv

----------------------------------------------------------------------------
\* Every action that writes to the socket checks unavailableLocked first, and
\* whatever closes the wire makes the session unavailable for good.
LEMMA ClosedStep ==
  ASSUME IInv, SessionStep, finalized \/ torn \/ firstErr \/ Stopped
  PROVE  UNCHANGED wire
<1>1. Unavailable
  BY DEF IInv, FailuresLatch, Unavailable
<1>2. CASE \E kind \in EventKinds : Write(kind)
  BY <1>1, <1>2 DEF Write
<1>3. CASE Promote \/ FinalErrorSSE \/ FinalErrorJSON \/ WriteKeepAlive
  BY <1>1, <1>3 DEF Promote, FinalErrorSSE, FinalErrorJSON, WriteKeepAlive
<1>4. CASE Flush \/ Discard
  BY <1>4 DEF Flush, Discard, socketVars
<1>5. CASE \/ Start \/ HeartbeatCheck \/ HeartbeatActivity \/ HeartbeatDone
           \/ KeepAliveRefused \/ StopCall \/ ClientGone \/ SetSSEHeaders
           \/ FinalErrorBegin \/ FinalErrorEnd
  BY <1>5 DEF Start, HeartbeatCheck, HeartbeatActivity, HeartbeatDone, KeepAliveRefused,
         StopCall, StopFlag, StopSignal, StopJoin, ClientGone, SetSSEHeaders,
         FinalErrorBegin, FinalErrorEnd, socketVars
<1> QED
  BY <1>2, <1>3, <1>4, <1>5 DEF SessionStep, vars, socketVars

\* After the final error, a failed or torn write, or Stop's flag, no goroutine
\* puts another byte on the wire.
THEOREM SessionWireClosed == Spec => WireClosed
<1>1. IInv /\ [Next]_vars => [finalized \/ torn \/ firstErr \/ Stopped => UNCHANGED wire]_vars
  BY NextIsSessionStep, ClosedStep
<1> QED
  BY <1>1, Invariance, PTL DEF Spec, WireClosed

\* What WriteFinalError's callback can meet: of all the writers only the
\* handler's own Write reaches the socket, and it appends one semantic item.
LEMMA UninterruptedStep ==
  ASSUME IInv, SessionStep, finalizing, wire' # wire
  PROVE  Semantic(Last(wire'))
<1>1. promoted
  BY DEF IInv, Finalization
<1>2. CASE \E kind \in EventKinds : Write(kind)
  <2>1. PICK kind \in EventKinds : Write(kind)
    BY <1>2
  <2> DEFINE item == [kind |-> kind, id |-> written + 1]
  <2>2. TypeOK /\ item \in Item /\ Semantic(item)
    BY DEF IInv, TypeOK, Item, Semantic
  <2>3. SocketWrite(<<item>>, "ok") /\ contentType' \in {"none", "sse", "json"}
    BY <1>1, <2>1, <2>2 DEF Write, TypeOK
  <2> HIDE DEF item
  <2>4. <<item>> \in Seq(Item) /\ Len(<<item>>) = 1 /\ <<item>>[1] = item
    BY <2>2, OneItem
  <2>5. PICK n \in 0..Len(<<item>>) :
           /\ Len(wire') = Len(wire) + n
           /\ \A i \in 1..n : wire'[Len(wire) + i] = <<item>>[i]
           /\ n = 0 => wire' = wire
    BY <2>2, <2>3, <2>4, SocketWriteGrows
  <2>6. n = 1 /\ Len(wire) \in Nat
    BY <2>2, <2>4, <2>5, LenProperties DEF TypeOK
  <2>7. Last(wire') = item
    BY <2>4, <2>5, <2>6 DEF Last
  <2> QED
    BY <2>2, <2>7
<1>3. CASE Promote \/ FinalErrorSSE \/ FinalErrorJSON \/ WriteKeepAlive
  BY <1>1, <1>3 DEF Promote, FinalErrorSSE, FinalErrorJSON, WriteKeepAlive
<1>4. CASE Flush \/ Discard
  BY <1>4 DEF Flush, Discard, socketVars
<1>5. CASE \/ Start \/ HeartbeatCheck \/ HeartbeatActivity \/ HeartbeatDone
           \/ KeepAliveRefused \/ StopCall \/ ClientGone \/ SetSSEHeaders
           \/ FinalErrorBegin \/ FinalErrorEnd
  BY <1>5 DEF Start, HeartbeatCheck, HeartbeatActivity, HeartbeatDone, KeepAliveRefused,
         StopCall, StopFlag, StopSignal, StopJoin, ClientGone, SetSSEHeaders,
         FinalErrorBegin, FinalErrorEnd, socketVars
<1> QED
  BY <1>2, <1>3, <1>4, <1>5 DEF SessionStep, vars, socketVars

\* No keep-alive lands inside the error sequence of a promoted stream.
THEOREM SessionFinalErrorUninterrupted == Spec => FinalErrorUninterrupted
<1>1. IInv /\ [Next]_vars => [finalizing /\ wire' # wire => Semantic(Last(wire'))]_vars
  BY NextIsSessionStep, UninterruptedStep
<1> QED
  BY <1>1, Invariance, PTL DEF Spec, FinalErrorUninterrupted
----------------------------------------------------------------------------
\* What makes Delivery inductive: numbers grow along the wire and along what
\* was kept; before promotion the buffer is all that was kept and nothing of it
\* was sent; afterwards only a failed socket can have lost something, and that
\* closes the wire.
Numbered ==
    /\ \A i \in DOMAIN wire : wire[i].id <= written
    /\ \A k \in DOMAIN kept : kept[k].id \in 1..written

HeldBack == ~promoted => buf = kept /\ Sent = {}

PassedOn ==
    promoted => \E n \in 0..Len(kept) :
        /\ Sent = {kept[k] : k \in 1..n}
        /\ ~firstErr => n = Len(kept) /\ buf = <<>>

DInv ==
    /\ Numbered
    /\ InOrder(wire) /\ InOrder(kept)
    /\ HeldBack
    /\ PassedOn

LEMMA InitDInv == Init => DInv
<1> SUFFICES ASSUME Init PROVE DInv
  OBVIOUS
<1>1. wire = <<>> /\ kept = <<>> /\ buf = <<>> /\ ~promoted /\ DOMAIN <<>> = {}
  BY DEF Init
<1>2. Sent = {}
  BY <1>1 DEF Sent, Range
<1> QED
  BY <1>1, <1>2 DEF DInv, Numbered, InOrder, HeldBack, PassedOn

\* A socket write as the history of the wire sees it.
LEMMA SentGrows ==
  ASSUME TypeOK, NEW items \in Seq(Item), NEW code \in {"ok", "error"},
         contentType' \in {"none", "sse", "json"}, SocketWrite(items, code),
         InOrder(wire), InOrder(items),
         \A i \in DOMAIN wire, k \in DOMAIN items :
            Semantic(wire[i]) /\ Semantic(items[k]) => wire[i].id < items[k].id,
         NEW bound \in Nat, \A i \in DOMAIN wire : wire[i].id <= bound,
         \A k \in DOMAIN items : items[k].id <= bound
  PROVE  /\ InOrder(wire)'
         /\ \A i \in DOMAIN wire' : wire'[i].id <= bound
         /\ firstErr' \in BOOLEAN
         /\ \E n \in 0..Len(items) :
               /\ Sent' = Sent \cup {item \in {items[k] : k \in 1..n} : Semantic(item)}
               /\ Len(wire') = Len(wire) + n
               /\ n < Len(items) => firstErr'
               /\ torn' => firstErr'
<1>1. PICK n \in 0..Len(items) :
         /\ Len(wire') = Len(wire) + n
         /\ \A i \in 1..Len(wire) : wire'[i] = wire[i]
         /\ \A i \in 1..n : wire'[Len(wire) + i] = items[i]
         /\ n < Len(items) => firstErr'
  BY SocketWriteGrows
<1>2. /\ wire \in Seq(Item) /\ Len(wire) \in Nat /\ DOMAIN wire = 1..Len(wire)
      /\ Len(items) \in Nat /\ DOMAIN items = 1..Len(items) /\ wire' \in Seq(Item)
      /\ torn' => firstErr'
  BY LenProperties, SocketWriteGrows DEF TypeOK
<1>3. DOMAIN wire' = 1..(Len(wire) + n)
  BY <1>1, <1>2, LenProperties
<1>4. \A i \in DOMAIN wire' :
         \/ i \in DOMAIN wire /\ wire'[i] = wire[i]
         \/ i - Len(wire) \in 1..n /\ i - Len(wire) \in DOMAIN items
               /\ i > Len(wire) /\ wire'[i] = items[i - Len(wire)]
  <2> SUFFICES ASSUME NEW i \in DOMAIN wire', i \notin DOMAIN wire
               PROVE  /\ i - Len(wire) \in 1..n /\ i - Len(wire) \in DOMAIN items
                      /\ i > Len(wire) /\ wire'[i] = items[i - Len(wire)]
    BY <1>1, <1>2
  <2>1. i \in Int /\ i > Len(wire) /\ i <= Len(wire) + n
    BY <1>2, <1>3
  <2> DEFINE k == i - Len(wire)
  <2>2. k \in 1..n /\ k \in DOMAIN items /\ i = Len(wire) + k
    BY <1>2, <2>1
  <2>3. wire'[i] = items[k]
    BY <1>1, <2>2
  <2> QED
    BY <2>1, <2>2, <2>3
<1>5. InOrder(wire')
  <2> SUFFICES ASSUME NEW i \in DOMAIN wire', NEW j \in DOMAIN wire', i < j,
                      Semantic(wire'[i]), Semantic(wire'[j])
               PROVE  wire'[i].id < wire'[j].id
    BY DEF InOrder
  <2>1. i \in Int /\ j \in Int
    BY <1>3
  <2>2. CASE j \in DOMAIN wire /\ wire'[j] = wire[j]
    <3>1. i \in DOMAIN wire /\ wire'[i] = wire[i]
      BY <1>2, <1>4, <2>1, <2>2
    <3> QED
      BY <2>2, <3>1 DEF InOrder
  <2>3. CASE /\ j - Len(wire) \in 1..n /\ j - Len(wire) \in DOMAIN items
             /\ j > Len(wire) /\ wire'[j] = items[j - Len(wire)]
    <3>1. CASE i \in DOMAIN wire /\ wire'[i] = wire[i]
      BY <2>3, <3>1
    <3>2. CASE /\ i - Len(wire) \in 1..n /\ i - Len(wire) \in DOMAIN items
               /\ i > Len(wire) /\ wire'[i] = items[i - Len(wire)]
      <4>1. i - Len(wire) < j - Len(wire)
        BY <1>2, <2>1
      <4> QED
        BY <2>3, <3>2, <4>1 DEF InOrder
    <3> QED
      BY <1>4, <3>1, <3>2
  <2> QED
    BY <1>4, <2>2, <2>3
<1>6. InOrder(wire)'
  BY <1>5 DEF InOrder
<1>7. \A i \in DOMAIN wire' : wire'[i].id <= bound
  BY <1>4
<1>8. Sent' = Sent \cup {item \in {items[k] : k \in 1..n} : Semantic(item)}
  <2>1. ASSUME NEW x \in Sent' PROVE x \in Sent \cup {item \in {items[k] : k \in 1..n} : Semantic(item)}
    <3>1. PICK i \in DOMAIN wire' : x = wire'[i] /\ Semantic(x)
      BY <2>1 DEF Sent, Range
    <3> QED
      BY <1>4, <3>1 DEF Sent, Range
  <2>2. ASSUME NEW x \in Sent PROVE x \in Sent'
    <3>1. PICK i \in DOMAIN wire : x = wire[i] /\ Semantic(x)
      BY <2>2 DEF Sent, Range
    <3>2. i \in DOMAIN wire' /\ wire'[i] = x
      BY <1>1, <1>2, <1>3, <3>1
    <3> QED
      BY <3>1, <3>2 DEF Sent, Range
  <2>3. ASSUME NEW k \in 1..n, Semantic(items[k]) PROVE items[k] \in Sent'
    <3>1. Len(wire) + k \in DOMAIN wire' /\ wire'[Len(wire) + k] = items[k]
      BY <1>1, <1>2, <1>3
    <3> QED
      BY <2>3, <3>1 DEF Sent, Range
  <2> QED
    BY <2>1, <2>2, <2>3
<1>9. firstErr' \in BOOLEAN
  BY SocketWriteGrows
<1> QED
  BY <1>1, <1>2, <1>6, <1>7, <1>8, <1>9

\* The session's own items are no part of what the handler wrote.
LEMMA OwnItemDInv ==
  ASSUME IInv, DInv, ~firstErr, NEW item \in Item, item.id = 0, NEW code \in {"ok", "error"},
         contentType' \in {"none", "sse", "json"}, SocketWrite(<<item>>, code),
         UNCHANGED <<promoted, written>>,
         \/ UNCHANGED <<buf, kept>>
         \/ ~promoted /\ buf' = <<>> /\ kept' = <<>>
  PROVE  DInv'
<1>1. TypeOK /\ written \in Nat /\ wire \in Seq(Item)
  BY DEF IInv, TypeOK
<1>2. /\ <<item>> \in Seq(Item) /\ Len(<<item>>) = 1 /\ InOrder(<<item>>)
      /\ \A k \in DOMAIN <<item>> : ~Semantic(<<item>>[k]) /\ <<item>>[k].id <= written
  <2>1. DOMAIN <<item>> = {1}
    OBVIOUS
  <2>2. ~Semantic(item) /\ item.id <= written
    BY <1>1 DEF Semantic
  <2> QED
    BY <2>1, <2>2, OneItem DEF InOrder
<1>3. InOrder(wire) /\ \A i \in DOMAIN wire : wire[i].id <= written
  BY DEF DInv, Numbered
<1>4. /\ InOrder(wire)'
      /\ \A i \in DOMAIN wire' : wire'[i].id <= written
      /\ \E n \in 0..Len(<<item>>) :
            Sent' = Sent \cup {it \in {<<item>>[k] : k \in 1..n} : Semantic(it)}
  BY <1>1, <1>2, <1>3, SentGrows
<1>5. Sent' = Sent
  <2>1. PICK n \in 0..1 : Sent' = Sent \cup {it \in {<<item>>[k] : k \in 1..n} : Semantic(it)}
    BY <1>2, <1>4
  <2>2. \A k \in 1..n : k \in DOMAIN <<item>>
    BY <2>1
  <2> QED
    BY <1>2, <2>1, <2>2
<1>6. CASE UNCHANGED <<buf, kept>>
  BY <1>3, <1>4, <1>5, <1>6 DEF DInv, Numbered, InOrder, HeldBack, PassedOn
<1>7. CASE ~promoted /\ buf' = <<>> /\ kept' = <<>>
  <2>1. DOMAIN kept' = {}
    BY <1>7
  <2> QED
    BY <1>3, <1>4, <1>5, <1>7, <2>1 DEF DInv, Numbered, InOrder, HeldBack, PassedOn
<1> QED
  BY <1>6, <1>7

\* The handler's next item has the highest number so far.
LEMMA NextItem ==
  ASSUME IInv, DInv, NEW kind \in EventKinds, NEW item,
         item = [kind |-> kind, id |-> written + 1],
         kept' = Append(kept, item), written' = written + 1
  PROVE  /\ item \in Item /\ Semantic(item)
         /\ Len(kept) \in Nat /\ Len(kept') = Len(kept) + 1
         /\ \A k \in 1..Len(kept) : kept'[k] = kept[k]
         /\ kept'[Len(kept) + 1] = item
         /\ InOrder(kept)'
         /\ \A k \in DOMAIN kept' : kept'[k].id \in 1..written'
<1>1. written \in Nat /\ kept \in Seq(Item) /\ Len(kept) \in Nat /\ DOMAIN kept = 1..Len(kept)
  BY LenProperties DEF IInv, TypeOK
<1>2. item \in Item /\ item.id = written + 1 /\ Semantic(item)
  BY <1>1 DEF Item, Semantic
<1>3. /\ kept' \in Seq(Item) /\ Len(kept') = Len(kept) + 1
      /\ \A k \in 1..Len(kept) : kept'[k] = kept[k]
      /\ kept'[Len(kept) + 1] = item
  BY <1>1, <1>2, AppendProperties
<1>4. DOMAIN kept' = 1..(Len(kept) + 1)
  BY <1>3, LenProperties
<1>5. \A k \in DOMAIN kept' : \/ k \in DOMAIN kept /\ kept'[k] = kept[k]
                              \/ k = Len(kept) + 1 /\ kept'[k] = item
  BY <1>1, <1>3, <1>4
<1>6. \A k \in DOMAIN kept : kept[k].id \in 1..written
  BY DEF DInv, Numbered
<1>7. \A k \in DOMAIN kept' : kept'[k].id \in 1..written'
  BY <1>1, <1>2, <1>5, <1>6
<1>8. InOrder(kept')
  <2> SUFFICES ASSUME NEW i \in DOMAIN kept', NEW j \in DOMAIN kept', i < j,
                      Semantic(kept'[i]), Semantic(kept'[j])
               PROVE  kept'[i].id < kept'[j].id
    BY DEF InOrder
  <2>1. i \in DOMAIN kept /\ kept'[i] = kept[i]
    BY <1>1, <1>4, <1>5
  <2>2. CASE j \in DOMAIN kept /\ kept'[j] = kept[j]
    BY <2>1, <2>2 DEF DInv, InOrder
  <2>3. CASE kept'[j] = item
    BY <1>1, <1>2, <1>6, <2>1, <2>3
  <2> QED
    BY <1>5, <2>2, <2>3
<1>9. InOrder(kept)'
  BY <1>8 DEF InOrder
<1> QED
  BY <1>1, <1>2, <1>3, <1>7, <1>9

LEMMA ItemIds ==
  ASSUME NEW items \in Seq(Item)
  PROVE  \A i \in DOMAIN items : items[i].id \in Nat
<1>1. \A i \in DOMAIN items : items[i] \in Item
  BY ElementOfSeq, LenProperties
<1> QED
  BY <1>1 DEF Item

LEMMA WriteDInv == ASSUME IInv, DInv, NEW kind \in EventKinds, Write(kind) PROVE DInv'
<1> DEFINE item == [kind |-> kind, id |-> written + 1]
<1>1. /\ ~Unavailable
      /\ written' = written + 1 /\ kept' = Append(kept, item)
      /\ UNCHANGED <<contentType, promoted>>
      /\ \/ ~promoted /\ buf' = Append(buf, item) /\ UNCHANGED wire
         \/ promoted /\ UNCHANGED buf /\ SocketWrite(<<item>>, "ok")
  BY DEF Write, socketVars
<1> HIDE DEF item
<1>2. /\ item \in Item /\ Semantic(item)
      /\ Len(kept) \in Nat /\ Len(kept') = Len(kept) + 1
      /\ \A k \in 1..Len(kept) : kept'[k] = kept[k]
      /\ kept'[Len(kept) + 1] = item
      /\ InOrder(kept)'
      /\ \A k \in DOMAIN kept' : kept'[k].id \in 1..written'
  BY <1>1, NextItem DEF item
<1>3. written \in Nat /\ item.id = written + 1 /\ TypeOK /\ ~firstErr
  BY <1>1 DEF item, IInv, TypeOK, Unavailable
<1>4. CASE ~promoted /\ buf' = Append(buf, item) /\ UNCHANGED wire
  <2>1. \A i \in DOMAIN wire' : wire'[i].id <= written'
    <3>1. \A i \in DOMAIN wire : wire[i].id \in Nat
      BY <1>3, ItemIds DEF TypeOK
    <3> QED
      BY <1>1, <1>3, <1>4, <3>1 DEF DInv, Numbered
  <2>2. InOrder(wire)' /\ Sent' = Sent
    BY <1>4 DEF DInv, InOrder, Sent
  <2> QED
    BY <1>1, <1>2, <1>4, <2>1, <2>2 DEF DInv, Numbered, HeldBack, PassedOn
<1>5. CASE promoted /\ UNCHANGED buf /\ SocketWrite(<<item>>, "ok")
  <2>1. \A i \in DOMAIN wire : wire[i].id <= written
    BY DEF DInv, Numbered
  <2>2. \A i \in DOMAIN wire : wire[i].id \in Nat
    BY <1>3, ItemIds DEF TypeOK
  <2>3. DOMAIN <<item>> = {1} /\ <<item>>[1] = item /\ Len(<<item>>) = 1 /\ <<item>> \in Seq(Item)
    BY <1>2, OneItem
  <2>4. InOrder(<<item>>)
    BY <2>3 DEF InOrder
  <2>5. /\ \A i \in DOMAIN wire : wire[i].id <= written + 1
        /\ \A k \in DOMAIN <<item>> : <<item>>[k].id <= written + 1
        /\ \A i \in DOMAIN wire, k \in DOMAIN <<item>> :
              Semantic(wire[i]) /\ Semantic(<<item>>[k]) => wire[i].id < <<item>>[k].id
    BY <1>3, <2>1, <2>2, <2>3
  <2>6. /\ InOrder(wire) /\ written + 1 \in Nat /\ contentType' \in {"none", "sse", "json"}
        /\ SocketWrite(<<item>>, "ok")
    BY <1>1, <1>3, <1>5 DEF DInv, TypeOK
  <2>7. /\ InOrder(wire)'
        /\ \A i \in DOMAIN wire' : wire'[i].id <= written + 1
        /\ \E n \in 0..Len(<<item>>) :
              /\ Sent' = Sent \cup {it \in {<<item>>[k] : k \in 1..n} : Semantic(it)}
              /\ n < Len(<<item>>) => firstErr'
    BY <1>3, <2>3, <2>4, <2>5, <2>6, SentGrows
  <2>8. PICK n \in 0..1 :
              /\ Sent' = Sent \cup {it \in {<<item>>[k] : k \in 1..n} : Semantic(it)}
              /\ n < 1 => firstErr'
    BY <2>3, <2>7
  <2>9. Sent = {kept[k] : k \in 1..Len(kept)} /\ buf = <<>>
    BY <1>3, <1>5 DEF DInv, PassedOn
  <2>10. n \in {0, 1}
    BY <2>8
  <2>11. CASE n = 0
    <3>1. Sent' = {kept'[k] : k \in 1..Len(kept)} /\ firstErr'
      BY <1>2, <2>8, <2>9, <2>11
    <3>2. Len(kept) \in 0..Len(kept')
      BY <1>2
    <3>3. PassedOn'
      BY <3>1, <3>2 DEF PassedOn
    <3> QED
      BY <1>1, <1>2, <1>5, <2>7, <3>3 DEF DInv, Numbered, HeldBack
  <2>12. CASE n = 1
    <3>1. {it \in {<<item>>[k] : k \in 1..n} : Semantic(it)} = {item}
      BY <1>2, <2>3, <2>12
    <3>2. Sent' = {kept'[k] : k \in 1..Len(kept')}
      <4>1. 1..Len(kept') = (1..Len(kept)) \cup {Len(kept) + 1}
        BY <1>2
      <4> QED
        BY <1>2, <2>8, <2>9, <3>1, <4>1
    <3>3. Len(kept') \in 0..Len(kept')
      BY <1>2
    <3>4. PassedOn'
      BY <1>5, <2>9, <3>2, <3>3 DEF PassedOn
    <3> QED
      BY <1>1, <1>2, <1>5, <2>7, <3>4 DEF DInv, Numbered, HeldBack
  <2> QED
    BY <2>10, <2>11, <2>12
<1> QED
  BY <1>1, <1>4, <1>5

LEMMA PromoteDInv == ASSUME IInv, DInv, Promote PROVE DInv'
<1>1. /\ ~Unavailable /\ ~promoted /\ promoted' = TRUE
      /\ UNCHANGED <<contentType, written, kept>>
      /\ \/ /\ buf # <<>> /\ SocketWrite(buf, "ok")
            /\ buf' = IF torn' \/ Len(wire') < Len(wire) + Len(buf) THEN buf ELSE <<>>
         \/ buf = <<>> /\ UNCHANGED <<wire, buf>>
  BY DEF Promote, SocketWriteFlush, historyVars
<1>2. /\ TypeOK /\ written \in Nat /\ kept \in Seq(Item) /\ wire \in Seq(Item)
      /\ Len(kept) \in Nat /\ DOMAIN kept = 1..Len(kept) /\ Len(wire) \in Nat
  BY LenProperties DEF IInv, TypeOK
<1>3. buf = kept /\ Sent = {} /\ InOrder(wire) /\ InOrder(kept)
        /\ (\A i \in DOMAIN wire : wire[i].id <= written)
        /\ (\A k \in DOMAIN kept : kept[k].id \in 1..written)
  BY <1>1 DEF DInv, HeldBack, Numbered
<1>4. CASE /\ buf # <<>> /\ SocketWrite(buf, "ok")
           /\ buf' = IF torn' \/ Len(wire') < Len(wire) + Len(buf) THEN buf ELSE <<>>
  <2>1. \A i \in DOMAIN wire : ~Semantic(wire[i])
    BY <1>3 DEF Sent, Range
  <2>2. /\ InOrder(wire)'
        /\ \A i \in DOMAIN wire' : wire'[i].id <= written
        /\ firstErr' \in BOOLEAN
        /\ \E n \in 0..Len(kept) :
              /\ Sent' = Sent \cup {item \in {kept[k] : k \in 1..n} : Semantic(item)}
              /\ Len(wire') = Len(wire) + n
              /\ n < Len(kept) => firstErr'
              /\ torn' => firstErr'
    <3>1. contentType' \in {"none", "sse", "json"} /\ SocketWrite(kept, "ok")
      BY <1>1, <1>2, <1>3, <1>4 DEF TypeOK
    <3>2. \A k \in DOMAIN kept : kept[k].id <= written
      BY <1>2, <1>3
    <3> QED
      BY <1>2, <1>3, <2>1, <3>1, <3>2, SentGrows
  <2>3. PICK n \in 0..Len(kept) :
              /\ Sent' = Sent \cup {item \in {kept[k] : k \in 1..n} : Semantic(item)}
              /\ Len(wire') = Len(wire) + n
              /\ n < Len(kept) => firstErr'
              /\ torn' => firstErr'
    BY <2>2
  <2>4. Sent' = {kept'[k] : k \in 1..n}
    <3>1. \A k \in 1..n : Semantic(kept[k])
      BY <1>2, <1>3 DEF Semantic
    <3> QED
      BY <1>1, <1>3, <2>3, <3>1
  <2>5. ~firstErr' => n = Len(kept') /\ buf' = <<>>
    <3> SUFFICES ASSUME ~firstErr' PROVE n = Len(kept) /\ buf' = <<>>
      BY <1>1
    <3>1. n = Len(kept) /\ ~torn'
      <4>1. ~(n < Len(kept)) /\ ~torn'
        BY <2>3
      <4>2. Len(kept) \in Nat
        BY <1>2
      <4> QED
        BY <4>1, <4>2
    <3>2. ~(Len(wire') < Len(wire) + Len(buf))
      BY <1>2, <1>3, <2>3, <3>1
    <3> QED
      BY <1>4, <3>1, <3>2
  <2>6. PassedOn'
    BY <1>1, <2>3, <2>4, <2>5 DEF PassedOn
  <2> QED
    BY <1>1, <1>3, <2>2, <2>6 DEF DInv, Numbered, InOrder, HeldBack
<1>5. CASE buf = <<>> /\ UNCHANGED <<wire, buf>>
  <2>1. Sent' = {} /\ kept' = <<>> /\ Len(kept') = 0 /\ buf' = <<>>
    BY <1>1, <1>3, <1>5 DEF Sent
  <2>2. PassedOn'
    BY <2>1 DEF PassedOn
  <2> QED
    BY <1>1, <1>3, <1>5, <2>2 DEF DInv, Numbered, InOrder, HeldBack
<1> QED
  BY <1>1, <1>4, <1>5

\* Steps that leave the wire and what is kept for it alone.
LEMMA QuietDInv ==
  ASSUME DInv, UNCHANGED <<wire, written, kept, buf, promoted>>, firstErr => firstErr'
  PROVE  DInv'
<1>1. Numbered' /\ InOrder(wire)' /\ InOrder(kept)' /\ Sent' = Sent
  BY DEF DInv, Numbered, InOrder, Sent
<1>2. HeldBack' /\ PassedOn'
  BY <1>1 DEF DInv, HeldBack, PassedOn
<1> QED
  BY <1>1, <1>2 DEF DInv

LEMMA SessionStepDInv == IInv /\ DInv /\ SessionStep => DInv'
<1> SUFFICES ASSUME IInv, DInv, SessionStep PROVE DInv'
  OBVIOUS
<1>1. CASE \E kind \in EventKinds : Write(kind)
  BY <1>1, WriteDInv
<1>2. CASE Promote
  BY <1>2, PromoteDInv
<1>3. CASE Discard
  <2>1. ~promoted /\ buf' = <<>> /\ kept' = <<>> /\ DOMAIN kept' = {}
           /\ UNCHANGED <<wire, promoted, written>>
    BY <1>3 DEF Discard, socketVars
  <2>2. Sent' = {}
    BY <2>1 DEF DInv, HeldBack, Sent
  <2> QED
    BY <2>1, <2>2 DEF DInv, Numbered, InOrder, HeldBack, PassedOn
<1>4. CASE FinalErrorSSE
  <2>1. /\ ~firstErr /\ SseError \in Item /\ SseError.id = 0
        /\ SocketWrite(<<SseError>>, "ok")
        /\ contentType' \in {"none", "sse", "json"}
        /\ UNCHANGED <<promoted, written>>
        /\ UNCHANGED <<buf, kept>> \/ (~promoted /\ buf' = <<>> /\ kept' = <<>>)
    BY <1>4, OwnItems DEF FinalErrorSSE, SocketWriteFlush, SseError, Unavailable, IInv, TypeOK
  <2> QED
    BY <2>1, OwnItemDInv
<1>5. CASE FinalErrorJSON
  <2>1. /\ ~firstErr /\ JsonBody \in Item /\ JsonBody.id = 0
        /\ SocketWrite(<<JsonBody>>, "error")
        /\ contentType' \in {"none", "sse", "json"}
        /\ UNCHANGED <<promoted, written>>
        /\ ~promoted /\ buf' = <<>> /\ kept' = <<>>
    BY <1>5, OwnItems DEF FinalErrorJSON, JsonBody, Unavailable
  <2> QED
    BY <2>1, OwnItemDInv
<1>6. CASE WriteKeepAlive
  <2>1. /\ ~firstErr /\ KeepAlive \in Item /\ KeepAlive.id = 0
        /\ SocketWrite(<<KeepAlive>>, "ok")
        /\ contentType' \in {"none", "sse", "json"}
        /\ UNCHANGED <<promoted, written, buf, kept>>
    BY <1>6, OwnItems
       DEF WriteKeepAlive, SocketWriteFlush, KeepAlive, Unavailable, IInv, TypeOK, historyVars
  <2> QED
    BY <2>1, OwnItemDInv
<1>7. CASE Flush
  BY <1>7, QuietDInv DEF Flush, CanFlush, sessionVars, historyVars
<1>8. CASE \/ Start \/ HeartbeatCheck \/ HeartbeatActivity \/ HeartbeatDone
           \/ KeepAliveRefused \/ StopCall \/ ClientGone \/ SetSSEHeaders
           \/ FinalErrorBegin \/ FinalErrorEnd \/ UNCHANGED vars
  BY <1>8, QuietDInv
     DEF Start, HeartbeatCheck, HeartbeatActivity, HeartbeatDone, KeepAliveRefused,
         StopCall, StopFlag, StopSignal, StopJoin, ClientGone, SetSSEHeaders,
         FinalErrorBegin, FinalErrorEnd, vars, socketVars, sessionVars, historyVars
<1> QED
  BY <1>1, <1>2, <1>3, <1>4, <1>5, <1>6, <1>7, <1>8 DEF SessionStep

\* The invariant says what Delivery says.
LEMMA DInvDelivers == IInv /\ DInv => Delivery
<1> SUFFICES ASSUME IInv, DInv
             PROVE  \E n \in 0..Len(kept) :
                       /\ Sent = {kept[k] : k \in 1..n}
                       /\ ~firstErr => buf = SubSeq(kept, n + 1, Len(kept))
  BY DEF Delivery, DInv
<1>1. kept \in Seq(Item) /\ Len(kept) \in Nat /\ DOMAIN kept = 1..Len(kept)
  BY LenProperties DEF IInv, TypeOK
<1>2. CASE ~promoted
  <2>1. buf = kept /\ Sent = {}
    BY <1>2 DEF DInv, HeldBack
  <2>2. SubSeq(kept, 1, Len(kept)) = kept
    <3>1. \A k \in 1..Len(kept) : kept[k] \in Item
      BY <1>1, ElementOfSeq
    <3>2. /\ SubSeq(kept, 1, Len(kept)) \in Seq(Item)
          /\ Len(SubSeq(kept, 1, Len(kept))) = Len(kept)
          /\ \A k \in 1..Len(kept) : SubSeq(kept, 1, Len(kept))[k] = kept[k]
      BY <1>1, <3>1, SubSeqProperties
    <3> QED
      BY <1>1, <3>2, SeqEqual
  <2>3. 0 \in 0..Len(kept) /\ {kept[k] : k \in 1..0} = {} /\ 0 + 1 = 1
    BY <1>1
  <2> QED
    BY <2>1, <2>2, <2>3
<1>3. CASE promoted
  <2>1. PICK n \in 0..Len(kept) :
           /\ Sent = {kept[k] : k \in 1..n}
           /\ ~firstErr => n = Len(kept) /\ buf = <<>>
    BY <1>3 DEF DInv, PassedOn
  <2>2. SubSeq(kept, Len(kept) + 1, Len(kept)) = <<>>
    BY <1>1
  <2> QED
    BY <2>1, <2>2
<1> QED
  BY <1>2, <1>3 DEF IInv, TypeOK

\* What a retry or a failed socket may lose is never anything in between: the
\* client gets a beginning of what the handler kept, in order and once.
THEOREM SessionDelivery == Spec => []Delivery
<1>1. Init => IInv /\ DInv
  BY InitIInv, InitDInv
<1>2. IInv /\ DInv /\ [Next]_vars => IInv' /\ DInv'
  BY NextIsSessionStep, SessionStepIInv, SessionStepDInv
<1> QED
  BY <1>1, <1>2, DInvDelivers, PTL DEF Spec
=============================================================================
