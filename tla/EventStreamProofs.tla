------------------------- MODULE EventStreamProofs -------------------------
(***************************************************************************)
(* Proofs about EventStream: for any number of frames, in any shape and    *)
(* cut off anywhere, the callback gets the upstream's tool calls whole,    *)
(* in order and each once, none before it is complete, none is lost at the *)
(* proper end of the answer, and a callback that said stop is left alone.  *)
(***************************************************************************)
EXTENDS EventStream, SequenceTheorems, TLAPS

\* A call of a story to which the upstream can add nothing.
Settled(n, story) == n < Len(story.calls) \/ n \in story.finished

\* A story is well told: a call's id and name are its number or absent.
WellTold(story) ==
    /\ story.finished \subseteq DOMAIN story.calls
    /\ \A n \in DOMAIN story.calls :
          story.calls[n].id \in {Absent, n} /\ story.calls[n].name \in {Absent, n}

\* A later story contains an earlier one, but for its last call.
Keeps(earlier, later) ==
    /\ Len(earlier.calls) <= Len(later.calls)
    /\ earlier.finished \subseteq later.finished
    /\ \A n \in DOMAIN earlier.calls :
          Settled(n, earlier) => later.calls[n] = earlier.calls[n]

\* What one frame makes of a story.
Ends(n, f, from) == IF f.stop THEN from.finished \cup {n} ELSE from.finished

Begins(f, from, to) ==
    LET n == Len(from.calls) + 1
    IN  /\ f.id \in {Absent, n} /\ f.name \in {Absent, n}
        /\ f.id # Absent \/ f.name # Absent
        /\ f.id = Absent => n - 1 \in from.finished \cup {0}
        /\ to = Story(Append(from.calls, Said(Empty, n, f)), Ends(n, f, from))

Continues(f, from, to) ==
    LET n == Len(from.calls)
    IN  /\ n > 0 /\ n \notin from.finished
        /\ f.id \in {Absent, from.calls[n].id} /\ f.name \in {Absent, n}
        /\ to = Story([from.calls EXCEPT ![n] = Said(from.calls[n], n, f)], Ends(n, f, from))

Adds(f, from, to) ==
    IF f.kind = "tool" THEN Begins(f, from, to) \/ Continues(f, from, to) ELSE to = from

\* The frames that were sent tell one story.
Before(i) == IF i = 1 THEN heard ELSE sent[i - 1].meant

StoryTold ==
    /\ WellTold(heard) /\ Len(heard.calls) <= parsed /\ Keeps(heard, Meant)
    /\ \A i \in DOMAIN sent :
          /\ WellTold(sent[i].meant) /\ Len(sent[i].meant.calls) <= parsed + i
          /\ Keeps(sent[i].meant, Meant)
          /\ Adds(sent[i].frame, Before(i), sent[i].meant)

\* What the reader's goroutine brings fits the wire.
WireRead ==
    /\ conn \in {"open", "ended"} => arriving = 2 * (parsed + Len(sent))
    /\ got = "eof" => conn = "ended" /\ taken = arriving
    /\ got = "unexpectedEOF" => conn \in {"broken", "torn"}
    /\ pc = "wait" => buffered = Position
    /\ result = None /\ (fetch = "done" => got # None) => taken = buffered

\* Where the parser is.
ParserPlaced ==
    /\ result = None <=> pc # "returned"
    /\ pc # "callback" => queue = <<>> \/ result # None
    /\ stopped => pc \in {"callback", "returned"} /\ queue = <<>>
    /\ pc = "flush" => need = "prelude"
    /\ pc = "flush" \/ result = "eof" => conn # "open" /\ (conn = "ended" => sent = <<>>)
    /\ minted <= parsed

\* What was handed over are calls the parser has heard of, and complete ...
Handed ==
    \A n \in DOMAIN calls :
        /\ n \in DOMAIN heard.calls
        /\ Settled(n, heard) \/ (result = "eof" /\ n = Len(calls))
        /\ Same(calls[n], heard.calls[n], n)

\* ... what waits to be handed over are the next ...
Waiting ==
    \A j \in DOMAIN queue :
        LET n == Len(calls) + j
        IN  n \in DOMAIN heard.calls /\ Settled(n, heard) /\ Same(queue[j], heard.calls[n], n)

\* ... and the accumulator has what the upstream has said so far of the last.
Gathered ==
    LET d == Len(calls) + Len(queue)
    IN  result = None /\ ~stopped =>
            IF acc.id = Absent
            THEN acc = Empty /\ Len(heard.calls) = d /\ d \in heard.finished \cup {0}
            ELSE /\ Len(heard.calls) = d + 1 /\ d + 1 \notin heard.finished
                 /\ Same(acc, heard.calls[d + 1], d + 1)

\* An answer that ended has been heard to its end.
AllHanded == result = "eof" => Len(calls) = Len(heard.calls)

\* Ids are the upstream's or made up, and no two calls share one.
Issued(id) == id # Absent /\ id <= MaxFrames + minted

OwnIds ==
    /\ \A n \in DOMAIN calls : Issued(calls[n].id) /\ calls[n].id # acc.id
    /\ \A j \in DOMAIN queue : Issued(queue[j].id) /\ queue[j].id # acc.id
    /\ acc.id # Absent => Issued(acc.id)
    /\ \A m, n \in DOMAIN calls : m # n => calls[m].id # calls[n].id
    /\ \A i, j \in DOMAIN queue : i # j => queue[i].id # queue[j].id
    /\ \A n \in DOMAIN calls, j \in DOMAIN queue : calls[n].id # queue[j].id

IInv ==
    /\ TypeOK
    /\ StoryTold
    /\ WireRead
    /\ ParserPlaced
    /\ Handed
    /\ Waiting
    /\ Gathered
    /\ AllHanded
    /\ OwnIds

USE StreamAssumption
----------------------------------------------------------------------------
LEMMA InitIInv == Init => IInv
<1> SUFFICES ASSUME Init PROVE IInv
  OBVIOUS
<1>1. Empty \in Calls /\ heard \in Stories
  BY DEF Init, Empty, Calls, CallIds, Absent, Stories, Story
<1>2. TypeOK
  <2>1. sent \in Seq([frame : Frames, meant : Stories]) /\ queue \in Seq(Calls) /\ calls \in Seq(Calls)
    BY DEF Init
  <2>2. 0 \in 0..MaxFrames /\ parsed + Len(sent) <= MaxFrames
    BY DEF Init
  <2>3. Position = 0 /\ parsed \in 0..MaxFrames /\ minted \in 0..MaxFrames
    BY <2>2 DEF Init, Position
  <2>4. Len(sent) = 0
    BY DEF Init
  <2>5. /\ arriving \in Nat /\ taken \in Nat /\ buffered \in Nat
        /\ Position <= buffered /\ buffered <= taken /\ taken <= arriving
        /\ arriving <= 2 * (parsed + Len(sent))
    BY <2>2, <2>3, <2>4 DEF Init
  <2>6. acc \in Calls /\ cancelled \in BOOLEAN /\ stopped \in BOOLEAN /\ told \in Nat
    BY <1>1 DEF Init
  <2>7. /\ fetch \in {"none", "reading", "done", "stray"} /\ need \in {"prelude", "body"}
        /\ pc \in {"head", "read", "wait", "event", "exception", "callback", "flush", "returned"}
        /\ (pc = "wait" <=> fetch \in {"reading", "done"})
    BY DEF Init
  <2> QED
    BY <1>1, <2>1, <2>2, <2>3, <2>5, <2>6, <2>7 DEF Init, TypeOK, None
<1>3. StoryTold
  BY DEF Init, StoryTold, Story, WellTold, Keeps, Meant, Settled
<1>4. WireRead /\ ParserPlaced
  BY DEF Init, WireRead, ParserPlaced, None
<1>5. Handed /\ Waiting /\ Gathered /\ AllHanded /\ OwnIds
  BY DEF Init, Handed, Waiting, Gathered, AllHanded, OwnIds, Story, Empty, None
<1> QED
  BY <1>2, <1>3, <1>4, <1>5 DEF IInv

----------------------------------------------------------------------------
\* What a step leaves alone it does not disturb.
LEMMA Untouched ==
    ASSUME IInv
    PROVE  /\ UNCHANGED <<sent, heard, parsed>> => StoryTold'
           /\ UNCHANGED <<calls, heard>> /\ (result = "eof" => result' = "eof") => Handed'
           /\ UNCHANGED <<queue, calls, heard>> => Waiting'
           /\ UNCHANGED <<queue, calls, heard, acc>> /\ (result' = None => result = None)
                 /\ (stopped => stopped') => Gathered'
           /\ UNCHANGED <<calls, heard>> /\ (result' = "eof" => result = "eof") => AllHanded'
           /\ UNCHANGED <<queue, calls, acc, minted>> => OwnIds'
<1>1. ASSUME UNCHANGED <<sent, heard, parsed>> PROVE StoryTold'
  BY <1>1 DEF IInv, StoryTold, Meant, Before
<1>2. ASSUME UNCHANGED <<calls, heard>>, result = "eof" => result' = "eof" PROVE Handed'
  BY <1>2 DEF IInv, Handed
<1>3. ASSUME UNCHANGED <<queue, calls, heard>> PROVE Waiting'
  BY <1>3 DEF IInv, Waiting
<1>4. ASSUME UNCHANGED <<queue, calls, heard, acc>>, result' = None => result = None, stopped => stopped'
      PROVE  Gathered'
  BY <1>4 DEF IInv, Gathered
<1>5. ASSUME UNCHANGED <<calls, heard>>, result' = "eof" => result = "eof" PROVE AllHanded'
  BY <1>5 DEF IInv, AllHanded
<1>6. ASSUME UNCHANGED <<queue, calls, acc, minted>> PROVE OwnIds'
  BY <1>6 DEF IInv, OwnIds, Issued
<1> QED
  BY <1>1, <1>2, <1>3, <1>4, <1>5, <1>6

\* Steps of the wire and of the reader's goroutine.
LEMMA WireInv == IInv /\ (End \/ Break \/ Cancel \/ Fetch) => IInv'
<1> SUFFICES ASSUME IInv, End \/ Break \/ Cancel \/ Fetch PROVE IInv'
  OBVIOUS
<1>1. UNCHANGED <<sent, heard, parsed, need, pc, acc, minted, queue, stopped, told, calls, result, buffered>>
  BY DEF End, Break, Cancel, Fetch, upstreamVars, readerVars, frameVars, parserVars, outcomeVars
<1>2. TypeOK' /\ WireRead' /\ ParserPlaced'
  <2> USE <1>1 DEF IInv, TypeOK, WireRead, ParserPlaced, Position, None
  <2>1. CASE End
    BY <2>1 DEF End, readerVars
  <2>2. CASE Break
    BY <2>2 DEF Break, readerVars
  <2>3. CASE Cancel
    BY <2>3 DEF Cancel, wireVars, readerVars
  <2>4. CASE Fetch
    BY <2>4 DEF Fetch, wireVars
  <2> QED
    BY <2>1, <2>2, <2>3, <2>4
<1>3. StoryTold' /\ Handed' /\ Waiting' /\ Gathered' /\ AllHanded' /\ OwnIds'
  BY <1>1, Untouched
<1> QED
  BY <1>2, <1>3 DEF IInv

\* Steps of the parser that hand nothing over.
LEMMA LoopInv ==
    IInv /\ (Receive \/ Timeout \/ NextFrame \/ Read \/ Prelude \/ Event \/ Exception \/ FrameDone) => IInv'
<1> SUFFICES ASSUME IInv, Receive \/ Timeout \/ NextFrame \/ Read \/ Prelude \/ Event \/ Exception \/ FrameDone
             PROVE  IInv'
  OBVIOUS
<1>1. /\ UNCHANGED <<sent, heard, arriving, conn, cancelled, taken, parsed, acc, minted, queue, calls>>
      /\ result' \in {result, "error", "exception", "stop"} /\ (stopped => stopped')
  BY DEF Receive, Timeout, NextFrame, Read, Prelude, Event, Exception, FrameDone, upstreamVars, wireVars,
     readerVars, frameVars, parserVars, outcomeVars, Return, ReadFailed
<1>2. TypeOK' /\ WireRead' /\ ParserPlaced'
  <2> USE <1>1 DEF IInv, TypeOK, WireRead, ParserPlaced, Position, None, Return, readerVars, frameVars,
          parserVars, outcomeVars, wireVars
  <2>1. CASE Receive
    <3>1. pc = "wait" /\ fetch = "done" /\ fetch' = "none" /\ got' = None
      BY <2>1 DEF Receive
    <3>2. CASE got = None
      <4>1. buffered' = taken /\ pc' = "read" /\ result' = result /\ stopped' = stopped /\ need' = need /\ told' = told
        BY <2>1, <3>2 DEF Receive
      <4> QED
        BY <3>1, <3>2, <4>1
    <3>3. CASE got # None
      <4>1. ReadFailed(got) /\ buffered' = buffered /\ stopped' = stopped /\ need' = need /\ told' = told
        BY <2>1, <3>3 DEF Receive
      <4>2. CASE need = "prelude" /\ got \in {"eof", "unexpectedEOF"} /\ conn # "torn"
        <5>1. pc' = "flush" /\ result' = result
          BY <4>1, <4>2 DEF ReadFailed
        <5>2. conn = "ended" => Len(sent) = 0
          BY <3>1, <3>3, <4>2
        <5> QED
          BY <3>1, <4>1, <4>2, <5>1, <5>2, EmptySeq
      <4>3. CASE ~(need = "prelude" /\ got \in {"eof", "unexpectedEOF"} /\ conn # "torn")
        <5>1. pc' = "returned" /\ result' = "error"
          BY <4>1, <4>3 DEF ReadFailed
        <5> QED
          BY <3>1, <4>1, <5>1
      <4> QED
        BY <4>2, <4>3
    <3> QED
      BY <3>2, <3>3
  <2>2. CASE Timeout
    BY <2>2 DEF Timeout
  <2>3. CASE NextFrame
    BY <2>3 DEF NextFrame
  <2>4. CASE Read
    BY <2>4 DEF Read
  <2>5. CASE Prelude
    BY <2>5 DEF Prelude
  <2>6. CASE Event
    <3>1. told' \in Nat /\ fetch' = fetch /\ got' = got /\ need' = need /\ buffered' = buffered /\ pc = "event"
      BY <2>6 DEF Event
    <3>2. queue = <<>> /\ result = None
      BY <3>1
    <3>3. \/ stopped' = TRUE /\ result' = "stop" /\ pc' = "returned"
          \/ stopped' = stopped /\ result' = result /\ pc' = "head"
      BY <2>6 DEF Event
    <3>4. CASE stopped' = TRUE /\ result' = "stop" /\ pc' = "returned"
      BY <3>1, <3>2, <3>4
    <3>5. CASE stopped' = stopped /\ result' = result /\ pc' = "head"
      BY <3>1, <3>2, <3>5
    <3> QED
      BY <3>3, <3>4, <3>5
  <2>7. CASE Exception
    BY <2>7 DEF Exception
  <2>8. CASE FrameDone
    BY <2>8 DEF FrameDone
  <2> QED
    BY <2>1, <2>2, <2>3, <2>4, <2>5, <2>6, <2>7, <2>8
<1>3. result = "eof" => UNCHANGED result
  BY DEF IInv, ParserPlaced, None, Receive, Timeout, NextFrame, Read, Prelude, Event, Exception, FrameDone,
     outcomeVars
<1>4. StoryTold' /\ Handed' /\ Waiting' /\ Gathered' /\ AllHanded' /\ OwnIds'
  BY <1>1, <1>3, Untouched DEF None
<1> QED
  BY <1>2, <1>4 DEF IInv

----------------------------------------------------------------------------
\* Stories.
LEMMA KeepsItself == ASSUME NEW s \in Stories PROVE Keeps(s, s)
BY DEF Keeps, Stories

LEMMA KeepsFurther ==
    ASSUME NEW a \in Stories, NEW b \in Stories, NEW c \in Stories, Keeps(a, b), Keeps(b, c)
    PROVE  Keeps(a, c)
<1>1. /\ Len(a.calls) \in Nat /\ Len(b.calls) \in Nat /\ Len(c.calls) \in Nat
      /\ DOMAIN a.calls = 1..Len(a.calls) /\ DOMAIN b.calls = 1..Len(b.calls)
  BY DEF Stories
<1>2. ASSUME NEW n \in DOMAIN a.calls, Settled(n, a) PROVE c.calls[n] = a.calls[n]
  <2>1. n \in DOMAIN b.calls /\ Settled(n, b) /\ b.calls[n] = a.calls[n]
    BY <1>1, <1>2 DEF Keeps, Settled
  <2> QED
    BY <2>1 DEF Keeps
<1> QED
  BY <1>1, <1>2 DEF Keeps

LEMMA AddsKeeps ==
    ASSUME NEW f \in Frames, NEW a \in Stories, NEW b, WellTold(a), Adds(f, a, b)
    PROVE  Keeps(a, b) /\ WellTold(b) /\ Len(b.calls) <= Len(a.calls) + 1
<1> DEFINE n == Len(a.calls)
<1>1. /\ n \in Nat /\ DOMAIN a.calls = 1..n /\ a.calls \in Seq(Calls)
      /\ a.finished \subseteq 1..n
  BY DEF Stories, WellTold
<1>2. CASE b = a
  BY <1>1, <1>2, KeepsItself
<1>3. CASE Begins(f, a, b)
  <2>1. b.calls = Append(a.calls, Said(Empty, n + 1, f)) /\ b.finished = Ends(n + 1, f, a)
    BY <1>3 DEF Begins, Story
  <2>2. /\ Len(b.calls) = n + 1 /\ DOMAIN b.calls = 1..(n + 1)
        /\ \A m \in 1..n : b.calls[m] = a.calls[m]
        /\ b.calls[n + 1] = Said(Empty, n + 1, f)
    BY <1>1, <2>1
  <2>3. Said(Empty, n + 1, f).id \in {Absent, n + 1} /\ Said(Empty, n + 1, f).name \in {Absent, n + 1}
    BY DEF Said, Empty
  <2>4. b.finished \subseteq 1..(n + 1) /\ a.finished \subseteq b.finished
    BY <1>1, <2>1 DEF Ends
  <2>5. Keeps(a, b)
    BY <1>1, <2>2, <2>4 DEF Keeps
  <2>6. ASSUME NEW m \in 1..(n + 1)
        PROVE  b.calls[m].id \in {Absent, m} /\ b.calls[m].name \in {Absent, m}
    BY <1>1, <2>2, <2>3, <2>6 DEF WellTold
  <2> QED
    BY <1>1, <2>2, <2>4, <2>5, <2>6 DEF WellTold
<1>4. CASE Continues(f, a, b)
  <2>1. /\ n > 0 /\ n \notin a.finished
        /\ b.calls = [a.calls EXCEPT ![n] = Said(a.calls[n], n, f)] /\ b.finished = Ends(n, f, a)
    BY <1>4 DEF Continues, Story
  <2>2. /\ Len(b.calls) = n /\ DOMAIN b.calls = 1..n
        /\ \A m \in 1..n : m # n => b.calls[m] = a.calls[m]
        /\ b.calls[n] = Said(a.calls[n], n, f)
    <3>1. DOMAIN b.calls = 1..n
      BY <1>1, <2>1
    <3>2. Len(b.calls) = n
      BY <1>1, <3>1, LenProperties, <2>1 DEF Said
    <3> QED
      BY <1>1, <2>1, <3>1, <3>2
  <2>3. Said(a.calls[n], n, f).id \in {Absent, n} /\ Said(a.calls[n], n, f).name \in {Absent, n}
    BY <1>1, <2>1 DEF Said, WellTold
  <2>4. b.finished \subseteq 1..n /\ a.finished \subseteq b.finished
    BY <1>1, <2>1 DEF Ends
  <2>5. ASSUME NEW m \in 1..n, Settled(m, a) PROVE b.calls[m] = a.calls[m]
    BY <1>1, <2>1, <2>2, <2>5 DEF Settled
  <2>6. ASSUME NEW m \in 1..n
        PROVE  b.calls[m].id \in {Absent, m} /\ b.calls[m].name \in {Absent, m}
    BY <1>1, <2>2, <2>3, <2>6 DEF WellTold
  <2>7. Keeps(a, b)
    BY <1>1, <2>2, <2>4, <2>5 DEF Keeps
  <2> QED
    BY <1>1, <2>2, <2>4, <2>6, <2>7 DEF WellTold
<1> QED
  BY <1>2, <1>3, <1>4 DEF Adds

LEMMA MeantFacts ==
    IInv => Meant \in Stories /\ WellTold(Meant) /\ Len(Meant.calls) <= parsed + Len(sent)
<1> SUFFICES ASSUME IInv PROVE Meant \in Stories /\ WellTold(Meant) /\ Len(Meant.calls) <= parsed + Len(sent)
  OBVIOUS
<1>1. sent \in Seq([frame : Frames, meant : Stories]) /\ heard \in Stories /\ parsed \in Nat
  BY DEF IInv, TypeOK
<1>2. CASE sent = <<>>
  BY <1>1, <1>2 DEF Meant, IInv, StoryTold
<1>3. CASE sent # <<>>
  <2>1. Len(sent) \in 1..Len(sent) /\ DOMAIN sent = 1..Len(sent)
    BY <1>1, <1>3, EmptySeq, LenProperties
  <2>2. sent[Len(sent)] \in [frame : Frames, meant : Stories]
    BY <1>1, <2>1, ElementOfSeq
  <2> QED
    BY <1>3, <2>1, <2>2 DEF Meant, IInv, StoryTold
<1> QED
  BY <1>2, <1>3

\* The upstream sends a frame that adds to its story.
LEMMA PutInv ==
    ASSUME NEW f \in Frames, NEW meant \in Stories, IInv, Put(f, meant), Adds(f, Meant, meant)
    PROVE  IInv'
<1> DEFINE e == [frame |-> f, meant |-> meant]
<1>0. PICK N \in Nat : N = Len(sent)
  BY LenProperties DEF IInv, TypeOK
<1>1. /\ sent' = Append(sent, e) /\ arriving' = arriving + 2 /\ conn = "open" /\ parsed + N < MaxFrames
      /\ UNCHANGED <<heard, conn, cancelled, taken, buffered, fetch, got, parsed, need, pc, acc, minted, queue,
                     stopped, told, calls, result>>
  BY <1>0 DEF Put, readerVars, frameVars, parserVars, outcomeVars
<1>2. /\ sent \in Seq([frame : Frames, meant : Stories]) /\ heard \in Stories /\ N \in Nat /\ parsed \in Nat
      /\ e \in [frame : Frames, meant : Stories]
  BY DEF IInv, TypeOK
<1>3. /\ sent' \in Seq([frame : Frames, meant : Stories]) /\ Len(sent') = N + 1 /\ DOMAIN sent' = 1..(N + 1)
      /\ \A i \in 1..N : sent'[i] = sent[i]
      /\ sent'[N + 1] = e /\ sent' # <<>> /\ DOMAIN sent = 1..N
  BY <1>0, <1>1, <1>2
<1>4. Meant' = meant
  BY <1>1, <1>3 DEF Meant
<1>5. TypeOK'
  BY <1>0, <1>1, <1>2, <1>3 DEF IInv, TypeOK, Position
<1>6. WireRead' /\ ParserPlaced'
  BY <1>0, <1>1, <1>2, <1>3 DEF IInv, TypeOK, WireRead, ParserPlaced, Position
<1>7. StoryTold'
  <2>1. Meant \in Stories /\ WellTold(Meant) /\ Len(Meant.calls) <= parsed + N
    BY <1>0, MeantFacts
  <2>2. Keeps(Meant, meant) /\ WellTold(meant) /\ Len(meant.calls) <= parsed + N + 1
    <3>1. Len(Meant.calls) \in Nat /\ Len(meant.calls) \in Nat
      BY <2>1 DEF Stories
    <3> QED
      BY <1>0, <1>2, <2>1, <3>1, AddsKeeps
  <2>3. Keeps(heard, Meant')
    BY <1>0, <1>2, <1>4, <2>1, <2>2, KeepsFurther DEF IInv, StoryTold
  <2>4. ASSUME NEW i \in 1..N
        PROVE  /\ WellTold(sent'[i].meant) /\ Len(sent'[i].meant.calls) <= parsed + i
               /\ Keeps(sent'[i].meant, Meant')
               /\ Adds(sent'[i].frame, Before(i)', sent'[i].meant)
    <3>1. sent[i].meant \in Stories
      <4>1. sent[i] \in [frame : Frames, meant : Stories]
        BY <1>0, <1>2, ElementOfSeq
      <4> QED
        BY <4>1
    <3>2. Keeps(sent[i].meant, Meant')
      BY <1>0, <1>3, <1>4, <2>1, <2>2, <3>1, KeepsFurther DEF IInv, StoryTold
    <3>3. Before(i)' = Before(i)
      BY <1>0, <1>1, <1>2, <1>3 DEF Before
    <3> QED
      BY <1>0, <1>3, <3>2, <3>3 DEF IInv, StoryTold
  <2>5. Before(N + 1)' = Meant
    <3>1. CASE N = 0
      <4>1. sent = <<>>
        BY <1>0, <1>2, <3>1, EmptySeq
      <4> QED
        BY <1>1, <3>1, <4>1 DEF Before, Meant
    <3>2. CASE N # 0
      <4>1. sent # <<>> /\ (N + 1) - 1 = N /\ N + 1 # 1 /\ sent'[N] = sent[N]
        BY <1>0, <1>2, <1>3, <3>2
      <4> QED
        BY <1>0, <4>1 DEF Before, Meant
    <3> QED
      BY <3>1, <3>2
  <2>6. /\ WellTold(sent'[N + 1].meant) /\ Len(sent'[N + 1].meant.calls) <= parsed + (N + 1)
        /\ Keeps(sent'[N + 1].meant, Meant')
        /\ Adds(sent'[N + 1].frame, Before(N + 1)', sent'[N + 1].meant)
    BY <1>0, <1>2, <1>3, <1>4, <2>2, <2>5, KeepsItself
  <2>7. WellTold(heard)' /\ Len(heard.calls)' <= parsed'
    BY <1>1 DEF IInv, StoryTold, WellTold
  <2>8. ASSUME NEW i \in DOMAIN sent'
        PROVE  /\ WellTold(sent'[i].meant) /\ Len(sent'[i].meant.calls) <= parsed' + i
               /\ Keeps(sent'[i].meant, Meant')
               /\ Adds(sent'[i].frame, Before(i)', sent'[i].meant)
    <3>1. i \in 1..N \/ i = N + 1
      BY <1>0, <1>2, <1>3
    <3> QED
      BY <1>1, <2>4, <2>6, <3>1
  <2> QED
    BY <1>1, <2>3, <2>7, <2>8 DEF StoryTold
<1>8. Handed' /\ Waiting' /\ Gathered' /\ AllHanded' /\ OwnIds'
  BY <1>1, Untouched
<1> QED
  BY <1>5, <1>6, <1>7, <1>8 DEF IInv

LEMMA EmptyTyped == Empty \in Calls /\ Empty.id = Absent /\ Empty.input = <<>>
<1>1. <<>> \in Seq(Pieces)
  OBVIOUS
<1> QED
  BY <1>1 DEF Empty, Calls, CallIds, Absent

LEMMA SaidTyped ==
    ASSUME NEW call \in Calls, NEW n \in 1..MaxFrames, NEW f \in Frames
    PROVE  Said(call, n, f) \in Calls
<1>1. call.input \in Seq(Pieces) /\ f.input \in Seq(Pieces)
  BY DEF Calls, Frames
<1>2. call.input \o f.input \in Seq(Pieces)
  BY <1>1, ConcatProperties
<1>3. n \in CallIds /\ n \in 0..MaxFrames /\ call.id \in CallIds /\ call.name \in 0..MaxFrames
  BY DEF Calls, CallIds
<1> QED
  BY <1>1, <1>2, <1>3 DEF Said, Calls

LEMMA InputTyped ==
    ASSUME NEW n \in 1..MaxFrames, NEW count \in Nat, NEW input \in Inputs(n, count)
    PROVE  input \in Seq(Pieces)
<1>1. CASE input = <<>>
  BY <1>1
<1>2. CASE count < MaxPieces /\ input = <<<<n, count + 1>>>>
  <2>1. <<n, count + 1>> \in Pieces
    BY <1>2 DEF Pieces
  <2> QED
    BY <1>2, <2>1
<1> QED
  BY <1>1, <1>2 DEF Inputs

\* The upstream sends something.
LEMMA UpstreamInv == IInv /\ (SendOther \/ BeginCall \/ ContinueCall) => IInv'
<1> SUFFICES ASSUME IInv, SendOther \/ BeginCall \/ ContinueCall PROVE IInv'
  OBVIOUS
<1>1. /\ Meant \in Stories /\ WellTold(Meant) /\ Len(Meant.calls) \in Nat /\ Meant.calls \in Seq(Calls)
      /\ Len(Meant.calls) <= parsed + Len(sent) /\ parsed + Len(sent) \in Nat
      /\ Meant.finished \subseteq 1..MaxFrames /\ DOMAIN Meant.calls = 1..Len(Meant.calls)
  BY MeantFacts, LenProperties DEF Stories, IInv, TypeOK
<1>2. CASE SendOther
  <2>1. PICK kind \in OtherKinds : Put(Frame(kind), Meant)
    BY <1>2 DEF SendOther
  <2>2. <<>> \in Seq(Pieces)
    OBVIOUS
  <2>3. Frame(kind) \in Frames
    BY <2>2 DEF Frame, Frames, Absent
  <2>4. Adds(Frame(kind), Meant, Meant)
    BY DEF Adds, Frame, OtherKinds
  <2> QED
    BY <1>1, <2>1, <2>3, <2>4, PutInv
<1>3. CASE BeginCall
  <2> DEFINE n == Len(Meant.calls) + 1
             Shape(id, name, input, whole, stop) ==
                 [kind |-> "tool", id |-> id, name |-> name, input |-> input, whole |-> whole, stop |-> stop]
  <2>1. PICK id \in {Absent, n}, name \in {Absent, n}, input \in Inputs(n, 0), whole \in BOOLEAN,
             stop \in BOOLEAN :
          /\ id # Absent \/ name # Absent
          /\ id = Absent => n - 1 \in Meant.finished \cup {0}
          /\ whole => input # <<>>
          /\ Put(Shape(id, name, input, whole, stop),
                 Story(Append(Meant.calls, Said(Empty, n, Shape(id, name, input, whole, stop))),
                       WithStop(n, Shape(id, name, input, whole, stop))))
    BY <1>3 DEF BeginCall
  <2>2. PICK f : f = Shape(id, name, input, whole, stop)
    OBVIOUS
  <2>3. n \in 1..MaxFrames
    <3>1. parsed + Len(sent) < MaxFrames
      BY <2>1 DEF Put
    <3> QED
      BY <1>1, <3>1
  <2>4. f \in Frames
    <3>1. input \in Seq(Pieces)
      BY <2>3, InputTyped
    <3>2. id \in 0..MaxFrames /\ name \in 0..MaxFrames
      BY <2>3 DEF Absent
    <3> QED
      BY <2>2, <3>1, <3>2 DEF Frames
  <2>5. PICK to : to = Story(Append(Meant.calls, Said(Empty, n, f)), WithStop(n, f))
    OBVIOUS
  <2>6. to \in Stories
    <3>1. Append(Meant.calls, Said(Empty, n, f)) \in Seq(Calls)
      BY <1>1, <2>3, <2>4, EmptyTyped, SaidTyped, AppendProperties
    <3>2. WithStop(n, f) \subseteq 1..MaxFrames
      BY <1>1, <2>3 DEF WithStop
    <3> QED
      BY <2>5, <3>1, <3>2 DEF Story, Stories
  <2>7. WithStop(n, f) = Ends(n, f, Meant)
    BY DEF WithStop, Ends
  <2>8. Begins(f, Meant, to) /\ f.kind = "tool"
    BY <2>1, <2>2, <2>5, <2>7 DEF Begins
  <2> QED
    BY <2>1, <2>2, <2>4, <2>5, <2>6, <2>8, PutInv DEF Adds
<1>4. CASE ContinueCall
  <2> DEFINE n == Len(Meant.calls)
             call == Meant.calls[n]
             Shape(id, name, input, stop) ==
                 [kind |-> "tool", id |-> id, name |-> name, input |-> input, whole |-> FALSE, stop |-> stop]
  <2>1. PICK id \in {Absent, call.id}, name \in {Absent, n}, input \in Inputs(n, Len(call.input)),
             stop \in BOOLEAN :
          /\ n > 0 /\ n \notin Meant.finished
          /\ Put(Shape(id, name, input, stop),
                 Story([Meant.calls EXCEPT ![n] = Said(call, n, Shape(id, name, input, stop))],
                       WithStop(n, Shape(id, name, input, stop))))
    BY <1>4 DEF ContinueCall
  <2>2. PICK f : f = Shape(id, name, input, stop)
    OBVIOUS
  <2>3. n \in 1..MaxFrames /\ n \in DOMAIN Meant.calls
    BY <1>1, <2>1 DEF Put, IInv, TypeOK
  <2>4. call \in Calls /\ call.id \in {Absent, n} /\ Len(call.input) \in Nat
    <3>1. call \in Calls
      BY <1>1, <2>3, ElementOfSeq
    <3>2. Len(call.input) \in Nat
      BY <3>1, LenProperties DEF Calls
    <3> QED
      BY <1>1, <2>3, <3>1, <3>2 DEF WellTold
  <2>5. f \in Frames
    <3>1. input \in Seq(Pieces)
      BY <2>3, <2>4, InputTyped
    <3>2. id \in 0..MaxFrames /\ name \in 0..MaxFrames
      BY <2>3, <2>4 DEF Absent
    <3> QED
      BY <2>2, <3>1, <3>2 DEF Frames
  <2>6. PICK to : to = Story([Meant.calls EXCEPT ![n] = Said(call, n, f)], WithStop(n, f))
    OBVIOUS
  <2>7. to \in Stories
    <3>1. [Meant.calls EXCEPT ![n] = Said(call, n, f)] \in Seq(Calls)
      <4>1. Said(call, n, f) \in Calls
        BY <2>3, <2>4, <2>5, SaidTyped
      <4> QED
        BY <1>1, <2>3, <4>1, ExceptSeq
    <3>2. WithStop(n, f) \subseteq 1..MaxFrames
      BY <1>1, <2>3 DEF WithStop
    <3> QED
      BY <2>6, <3>1, <3>2 DEF Story, Stories
  <2>8. WithStop(n, f) = Ends(n, f, Meant)
    BY DEF WithStop, Ends
  <2>9. Continues(f, Meant, to) /\ f.kind = "tool"
    BY <2>1, <2>2, <2>6, <2>8 DEF Continues
  <2> QED
    BY <2>1, <2>2, <2>5, <2>6, <2>7, <2>9, PutInv DEF Adds
<1> QED
  BY <1>2, <1>3, <1>4

----------------------------------------------------------------------------
\* The accumulator.  "first" is 1 if the frame completes the call before it.
First(a, f) == IF StartsCall(a, f) /\ a.id # Absent THEN 1 ELSE 0

LEMMA CompletedIs ==
    ASSUME NEW a \in Calls, NEW f \in Frames, NEW fresh, Extended(a, f, fresh) \in Calls
    PROVE  LET list == Completed(a, f, fresh)
           IN  /\ list \in Seq(Calls)
               /\ Len(list) = First(a, f) + (IF f.stop THEN 1 ELSE 0)
               /\ First(a, f) = 1 => list[1] = a
               /\ f.stop => list[First(a, f) + 1] = Extended(a, f, fresh)
<1> DEFINE before == IF StartsCall(a, f) /\ a.id # Absent THEN <<a>> ELSE <<>>
           after  == IF f.stop THEN <<Extended(a, f, fresh)>> ELSE <<>>
<1>1. /\ before \in Seq(Calls) /\ Len(before) = First(a, f)
      /\ First(a, f) = 1 => before[1] = a
  BY DEF First
<1>2. /\ after \in Seq(Calls) /\ Len(after) = (IF f.stop THEN 1 ELSE 0)
      /\ f.stop => after[1] = Extended(a, f, fresh)
  OBVIOUS
<1>3. Completed(a, f, fresh) = before \o after
  BY DEF Completed
<1>4. First(a, f) \in {0, 1}
  BY DEF First
<1> HIDE DEF before, after
<1>5. /\ before \o after \in Seq(Calls) /\ Len(before \o after) = Len(before) + Len(after)
      /\ \A i \in 1..(Len(before) + Len(after)) :
            (before \o after)[i] = IF i <= Len(before) THEN before[i] ELSE after[i - Len(before)]
  BY <1>1, <1>2, ConcatProperties
<1>6. First(a, f) = 1 => (before \o after)[1] = a
  BY <1>1, <1>2, <1>5
<1>7. f.stop => (before \o after)[First(a, f) + 1] = Extended(a, f, fresh)
  BY <1>1, <1>2, <1>4, <1>5
<1> QED
  BY <1>1, <1>2, <1>3, <1>5, <1>6, <1>7

LEMMA ExtendedTyped ==
    ASSUME NEW a \in Calls, NEW f \in Frames, NEW fresh \in CallIds
    PROVE  Extended(a, f, fresh) \in Calls
<1> DEFINE call == IF StartsCall(a, f) THEN [Empty EXCEPT !.id = IF f.id # Absent THEN f.id ELSE fresh] ELSE a
<1>1. f.id \in CallIds /\ f.name \in 0..MaxFrames /\ f.input \in Seq(Pieces)
  BY DEF Frames, CallIds
<1>2. call \in Calls
  <2>1. [Empty EXCEPT !.id = IF f.id # Absent THEN f.id ELSE fresh] \in Calls
    BY <1>1, EmptyTyped DEF Calls
  <2> QED
    BY <2>1
<1>3. call.input \o f.input \in Seq(Pieces)
  <2>1. call.input \in Seq(Pieces)
    BY <1>2 DEF Calls
  <2> HIDE DEF call
  <2> QED
    BY <1>1, <2>1, ConcatProperties
<1>4. Extended(a, f, fresh) = [call EXCEPT !.name  = IF f.name # Absent THEN f.name ELSE @,
                                          !.input = IF f.whole THEN f.input ELSE @ \o f.input]
  BY DEF Extended
<1> HIDE DEF call
<1> QED
  BY <1>1, <1>2, <1>3, <1>4 DEF Calls

\* A frame of a tool call goes to the call it belongs to: what the accumulator
\* makes of it is the upstream's last call so far, and what it completes is the
\* one before.
Fresh == MaxFrames + 1 + minted
MintedBy(f) == IF StartsCall(acc, f) /\ f.id = Absent THEN minted + 1 ELSE minted

LEMMA GatheredOn ==
    ASSUME IInv, NEW f \in Frames, NEW to \in Stories, result = None, ~stopped, queue = <<>>, parsed < MaxFrames,
           Begins(f, heard, to) \/ Continues(f, heard, to)
    PROVE  LET E == Extended(acc, f, Fresh)
               n == Len(to.calls)
           IN  /\ E \in Calls /\ E.id # Absent /\ E.id <= MaxFrames + MintedBy(f)
               /\ n \in Nat /\ n = Len(calls) + First(acc, f) + 1
               /\ Same(E, to.calls[n], n) /\ (f.stop <=> n \in to.finished)
               /\ First(acc, f) = 1 => Same(acc, to.calls[n - 1], n - 1) /\ acc.id # E.id
               /\ \A m \in DOMAIN calls : calls[m].id # E.id
<1> DEFINE E == Extended(acc, f, Fresh)
           d == Len(calls)
<1>1. /\ acc \in Calls /\ minted \in Nat /\ minted <= parsed /\ parsed \in Nat /\ heard \in Stories
      /\ calls \in Seq(Calls) /\ d \in Nat /\ Len(queue) = 0 /\ DOMAIN calls = 1..d
  BY DEF IInv, TypeOK, ParserPlaced
<1>2. E \in Calls
  <2>1. Fresh \in CallIds
    BY <1>1 DEF Fresh, CallIds
  <2> QED
    BY <1>1, <2>1, ExtendedTyped
<1>3. IF acc.id = Absent
      THEN acc = Empty /\ Len(heard.calls) = d /\ d \in heard.finished \cup {0}
      ELSE /\ Len(heard.calls) = d + 1 /\ d + 1 \notin heard.finished
           /\ Same(acc, heard.calls[d + 1], d + 1)
  BY <1>1 DEF IInv, Gathered
<1>4. /\ heard.calls \in Seq(Calls) /\ heard.finished \subseteq 1..Len(heard.calls)
      /\ Len(heard.calls) <= parsed
      /\ \A m \in 1..Len(heard.calls) : heard.calls[m].id \in {Absent, m} /\ heard.calls[m].name \in {Absent, m}
  BY <1>1 DEF IInv, StoryTold, WellTold, Stories
<1>5. \A m \in 1..d : /\ m <= Len(heard.calls) /\ calls[m].id \in Nat
                      /\ calls[m].id = m \/ calls[m].id > MaxFrames
                      /\ calls[m].id <= MaxFrames + minted /\ calls[m].id # acc.id
  <2> SUFFICES ASSUME NEW m \in 1..d
               PROVE  /\ m <= Len(heard.calls) /\ calls[m].id \in Nat
                      /\ calls[m].id = m \/ calls[m].id > MaxFrames
                      /\ calls[m].id <= MaxFrames + minted /\ calls[m].id # acc.id
    OBVIOUS
  <2>1. calls[m] \in Calls
    BY <1>1, ElementOfSeq
  <2>2. calls[m].id \in Nat
    BY <2>1 DEF Calls, CallIds
  <2>3. m \in DOMAIN heard.calls /\ Same(calls[m], heard.calls[m], m)
    BY <1>1 DEF IInv, Handed
  <2>4. calls[m].id = m \/ calls[m].id > MaxFrames
    BY <2>3 DEF Same
  <2> QED
    BY <1>1, <1>4, <2>2, <2>3, <2>4 DEF IInv, OwnIds, Issued
<1>6. acc.id \in Nat /\ acc.id <= MaxFrames + minted
  BY <1>1 DEF IInv, OwnIds, Issued, Calls, CallIds, Absent
<1>7. CASE Begins(f, heard, to)
  <2> DEFINE n == Len(heard.calls) + 1
  <2>1. /\ f.id \in {Absent, n} /\ f.name \in {Absent, n} /\ (f.id # Absent \/ f.name # Absent)
        /\ f.id = Absent => n - 1 \in heard.finished \cup {0}
        /\ to.calls = Append(heard.calls, Said(Empty, n, f)) /\ to.finished = Ends(n, f, heard)
    BY <1>7 DEF Begins, Story
  <2>2. /\ Len(to.calls) = n /\ to.calls[n] = Said(Empty, n, f) /\ n \in 1..MaxFrames
        /\ \A m \in 1..(n - 1) : to.calls[m] = heard.calls[m]
    BY <1>1, <1>4, <2>1
  <2>3. f.stop <=> n \in to.finished
    BY <1>4, <2>1 DEF Ends
  <2>4. acc.id = n => FALSE
    <3>1. CASE acc.id = Absent
      BY <2>2, <3>1 DEF Absent
    <3>2. CASE acc.id # Absent
      BY <1>1, <1>3, <1>4, <2>2, <3>2 DEF Same, Absent
    <3> QED
      BY <3>1, <3>2
  <2>5. f.id = Absent => acc.id = Absent
    BY <1>1, <1>3, <1>4, <2>1
  <2>6. StartsCall(acc, f)
    BY <2>1, <2>2, <2>4, <2>5 DEF StartsCall
  <2>7. n = d + First(acc, f) + 1
    BY <1>1, <1>3, <2>6 DEF First
  <2>8. /\ E.id = IF f.id # Absent THEN f.id ELSE Fresh
        /\ E.name = IF f.name # Absent THEN f.name ELSE Empty.name
        /\ E.input = IF f.whole THEN f.input ELSE Empty.input \o f.input
    BY <2>6 DEF Extended, Empty
  <2>9. Same(E, Said(Empty, n, f), n)
    BY <1>1, <2>1, <2>8, <2>2 DEF Same, Said, Fresh, Empty, Absent
  <2>10. /\ E.id # Absent /\ E.id <= MaxFrames + MintedBy(f)
         /\ E.id = n \/ E.id = MaxFrames + 1 + minted
    BY <1>1, <2>1, <2>2, <2>6, <2>8 DEF MintedBy, Fresh, Absent
  <2>11. \A m \in 1..d : calls[m].id # E.id
    BY <1>1, <1>3, <1>4, <1>5, <2>2, <2>10
  <2>12. ASSUME First(acc, f) = 1 PROVE Same(acc, to.calls[n - 1], n - 1) /\ acc.id # E.id
    <3>1. acc.id # Absent
      BY <2>12 DEF First
    <3>2. n - 1 = d + 1 /\ n - 1 \in 1..(n - 1)
      BY <1>1, <1>3, <3>1
    <3> QED
      BY <1>1, <1>3, <1>6, <2>2, <2>4, <2>10, <3>1, <3>2
  <2> QED
    BY <1>1, <1>2, <2>2, <2>3, <2>7, <2>9, <2>10, <2>11, <2>12
<1>8. CASE Continues(f, heard, to)
  <2> DEFINE n == Len(heard.calls)
  <2>1. /\ n > 0 /\ n \notin heard.finished
        /\ f.id \in {Absent, heard.calls[n].id} /\ f.name \in {Absent, n}
        /\ to.calls = [heard.calls EXCEPT ![n] = Said(heard.calls[n], n, f)] /\ to.finished = Ends(n, f, heard)
    BY <1>8 DEF Continues, Story
  <2>2. /\ Len(to.calls) = n /\ to.calls[n] = Said(heard.calls[n], n, f) /\ n \in 1..MaxFrames
    <3>1. n \in Nat /\ DOMAIN heard.calls = 1..n /\ DOMAIN to.calls = 1..n
      BY <1>4, <2>1
    <3>2. Len(to.calls) = n
      <4>1. to.calls \in Seq(Calls)
        BY DEF Stories
      <4> QED
        BY <3>1, <4>1
    <3> QED
      BY <1>1, <1>4, <2>1, <3>1, <3>2
  <2>3. f.stop <=> n \in to.finished
    BY <2>1 DEF Ends
  <2>4. acc.id # Absent /\ n = d + 1 /\ Same(acc, heard.calls[n], n)
    BY <1>1, <1>3, <2>1
  <2>5. heard.calls[n].id \in {Absent, n}
    BY <1>4, <2>2
  <2>6. ~StartsCall(acc, f)
    BY <2>1, <2>4, <2>5 DEF StartsCall, Same
  <2>7. First(acc, f) = 0 /\ MintedBy(f) = minted
    BY <2>6 DEF First, MintedBy
  <2>8. /\ E.id = acc.id
        /\ E.name = IF f.name # Absent THEN f.name ELSE acc.name
        /\ E.input = IF f.whole THEN f.input ELSE acc.input \o f.input
    BY <1>1, <2>6 DEF Extended, Calls
  <2>9. Same(E, Said(heard.calls[n], n, f), n)
    <3>1. Said(heard.calls[n], n, f).id = heard.calls[n].id
      BY <2>1, <2>5 DEF Said
    <3> QED
      BY <2>1, <2>4, <2>8, <3>1 DEF Same, Said
  <2> QED
    BY <1>1, <1>2, <1>5, <1>6, <2>2, <2>3, <2>4, <2>7, <2>8, <2>9
<1> QED
  BY <1>7, <1>8

----------------------------------------------------------------------------
\* What was settled when a call was handed over is so in the longer story.
LEMMA SettledStays ==
    ASSUME NEW a \in Stories, NEW b \in Stories, Keeps(a, b), NEW n \in DOMAIN a.calls, Settled(n, a)
    PROVE  n \in DOMAIN b.calls /\ Settled(n, b) /\ b.calls[n] = a.calls[n]
<1>1. /\ Len(a.calls) \in Nat /\ Len(b.calls) \in Nat
      /\ DOMAIN a.calls = 1..Len(a.calls) /\ DOMAIN b.calls = 1..Len(b.calls)
  BY DEF Stories
<1> QED
  BY <1>1 DEF Keeps, Settled

LEMMA DecodeInv == IInv /\ Decode => IInv'
<1> SUFFICES ASSUME IInv, Decode PROVE IInv'
  OBVIOUS
<1>n. PICK N \in Nat : N = Len(sent)
  BY LenProperties DEF IInv, TypeOK
<1>0. PICK f, to : N = Len(sent) /\ f = Head(sent).frame /\ to = Head(sent).meant
  BY <1>n
<1>1. /\ parsed' = parsed + 1 /\ need' = "prelude" /\ need = "body" /\ sent' = Tail(sent) /\ heard' = to
      /\ pc = "read" /\ buffered > Position
      /\ UNCHANGED <<arriving, conn, cancelled, taken, buffered, fetch, got, stopped, told, calls>>
  BY <1>0 DEF Decode, wireVars, readerVars
<1>2. \/ f.kind = "invalid" /\ result' = "error" /\ pc' = "returned" /\ UNCHANGED <<acc, minted, queue>>
      \/ f.kind = "ignored" /\ pc' = "head" /\ UNCHANGED <<acc, minted, queue, result>>
      \/ f.kind \in {"event", "exception"} /\ pc' = f.kind /\ UNCHANGED <<acc, minted, queue, result>>
      \/ /\ f.kind = "tool" /\ pc' = "callback" /\ queue' = Completed(acc, f, Fresh)
         /\ acc' = Update(acc, f, Fresh) /\ minted' = MintedBy(f) /\ result' = result
  BY <1>0 DEF Decode, Return, Fresh, MintedBy
<1>3. /\ sent \in Seq([frame : Frames, meant : Stories]) /\ heard \in Stories /\ parsed \in Nat
      /\ N > 0 /\ parsed < MaxFrames /\ parsed + N <= MaxFrames /\ minted \in Nat /\ minted <= parsed
      /\ result = None /\ ~stopped /\ queue = <<>>
  <2>1. sent \in Seq([frame : Frames, meant : Stories]) /\ heard \in Stories /\ parsed \in Nat
    BY DEF IInv, TypeOK
  <2>2. result = None /\ ~stopped /\ queue = <<>>
    BY <1>1 DEF IInv, TypeOK, ParserPlaced
  <2>3. N > 0 /\ parsed + N <= MaxFrames
    BY <1>0, <1>1, <2>1 DEF IInv, TypeOK, Position
  <2> QED
    BY <2>1, <2>2, <2>3 DEF IInv, TypeOK, ParserPlaced
<1>4. /\ sent[1] \in [frame : Frames, meant : Stories] /\ f = sent[1].frame /\ to = sent[1].meant
      /\ f \in Frames /\ to \in Stories /\ DOMAIN sent = 1..N
  <2>1. 1 \in 1..Len(sent) /\ DOMAIN sent = 1..N
    BY <1>0, <1>3, LenProperties
  <2>2. sent[1] \in [frame : Frames, meant : Stories]
    BY <1>3, <2>1, ElementOfSeq
  <2>3. Head(sent) = sent[1]
    BY <1>3, <2>1
  <2> QED
    BY <1>0, <2>1, <2>2, <2>3
<1>5. /\ sent' \in Seq([frame : Frames, meant : Stories]) /\ Len(sent') = N - 1 /\ DOMAIN sent' = 1..(N - 1)
      /\ \A i \in 1..(N - 1) : sent'[i] = sent[i + 1]
  <2>1. sent # <<>>
    BY <1>0, <1>3
  <2> QED
    BY <1>0, <1>1, <1>3, <2>1, HeadTailProperties, LenProperties
<1>6. Meant' = Meant
  <2>1. CASE N = 1
    <3>1. sent' = <<>>
      BY <1>5, <2>1, EmptySeq
    <3> QED
      BY <1>0, <1>1, <1>3, <1>4, <2>1, <3>1 DEF Meant
  <2>2. CASE N # 1
    <3>1. sent' # <<>> /\ sent # <<>> /\ sent'[N - 1] = sent[N]
      BY <1>0, <1>3, <1>5, <2>2
    <3> QED
      BY <1>0, <1>5, <3>1 DEF Meant
  <2> QED
    BY <2>1, <2>2
<1>7. Adds(f, heard, to) /\ WellTold(to) /\ Len(to.calls) <= parsed + 1 /\ Keeps(to, Meant)
  BY <1>3, <1>4 DEF IInv, StoryTold, Before
<1>8. Keeps(heard, to)
  BY <1>3, <1>4, <1>7, AddsKeeps DEF IInv, StoryTold
<1>9. StoryTold'
  <2>1. ASSUME NEW i \in 1..(N - 1)
        PROVE  /\ WellTold(sent'[i].meant) /\ Len(sent'[i].meant.calls) <= parsed + 1 + i
               /\ Keeps(sent'[i].meant, Meant')
               /\ Adds(sent'[i].frame, Before(i)', sent'[i].meant)
    <3>1. i + 1 \in 1..N /\ sent'[i] = sent[i + 1]
      BY <1>3, <1>5
    <3>2. Before(i)' = Before(i + 1)
      BY <1>1, <1>3, <1>4, <1>5 DEF Before
    <3>3. /\ WellTold(sent[i + 1].meant) /\ Len(sent[i + 1].meant.calls) <= parsed + (i + 1)
          /\ Keeps(sent[i + 1].meant, Meant)
          /\ Adds(sent[i + 1].frame, Before(i + 1), sent[i + 1].meant)
      BY <1>4, <3>1 DEF IInv, StoryTold
    <3> QED
      BY <1>3, <1>6, <3>1, <3>2, <3>3
  <2>2. WellTold(heard)' /\ Len(heard.calls)' <= parsed' /\ Keeps(heard, Meant)'
    BY <1>1, <1>6, <1>7 DEF WellTold, Keeps, Settled
  <2>3. ASSUME NEW i \in DOMAIN sent'
        PROVE  /\ WellTold(sent'[i].meant) /\ Len(sent'[i].meant.calls) <= parsed' + i
               /\ Keeps(sent'[i].meant, Meant')
               /\ Adds(sent'[i].frame, Before(i)', sent'[i].meant)
    BY <1>1, <1>5, <2>1
  <2> QED
    BY <2>2, <2>3 DEF StoryTold
<1>10. Handed'
  <2>1. ASSUME NEW n \in DOMAIN calls
        PROVE  n \in DOMAIN to.calls /\ Settled(n, to) /\ Same(calls[n], to.calls[n], n)
    <3>1. n \in DOMAIN heard.calls /\ Settled(n, heard) /\ Same(calls[n], heard.calls[n], n)
      BY <1>3 DEF IInv, Handed, None
    <3> QED
      BY <1>3, <1>4, <1>8, <3>1, SettledStays
  <2> QED
    BY <1>1, <2>1 DEF Handed
<1>11. WireRead'
  BY <1>0, <1>1, <1>2, <1>3, <1>5 DEF IInv, TypeOK, WireRead, Position, None
<1>12. AllHanded'
  BY <1>2, <1>3 DEF AllHanded, None
<1>13. CASE f.kind # "tool"
  <2>1. /\ UNCHANGED <<acc, minted, queue>> /\ result' \in {result, "error"}
        /\ pc' \in {"returned", "head", "event", "exception"} /\ (pc' = "returned" <=> result' # None)
    BY <1>2, <1>3, <1>13 DEF None
  <2>2. heard' = heard
    BY <1>1, <1>7, <1>13 DEF Adds
  <2>3. TypeOK'
    BY <1>0, <1>1, <1>2, <1>3, <1>4, <1>5, <2>1 DEF IInv, TypeOK, Position, None
  <2>4. ParserPlaced'
    BY <1>1, <1>3, <2>1 DEF IInv, ParserPlaced, None
  <2>5. Waiting' /\ Gathered' /\ OwnIds'
    BY <1>1, <1>3, <2>1, <2>2, Untouched
  <2> QED
    BY <1>9, <1>10, <1>11, <1>12, <2>3, <2>4, <2>5 DEF IInv
<1>14. CASE f.kind = "tool"
  <2> DEFINE E == Extended(acc, f, Fresh)
             n == Len(to.calls)
             d == Len(calls)
  <2>1. Begins(f, heard, to) \/ Continues(f, heard, to)
    BY <1>7, <1>14 DEF Adds
  <2>2. /\ E \in Calls /\ E.id # Absent /\ E.id <= MaxFrames + MintedBy(f)
        /\ n \in Nat /\ n = d + First(acc, f) + 1
        /\ Same(E, to.calls[n], n) /\ (f.stop <=> n \in to.finished)
        /\ First(acc, f) = 1 => Same(acc, to.calls[n - 1], n - 1) /\ acc.id # E.id
        /\ \A m \in DOMAIN calls : calls[m].id # E.id
    BY <1>3, <1>4, <2>1, GatheredOn
  <2>3. /\ pc' = "callback" /\ queue' = Completed(acc, f, Fresh) /\ minted' = MintedBy(f) /\ result' = None
        /\ acc' = IF f.stop THEN Empty ELSE E
    BY <1>2, <1>3, <1>14 DEF Update
  <2>4. acc \in Calls /\ calls \in Seq(Calls) /\ d \in Nat
    BY DEF IInv, TypeOK
  <2>5. /\ queue' \in Seq(Calls) /\ Len(queue') = First(acc, f) + (IF f.stop THEN 1 ELSE 0)
        /\ First(acc, f) = 1 => queue'[1] = acc
        /\ f.stop => queue'[First(acc, f) + 1] = E
    BY <1>4, <2>2, <2>3, <2>4, CompletedIs
  <2>6. First(acc, f) \in {0, 1} /\ (First(acc, f) = 1 => acc.id # Absent)
    BY DEF First
  <2>7. MintedBy(f) \in {minted, minted + 1}
    BY DEF MintedBy
  <2> HIDE DEF E, n, d
  <2>8. DOMAIN queue' = 1..(First(acc, f) + (IF f.stop THEN 1 ELSE 0)) /\ DOMAIN calls = 1..d
    BY <2>4, <2>5 DEF d
  <2>9. ASSUME NEW j \in DOMAIN queue'
        PROVE  \/ First(acc, f) = 1 /\ j = 1 /\ queue'[j] = acc
               \/ f.stop /\ j = First(acc, f) + 1 /\ queue'[j] = E
    BY <2>5, <2>6, <2>8
  <2>10. TypeOK'
    BY <1>0, <1>1, <1>3, <1>4, <1>5, <2>2, <2>3, <2>5, <2>7, EmptyTyped DEF IInv, TypeOK, Position, None
  <2>11. ParserPlaced'
    BY <1>1, <1>3, <2>3, <2>7 DEF IInv, ParserPlaced, None
  <2>12. to.finished \subseteq 1..n /\ DOMAIN to.calls = 1..n /\ n = Len(to.calls)
    BY <1>4, <1>7, <2>2 DEF WellTold, Stories, n
  <2>13. Waiting'
    <3>1. ASSUME NEW j \in DOMAIN queue'
          PROVE  LET m == d + j
                 IN  m \in DOMAIN to.calls /\ Settled(m, to) /\ Same(queue'[j], to.calls[m], m)
      <4>1. CASE First(acc, f) = 1 /\ j = 1 /\ queue'[j] = acc
        BY <2>2, <2>4, <2>12, <4>1 DEF Settled
      <4>2. CASE f.stop /\ j = First(acc, f) + 1 /\ queue'[j] = E
        BY <2>2, <2>4, <2>6, <2>12, <4>2 DEF Settled
      <4> QED
        BY <2>9, <4>1, <4>2
    <3> QED
      BY <1>1, <3>1 DEF Waiting, d
  <2>14. Gathered'
    <3>1. CASE f.stop
      <4>1. acc' = Empty /\ n = d + Len(queue')
        BY <2>2, <2>3, <2>4, <2>5, <2>6, <3>1
      <4> QED
        BY <1>1, <2>2, <2>12, <3>1, <4>1, EmptyTyped DEF Gathered, d
    <3>2. CASE ~f.stop
      <4>1. acc' = E /\ n = d + Len(queue') + 1
        BY <2>2, <2>3, <2>4, <2>5, <2>6, <3>2
      <4> QED
        BY <1>1, <2>2, <2>12, <3>2, <4>1 DEF Gathered, d
    <3> QED
      BY <3>1, <3>2
  <2>15. OwnIds'
    <3>1. acc'.id = Absent \/ (acc'.id = E.id /\ ~f.stop)
      BY <2>3, EmptyTyped
    <3>2. \A id \in Nat : Issued(id) => Issued(id)'
      BY <1>3, <2>3, <2>7 DEF Issued
    <3>3. acc.id \in Nat /\ E.id \in Nat /\ \A m \in DOMAIN calls : calls[m].id \in Nat
      <4>1. \A m \in DOMAIN calls : calls[m] \in Calls
        BY <2>4, ElementOfSeq, <2>8 DEF d
      <4> QED
        BY <2>2, <2>4, <4>1 DEF Calls, CallIds
    <3>4. E.id # Absent /\ E.id <= MaxFrames + minted'
      BY <2>2, <2>3
    <3>5. \A m \in DOMAIN calls : Issued(calls[m].id)' /\ calls[m].id # Absent /\ calls[m].id # acc.id
                                  /\ calls[m].id # E.id
      BY <1>1, <2>2, <3>2, <3>3 DEF IInv, OwnIds, Issued
    <3>6. First(acc, f) = 1 => acc.id # Absent /\ acc.id <= MaxFrames + minted' /\ acc.id # E.id
      BY <1>3, <2>2, <2>3, <2>6, <2>7, <3>3 DEF IInv, OwnIds, Issued
    <3>7. ASSUME NEW j \in DOMAIN queue'
          PROVE  /\ queue'[j].id # Absent /\ queue'[j].id <= MaxFrames + minted' /\ queue'[j].id # acc'.id
                 /\ \A m \in DOMAIN calls : calls[m].id # queue'[j].id
      BY <2>9, <3>1, <3>4, <3>5, <3>6
    <3>8. ASSUME NEW i \in DOMAIN queue', NEW j \in DOMAIN queue', i # j PROVE queue'[i].id # queue'[j].id
      BY <2>9, <3>6, <3>8
    <3>9. \A m, k \in DOMAIN calls : m # k => calls[m].id # calls[k].id
      BY DEF IInv, OwnIds
    <3>10. \A m \in DOMAIN calls : calls[m].id # acc'.id
      BY <3>1, <3>5
    <3> QED
      BY <1>1, <3>1, <3>4, <3>5, <3>7, <3>8, <3>9, <3>10 DEF OwnIds, Issued
  <2> QED
    BY <1>9, <1>10, <1>11, <1>12, <2>10, <2>11, <2>13, <2>14, <2>15 DEF IInv
<1> QED
  BY <1>13, <1>14

----------------------------------------------------------------------------
\* A call is handed over.
LEMMA CallbackInv == IInv /\ Callback => IInv'
<1> SUFFICES ASSUME IInv, Callback PROVE IInv'
  OBVIOUS
<1>d. PICK d \in Nat : d = Len(calls)
  BY LenProperties DEF IInv, TypeOK
<1>0. PICK c : d = Len(calls) /\ c = Head(queue)
  BY <1>d
<1>1. /\ pc = "callback" /\ queue # <<>> /\ told' = told + 1 /\ calls' = Append(calls, c)
      /\ \/ stopped' = TRUE /\ queue' = <<>>
         \/ queue' = Tail(queue) /\ stopped' = stopped
      /\ UNCHANGED <<sent, heard, arriving, conn, cancelled, taken, buffered, fetch, got, parsed, need, pc, acc,
                     minted, result>>
  BY <1>0 DEF Callback, Tell, upstreamVars, wireVars, readerVars, frameVars
<1>2. /\ calls \in Seq(Calls) /\ queue \in Seq(Calls) /\ acc \in Calls /\ result = None /\ ~stopped
      /\ Len(queue) \in Nat /\ Len(queue) > 0 /\ DOMAIN calls = 1..d /\ DOMAIN queue = 1..Len(queue)
  <2>1. calls \in Seq(Calls) /\ queue \in Seq(Calls) /\ acc \in Calls /\ result = None /\ ~stopped
    BY <1>1 DEF IInv, TypeOK, ParserPlaced
  <2> QED
    BY <1>0, <1>1, <2>1, EmptySeq, LenProperties
<1>3. c = queue[1] /\ c \in Calls /\ 1 \in DOMAIN queue
  <2>1. 1 \in DOMAIN queue /\ c = queue[1]
    BY <1>0, <1>1, <1>2
  <2> QED
    BY <1>2, <2>1, ElementOfSeq
<1>4. /\ calls' \in Seq(Calls) /\ Len(calls') = d + 1 /\ DOMAIN calls' = 1..(d + 1)
      /\ \A n \in 1..d : calls'[n] = calls[n]
      /\ calls'[d + 1] = c
  BY <1>0, <1>1, <1>2, <1>3
<1>5. /\ queue' \in Seq(Calls) /\ \A j \in DOMAIN queue' : j + 1 \in DOMAIN queue /\ queue'[j] = queue[j + 1]
      /\ DOMAIN queue' \subseteq Nat
      /\ ~stopped' => Len(queue') = Len(queue) - 1
  <2>1. CASE queue' = <<>> /\ stopped' = TRUE
    BY <1>1, <2>1
  <2>2. CASE queue' = Tail(queue)
    <3>1. /\ Tail(queue) \in Seq(Calls) /\ Len(Tail(queue)) = Len(queue) - 1
          /\ \A j \in 1..Len(Tail(queue)) : Tail(queue)[j] = queue[j + 1]
      BY <1>1, <1>2, HeadTailProperties
    <3>2. DOMAIN queue' = 1..(Len(queue) - 1)
      BY <1>2, <2>2, <3>1, LenProperties
    <3> QED
      BY <1>2, <2>2, <3>1, <3>2
  <2> QED
    BY <1>1, <2>1, <2>2
<1>6. TypeOK' /\ WireRead' /\ ParserPlaced'
  <2>1. UNCHANGED <<sent, heard, arriving, conn, cancelled, taken, buffered, fetch, got, parsed, need, pc, acc,
                    minted, result>>
    BY <1>1
  <2>2. stopped' \in BOOLEAN /\ told' \in Nat /\ calls' \in Seq(Calls) /\ queue' \in Seq(Calls)
    <3>1. stopped \in BOOLEAN /\ told \in Nat
      BY DEF IInv, TypeOK
    <3>2. stopped' = TRUE \/ stopped' = stopped
      BY <1>1
    <3>3. stopped' \in BOOLEAN
      BY <3>1, <3>2
    <3>4. told' \in Nat
      BY <1>1, <3>1
    <3> QED
      BY <1>4, <1>5, <3>3, <3>4
  <2>3. stopped' => queue' = <<>>
    BY <1>1, <1>2
  <2>4. TypeOK'
    BY <2>1, <2>2 DEF IInv, TypeOK, Position
  <2>5. WireRead'
    BY <2>1 DEF IInv, WireRead, Position
  <2>6. ParserPlaced'
    BY <1>1, <2>1, <2>3 DEF IInv, ParserPlaced
  <2> QED
    BY <2>4, <2>5, <2>6
<1>8. StoryTold'
  BY <1>1, Untouched
<1>9. d + 1 \in DOMAIN heard.calls /\ Settled(d + 1, heard) /\ Same(c, heard.calls[d + 1], d + 1)
  BY <1>0, <1>3 DEF IInv, Waiting
<1>10. Handed'
  <2>1. ASSUME NEW n \in 1..(d + 1)
        PROVE  n \in DOMAIN heard.calls /\ Settled(n, heard) /\ Same(calls'[n], heard.calls[n], n)
    <3>1. CASE n = d + 1
      BY <1>4, <1>9, <3>1
    <3>2. CASE n \in 1..d
      BY <1>2, <1>4, <3>2 DEF IInv, Handed, None
    <3> QED
      BY <3>1, <3>2
  <2> QED
    BY <1>1, <1>4, <2>1 DEF Handed
<1>11. Waiting'
  <2>1. ASSUME NEW j \in DOMAIN queue'
        PROVE  LET n == Len(calls') + j
               IN  n \in DOMAIN heard.calls /\ Settled(n, heard) /\ Same(queue'[j], heard.calls[n], n)
    <3>1. Len(calls') + j = d + (j + 1) /\ j + 1 \in DOMAIN queue /\ queue'[j] = queue[j + 1]
      BY <1>4, <1>5
    <3> QED
      BY <1>0, <3>1 DEF IInv, Waiting
  <2> QED
    BY <1>1, <2>1 DEF Waiting
<1>12. Gathered'
  <2>1. ASSUME ~stopped' PROVE Len(calls') + Len(queue') = Len(calls) + Len(queue)
    <3>1. Len(queue') = Len(queue) - 1 /\ Len(calls') = d + 1 /\ Len(calls) = d /\ Len(queue) \in Nat
      BY <1>0, <1>2, <1>4, <1>5, <2>1
    <3> QED
      BY <3>1
  <2> QED
    BY <1>1, <1>2, <2>1 DEF IInv, Gathered
<1>13. AllHanded'
  BY <1>1, <1>2 DEF AllHanded, None
<1>14. OwnIds'
  <2>1. ASSUME NEW n \in DOMAIN calls'
        PROVE  /\ Issued(calls'[n].id) /\ calls'[n].id # acc.id
               /\ \A j \in DOMAIN queue' : calls'[n].id # queue'[j].id
               /\ \A m \in DOMAIN calls' : m # n => calls'[m].id # calls'[n].id
    <3>1. n \in 1..d \/ n = d + 1
      BY <1>0, <1>4
    <3>2. \A j \in DOMAIN queue' : j + 1 # 1
      BY <1>5
    <3>3. CASE n \in 1..d
      <4>1. \A m \in DOMAIN calls' : m # n => calls'[m].id # calls'[n].id
        <5>1. \A m \in 1..d : m # n => calls[m].id # calls[n].id
          BY <1>2, <3>3 DEF IInv, OwnIds
        <5>2. c.id # calls[n].id
          BY <1>2, <1>3, <3>3 DEF IInv, OwnIds
        <5> QED
          BY <1>4, <3>3, <5>1, <5>2
      <4>2. \A j \in DOMAIN queue' : calls[n].id # queue'[j].id
        BY <1>2, <1>5, <3>3 DEF IInv, OwnIds
      <4>3. calls'[n] = calls[n] /\ Issued(calls[n].id) /\ calls[n].id # acc.id
        BY <1>2, <1>4, <3>3 DEF IInv, OwnIds
      <4> QED
        BY <4>1, <4>2, <4>3
    <3>4. CASE n = d + 1
      <4>1. \A m \in DOMAIN calls' : m # n => calls'[m].id # c.id
        <5>1. \A m \in 1..d : calls[m].id # c.id
          BY <1>2, <1>3 DEF IInv, OwnIds
        <5> QED
          BY <1>4, <3>4, <5>1
      <4>2. \A j \in DOMAIN queue' : c.id # queue'[j].id
        BY <1>3, <1>5, <3>2 DEF IInv, OwnIds
      <4>3. calls'[n] = c /\ Issued(c.id) /\ c.id # acc.id
        BY <1>3, <1>4, <3>4 DEF IInv, OwnIds
      <4> QED
        BY <4>1, <4>2, <4>3
    <3> QED
      BY <3>1, <3>3, <3>4
  <2>2. ASSUME NEW j \in DOMAIN queue'
        PROVE  /\ Issued(queue'[j].id) /\ queue'[j].id # acc.id
               /\ \A i \in DOMAIN queue' : i # j => queue'[i].id # queue'[j].id
    <3>1. \A i \in DOMAIN queue' : i # j => i + 1 # j + 1
      BY <1>5
    <3> QED
      BY <1>5, <3>1 DEF IInv, OwnIds
  <2>3. acc.id # Absent => Issued(acc.id)
    BY DEF IInv, OwnIds
  <2> QED
    BY <1>1, <2>1, <2>2, <2>3 DEF OwnIds, Issued
<1> QED
  BY <1>6, <1>8, <1>10, <1>11, <1>12, <1>13, <1>14 DEF IInv

\* The end of the stream.
LEMMA AtEofInv == IInv /\ AtEof => IInv'
<1> SUFFICES ASSUME IInv, AtEof PROVE IInv'
  OBVIOUS
<1>0. PICK d \in Nat : d = Len(calls)
  BY LenProperties DEF IInv, TypeOK
<1>1. /\ pc = "flush" /\ calls' = calls \o Flush(acc) /\ told' = told + Len(Flush(acc)) /\ acc' = Empty
      /\ result' = "eof" /\ pc' = "returned"
      /\ UNCHANGED <<sent, heard, arriving, conn, cancelled, taken, buffered, fetch, got, parsed, need, minted,
                     queue, stopped>>
  BY DEF AtEof, Return, upstreamVars, wireVars, readerVars, frameVars
<1>2. /\ calls \in Seq(Calls) /\ acc \in Calls /\ result = None /\ ~stopped /\ queue = <<>>
      /\ DOMAIN calls = 1..d /\ Len(queue) = 0
  BY <1>0, <1>1, LenProperties DEF IInv, TypeOK, ParserPlaced
<1>3. Flush(acc) \in Seq(Calls) /\ Len(Flush(acc)) \in Nat
  BY <1>2 DEF Flush
<1>4. calls' \in Seq(Calls)
  BY <1>1, <1>2, <1>3, ConcatProperties
<1>5. TypeOK' /\ WireRead'
  BY <1>1, <1>3, <1>4, EmptyTyped DEF IInv, TypeOK, WireRead, Position, None
<1>6. ParserPlaced'
  BY <1>1, <1>2 DEF IInv, ParserPlaced, None
<1>7. StoryTold'
  BY <1>1, Untouched
<1>8. Waiting' /\ Gathered'
  BY <1>1, <1>2 DEF Waiting, Gathered, None
<1>9. \A n \in DOMAIN calls : /\ n \in DOMAIN heard.calls /\ Settled(n, heard)
                              /\ Same(calls[n], heard.calls[n], n)
  BY <1>2 DEF IInv, Handed, None
<1>10. CASE acc.id = Absent
  <2>1. calls' = calls
    BY <1>1, <1>2, <1>10, ConcatEmptySeq DEF Flush
  <2>2. Len(heard.calls) = d
    BY <1>0, <1>2, <1>10 DEF IInv, Gathered
  <2>3. Handed' /\ AllHanded'
    BY <1>0, <1>1, <1>9, <2>1, <2>2 DEF Handed, AllHanded
  <2>4. OwnIds'
    BY <1>1, <1>2, <1>10, <2>1, EmptyTyped DEF IInv, OwnIds, Issued
  <2> QED
    BY <1>5, <1>6, <1>7, <1>8, <2>3, <2>4 DEF IInv
<1>11. CASE acc.id # Absent
  <2>1. Flush(acc) = <<acc>>
    BY <1>11 DEF Flush
  <2>2. /\ Len(calls') = d + 1 /\ DOMAIN calls' = 1..(d + 1)
        /\ \A n \in 1..d : calls'[n] = calls[n]
        /\ calls'[d + 1] = acc
    <3>1. <<acc>> \in Seq(Calls) /\ Len(<<acc>>) = 1 /\ <<acc>>[1] = acc
      BY <1>2
    <3>2. /\ Len(calls') = d + 1
          /\ \A n \in 1..(d + 1) : calls'[n] = IF n <= d THEN calls[n] ELSE <<acc>>[n - d]
      BY <1>0, <1>1, <1>2, <2>1, <3>1, ConcatProperties
    <3>3. DOMAIN calls' = 1..(d + 1)
      BY <1>4, <3>2, LenProperties
    <3> QED
      BY <3>1, <3>2, <3>3
  <2>3. Len(heard.calls) = d + 1 /\ Same(acc, heard.calls[d + 1], d + 1)
    BY <1>0, <1>2, <1>11 DEF IInv, Gathered
  <2>4. d + 1 \in DOMAIN heard.calls
    BY <2>3, LenProperties DEF IInv, TypeOK, Stories
  <2>5. ASSUME NEW n \in 1..(d + 1)
        PROVE  /\ n \in DOMAIN heard.calls /\ Same(calls'[n], heard.calls[n], n)
               /\ Settled(n, heard) \/ n = d + 1
    <3>1. CASE n = d + 1
      BY <2>2, <2>3, <2>4, <3>1
    <3>2. CASE n \in 1..d
      BY <1>2, <1>9, <2>2, <3>2
    <3> QED
      BY <3>1, <3>2
  <2>6. Handed' /\ AllHanded'
    BY <1>1, <2>2, <2>3, <2>5 DEF Handed, AllHanded
  <2>7. ASSUME NEW n \in DOMAIN calls'
        PROVE  /\ Issued(calls'[n].id) /\ calls'[n].id # Absent
               /\ \A m \in DOMAIN calls' : m # n => calls'[m].id # calls'[n].id
    <3>1. \A m \in DOMAIN calls' : (m \in 1..d /\ calls'[m] = calls[m]) \/ (m = d + 1 /\ calls'[m] = acc)
      BY <2>2
    <3> QED
      BY <1>2, <1>11, <2>2, <3>1 DEF IInv, OwnIds, Issued
  <2>8. OwnIds'
    BY <1>1, <1>2, <2>7, EmptyTyped DEF OwnIds, Issued
  <2> QED
    BY <1>5, <1>6, <1>7, <1>8, <2>6, <2>8 DEF IInv
<1> QED
  BY <1>10, <1>11

----------------------------------------------------------------------------
LEMMA NextIInv == IInv /\ [Next]_vars => IInv'
<1> SUFFICES ASSUME IInv, [Next]_vars PROVE IInv'
  OBVIOUS
<1>1. CASE UNCHANGED vars
  <2>1. UNCHANGED <<sent, heard, arriving, conn, cancelled, taken, buffered, fetch, got, parsed, need, pc, acc,
                    minted, queue, stopped, told, calls, result>>
    BY <1>1 DEF vars, upstreamVars, wireVars, readerVars, frameVars, parserVars, outcomeVars
  <2>2. TypeOK' /\ WireRead' /\ ParserPlaced'
    BY <2>1 DEF IInv, TypeOK, WireRead, ParserPlaced, Position
  <2> QED
    BY <2>1, <2>2, Untouched DEF IInv
<1>2. CASE Next
  BY <1>2, WireInv, LoopInv, UpstreamInv, DecodeInv, CallbackInv, AtEofInv DEF Next, Upstream, Parser
<1> QED
  BY <1>1, <1>2

\* The inductive invariant, for any number of frames and pieces.
THEOREM StreamInvariance == Spec => []IInv
BY InitIInv, NextIInv, PTL DEF Spec

\* Every variable of the parser, the reader and the wire keeps its type, and no
\* part is parsed before it was received, or received before it was sent.
THEOREM StreamTypeOK == Spec => []TypeOK
BY StreamInvariance, PTL DEF IInv

\* The calls the callback gets are the upstream's.
THEOREM StreamCallsIntact == Spec => []CallsIntact
<1>1. IInv => CallsIntact
  <2> SUFFICES ASSUME IInv PROVE CallsIntact
    OBVIOUS
  <2>1. ASSUME NEW n \in DOMAIN calls
        PROVE  /\ n \in DOMAIN Meant.calls
               /\ Same(calls[n], Meant.calls[n], n) \/ (TakenForEnd /\ n = Len(calls))
    <3>1. /\ n \in DOMAIN heard.calls /\ Same(calls[n], heard.calls[n], n)
          /\ Settled(n, heard) \/ (result = "eof" /\ n = Len(calls))
      BY DEF IInv, Handed
    <3>2. n \in DOMAIN Meant.calls
      <4>1. Meant \in Stories /\ heard \in Stories /\ Keeps(heard, Meant)
        BY MeantFacts DEF IInv, TypeOK, StoryTold
      <4>2. DOMAIN heard.calls = 1..Len(heard.calls) /\ DOMAIN Meant.calls = 1..Len(Meant.calls)
            /\ Len(heard.calls) \in Nat /\ Len(Meant.calls) \in Nat
        BY <4>1, LenProperties DEF Stories
      <4> QED
        BY <3>1, <4>1, <4>2 DEF Keeps
    <3>3. CASE Settled(n, heard)
      BY <3>1, <3>2, <3>3 DEF IInv, StoryTold, Keeps
    <3>4. CASE result = "eof" /\ n = Len(calls) /\ conn = "ended"
      BY <3>1, <3>2, <3>4 DEF IInv, ParserPlaced, Meant
    <3> QED
      BY <3>1, <3>2, <3>3, <3>4 DEF TakenForEnd
  <2> QED
    BY <2>1 DEF CallsIntact, IInv, OwnIds
<1> QED
  BY <1>1, StreamInvariance, PTL

\* The proper end of an answer loses no call.
THEOREM StreamEndLosesNoCall == Spec => []EndLosesNoCall
<1>1. IInv => EndLosesNoCall
  BY DEF IInv, ParserPlaced, AllHanded, Meant, EndLosesNoCall
<1> QED
  BY <1>1, StreamInvariance, PTL

\* Nothing is handed over before it is complete.
THEOREM StreamOnlyCompleteCalls == Spec => []OnlyCompleteCalls
<1>1. IInv => OnlyCompleteCalls
  <2> SUFFICES ASSUME IInv, NEW n \in DOMAIN calls, result # "eof"
               PROVE  n \in Meant.finished \/ n < Len(Meant.calls)
    BY DEF OnlyCompleteCalls
  <2>1. n \in DOMAIN heard.calls /\ Settled(n, heard)
    BY DEF IInv, Handed
  <2>2. Meant \in Stories /\ heard \in Stories /\ Keeps(heard, Meant)
    BY MeantFacts DEF IInv, TypeOK, StoryTold
  <2>3. Settled(n, Meant)
    BY <2>1, <2>2, SettledStays
  <2> QED
    BY <2>3 DEF Settled
<1> QED
  BY <1>1, StreamInvariance, PTL

\* A callback that said stop is not called again.
THEOREM StreamStopRespected == Spec => StopRespected
<1>1. IInv /\ [Next]_vars => [stopped => UNCHANGED <<told, calls>>]_vars
  <2> SUFFICES ASSUME IInv, Next, stopped PROVE UNCHANGED <<told, calls>>
    OBVIOUS
  <2>1. pc \in {"callback", "returned"} /\ queue = <<>>
    BY DEF IInv, ParserPlaced
  <2>2. ~Event /\ ~Exception /\ ~Callback /\ ~AtEof
    BY <2>1 DEF Event, Exception, Callback, Tell, AtEof
  <2>3. CASE Upstream \/ Cancel \/ Fetch
    <3>1. \A f, meant : Put(f, meant) => UNCHANGED <<told, calls>>
      BY DEF Put, outcomeVars
    <3>2. CASE SendOther \/ BeginCall \/ ContinueCall
      BY <3>1, <3>2 DEF SendOther, BeginCall, ContinueCall
    <3>3. CASE End \/ Break \/ Cancel \/ Fetch
      BY <3>3 DEF End, Break, Cancel, Fetch, outcomeVars
    <3> QED
      BY <2>3, <3>2, <3>3 DEF Upstream
  <2>4. CASE Timeout \/ Receive \/ NextFrame \/ Read \/ Prelude \/ Decode \/ FrameDone
    BY <2>4 DEF Timeout, Receive, NextFrame, Read, Prelude, Decode, FrameDone, outcomeVars
  <2> QED
    BY <2>2, <2>3, <2>4 DEF Next, Parser
<1> QED
  BY <1>1, StreamInvariance, PTL DEF Spec, StopRespected
=============================================================================
