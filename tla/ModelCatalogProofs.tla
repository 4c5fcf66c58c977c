------------------------- MODULE ModelCatalogProofs -------------------------
(***************************************************************************)
(* Proofs about ModelCatalog: for any overrides, any catalog and whenever  *)
(* it arrives, the effort of a request is one its model accepts, and what  *)
(* the built-in table and the environment spell out keeps its route.       *)
(***************************************************************************)
EXTENDS ModelCatalog, SequenceTheorems, WellFoundedInduction, TLAPS

RequestPCs == {"resolved", "unforced", "unasked", "sent"}

\* The rows and levels there may be.  The literals are named because the
\* provers do not know a literal for a member of STRING.
Words == STRING \cup {"", "none", "low", "medium", "high", "xhigh", "max"}
TableRows == [anthropic : [stem : STRING, suffix : {"", "[1m]", "[1M]"}], kiro : STRING, kiro1M : Words,
              window : Int, named : BOOLEAN]

CatalogTyped ==
    /\ overrides \in Seq(TableRows) /\ mappings \in Seq(TableRows)
    /\ pending \in BOOLEAN
    /\ \A sku \in DOMAIN efforts : efforts[sku] \in Seq(Words)
    /\ call.pc \in RequestPCs \cup {"idle", "listing", "told"}
    /\ call.pc = "listing" => call = [pc |-> "listing", rows |-> call.rows]
    /\ call.pc \in RequestPCs =>
          call = [pc |-> call.pc, sku |-> call.sku, echo |-> call.echo, wants |-> call.wants, off |-> call.off,
                  asked |-> call.asked, budget |-> call.budget, levels |-> call.levels, effort |-> call.effort,
                  meant |-> call.meant]

\* The catalog is installed once, into an empty one.
InstalledOnce == pending => mappings = <<>> /\ efforts = <<>>

\* The levels a model had when the request came are still its levels.
LevelsKept == call.pc \in RequestPCs /\ call.levels # <<>> => Levels(call.sku) = call.levels

\* A reasoning model with thinking turned off never gets as far as a default.
OffIsSettled == call.pc = "unasked" => ~(IsReasoningModel(call.sku) /\ call.off)

CatalogInv == CatalogTyped /\ InstalledOnce /\ LevelsKept /\ OffIsSettled /\ EffortAsIntended

-----------------------------------------------------------------------------
LEMMA LevelsType == CatalogTyped => \A sku : Levels(sku) \in Seq(Words)
<1> SUFFICES ASSUME CatalogTyped, NEW sku PROVE Levels(sku) \in Seq(Words)
  OBVIOUS
<1>1. CASE sku \in {"claude-opus-5", "claude-opus-4.8"}
  <2>1. Levels(sku) = <<"low", "medium", "high", "xhigh", "max">>
    BY <1>1 DEF Levels, EffortCapabilities, Ranked
  <2> QED
    BY <2>1 DEF Words
<1>2. CASE sku \in {"claude-sonnet-4.6", "claude-sonnet-4.6-1m"}
  <2>1. Levels(sku) = <<"low", "medium", "high", "max">>
    BY <1>2 DEF Levels, EffortCapabilities
  <2> QED
    BY <2>1 DEF Words
<1>3. CASE sku = "gpt-5.6-sol"
  <2>1. Levels(sku) = <<"none", "low", "medium", "high", "xhigh", "max">>
    BY <1>3 DEF Levels, EffortCapabilities
  <2> QED
    BY <2>1 DEF Words
<1>4. CASE sku = "auto"
  <2>1. Levels(sku) = <<>>
    BY <1>4 DEF Levels, EffortCapabilities
  <2> QED
    BY <2>1
<1>5. CASE sku \notin DOMAIN EffortCapabilities
  BY <1>5 DEF Levels, CatalogTyped
<1>6. DOMAIN EffortCapabilities = {"claude-opus-5", "claude-opus-4.8", "claude-sonnet-4.6",
                                   "claude-sonnet-4.6-1m", "gpt-5.6-sol", "auto"}
  BY DEF EffortCapabilities
<1> QED
  BY <1>1, <1>2, <1>3, <1>4, <1>5, <1>6

LEMMA RankedRange == Range(Ranked) = {"low", "medium", "high", "xhigh", "max"}
<1>1. DOMAIN Ranked = {1, 2, 3, 4, 5}
  BY DEF Ranked
<1> QED
  BY <1>1 DEF Ranked, Range

LEMMA LastInRange ==
    ASSUME NEW levels \in Seq(Words), levels # <<>>
    PROVE  Last(levels) \in Range(levels)
<1>1. Len(levels) \in DOMAIN levels
  BY LenProperties, EmptySeq
<1> QED
  BY <1>1 DEF Last, Range

\* What is sent is a level of the model or nothing, and something if what was
\* asked for is a level at all.
LEMMA EffortValid ==
    ASSUME CatalogTyped, NEW sku, NEW requested
    PROVE  /\ ResolveEffort(sku, requested) \in {""} \cup Range(Levels(sku))
           /\ Levels(sku) # <<>> /\ requested \in Range(Ranked) =>
                 ResolveEffort(sku, requested) \in Range(Levels(sku))
<1>1. Levels(sku) # <<>> => Last(Levels(sku)) \in Range(Levels(sku))
  BY LevelsType, LastInRange
<1> QED
  BY <1>1 DEF ResolveEffort

LEMMA NoneOfReasoning ==
    ASSUME NEW sku, IsReasoningModel(sku)
    PROVE  ResolveEffort(sku, "none") = "none"
<1>1. Levels(sku) = <<"none", "low", "medium", "high", "xhigh", "max">>
  BY DEF IsReasoningModel, Levels, EffortCapabilities
<1>2. Levels(sku)[1] = "none" /\ 1 \in DOMAIN Levels(sku)
  BY <1>1
<1> QED
  BY <1>2 DEF ResolveEffort, Range

-----------------------------------------------------------------------------
(***************************************************************************)
(* Discovery                                                               *)
(***************************************************************************)
LEMMA MappingsOfType ==
    ASSUME NEW model \in [id : Stems, maxInput : Int, enum : Seq(STRING)]
    PROVE  MappingsOf(model) \in Seq(TableRows)
<1>1. model.id \in STRING /\ model.maxInput \in Int
  BY CatalogConstants
<1>2. CASE model.id \notin ClaudeStems
  BY <1>2 DEF MappingsOf
<1>3. CASE model.id \in ClaudeStems
  <2>1. Dashed[model.id] \in STRING
    BY <1>3, CatalogConstants
  <2>2. \A suffix \in {"", "[1m]"}, kiro1M \in Words, named \in BOOLEAN :
           Mapping(Id(Dashed[model.id], suffix), model.id, kiro1M, model.maxInput, named) \in TableRows
    BY <1>1, <2>1 DEF Mapping, Id, TableRows
  <2>3. "" \in Words /\ model.id \in Words
    BY <1>1 DEF Words
  <2>4. \A first, second \in TableRows : <<first, second>> \in Seq(TableRows) /\ <<first>> \in Seq(TableRows)
    OBVIOUS
  <2> DEFINE row(suffix, kiro1M, named) ==
               Mapping(Id(Dashed[model.id], suffix), model.id, kiro1M, model.maxInput, named)
  <2>5. /\ row("[1m]", model.id, TRUE) \in TableRows
        /\ row("", model.id, FALSE) \in TableRows
        /\ row("", "", FALSE) \in TableRows
    BY <2>2, <2>3
  <2>6. \/ MappingsOf(model) = <<row("[1m]", model.id, TRUE), row("", model.id, FALSE)>>
        \/ MappingsOf(model) = <<row("", "", FALSE)>>
    BY <1>3 DEF MappingsOf
  <2> HIDE DEF row
  <2> QED
    BY <2>4, <2>5, <2>6
<1> QED
  BY <1>2, <1>3

LEMMA Least ==
    ASSUME NEW numbers, numbers \subseteq Nat, numbers # {}
    PROVE  \E n \in numbers : \A m \in numbers : n <= m
<1> DEFINE R == OpToRel(<, Nat)
<1>1. IsWellFoundedOn(R, Nat)
  BY NatLessThanWellFounded
<1>2. \A m, n \in Nat : m < n => <<m, n>> \in R
  BY DEF OpToRel
<1> HIDE DEF R
<1>3. PICK n \in numbers : \A m \in numbers : ~(<<m, n>> \in R)
  BY <1>1, WFMin
<1>4. \A m \in numbers : ~(m < n)
  BY <1>2, <1>3
<1> QED
  BY <1>4

LEMMA Induction ==
    ASSUME NEW S, 0 \in S, \A n \in Nat : n \in S => n + 1 \in S
    PROVE  Nat \subseteq S
<1> SUFFICES ASSUME ~(Nat \subseteq S) PROVE FALSE
  OBVIOUS
<1> DEFINE rest == Nat \ S
<1>1. PICK n \in rest : \A m \in rest : n <= m
  BY Least
<1>2. n - 1 \in Nat /\ n - 1 \notin rest
  BY <1>1
<1> QED
  BY <1>1, <1>2

\* f holds the first n of the partial concatenations.
Partial(f, n, seqs) == f = [i \in 1..n |-> IF i = 1 THEN seqs[i] ELSE f[i - 1] \o seqs[i]]

LEMMA PartialIs ==
    ASSUME NEW seqs, NEW n \in Nat, NEW f, Partial(f, n, seqs), NEW i \in 1..n
    PROVE  f[i] = IF i = 1 THEN seqs[i] ELSE f[i - 1] \o seqs[i]
  BY DEF Partial

LEMMA PartialExtends ==
    ASSUME NEW seqs, NEW n \in Nat, NEW f, Partial(f, n, seqs)
    PROVE  \E g : Partial(g, n + 1, seqs)
<1> DEFINE more == IF n = 0 THEN seqs[1] ELSE f[n] \o seqs[n + 1]
           g == [i \in 1..n + 1 |-> IF i = n + 1 THEN more ELSE f[i]]
           h == [i \in 1..n + 1 |-> IF i = 1 THEN seqs[i] ELSE g[i - 1] \o seqs[i]]
<1>1. ASSUME NEW i \in 1..n + 1 PROVE g[i] = h[i]
  <2>1. CASE i = n + 1 /\ n = 0
    BY <2>1
  <2>2. CASE i = n + 1 /\ n # 0
    <3>1. g[n] = f[n] /\ g[n + 1] = f[n] \o seqs[n + 1]
      <4>1. more = f[n] \o seqs[n + 1]
        BY <2>2
      <4>2. n \in 1..n + 1 /\ n # n + 1 /\ n + 1 \in 1..n + 1
        BY <2>2
      <4> HIDE DEF more
      <4> QED
        BY <4>1, <4>2
    <3> HIDE DEF g
    <3>2. h[n + 1] = g[n] \o seqs[n + 1]
      <4>1. n + 1 \in 1..n + 1 /\ n + 1 # 1 /\ (n + 1) - 1 = n
        BY <2>2
      <4> QED
        BY <4>1
    <3> QED
      BY <2>2, <3>1, <3>2
  <2>3. CASE i \in 1..n
    <3>1. g[i] = f[i] /\ (i # 1 => g[i - 1] = f[i - 1])
      BY <2>3
    <3>2. f[i] = IF i = 1 THEN seqs[i] ELSE f[i - 1] \o seqs[i]
      BY <2>3, PartialIs
    <3> HIDE DEF g
    <3> QED
      BY <2>3, <3>1, <3>2
  <2> QED
    BY <2>1, <2>2, <2>3
<1>2. g = h
  <2> HIDE DEF more
  <2>1. DOMAIN g = 1..n + 1 /\ g = [i \in 1..n + 1 |-> g[i]]
    OBVIOUS
  <2>2. h = [i \in 1..n + 1 |-> h[i]]
    OBVIOUS
  <2> HIDE DEF g, h
  <2> QED
    BY <1>1, <2>1, <2>2
<1>3. Partial(g, n + 1, seqs)
  <2> HIDE DEF g
  <2> QED
    BY <1>2 DEF Partial
<1> QED
  BY <1>3

\* Putting sequences together gives a sequence: first that the partial
\* concatenations exist, then that each is one.
LEMMA FlattenType ==
    ASSUME NEW S, NEW seqs \in Seq(Seq(S))
    PROVE  FlattenSeq(seqs) \in Seq(S)
<1> DEFINE Solved == {n \in Nat : \E f : Partial(f, n, seqs)}
<1>0. PICK N \in Nat : N = Len(seqs)
  BY LenProperties
<1>1. DOMAIN seqs = 1..N /\ \A i \in 1..N : seqs[i] \in Seq(S)
  BY <1>0, LenProperties, ElementOfSeq
<1>2. Nat \subseteq Solved
  <2>1. 0 \in Solved
    <3>1. Partial([i \in {} |-> 0], 0, seqs)
      BY DEF Partial
    <3> QED
      BY <3>1
  <2>2. ASSUME NEW n \in Nat, n \in Solved PROVE n + 1 \in Solved
    BY <2>2, PartialExtends
  <2> HIDE DEF Solved
  <2> QED
    BY <2>1, <2>2, Induction
<1>3. CASE N = 0
  <2>1. seqs = <<>>
    BY <1>0, <1>3, EmptySeq
  <2> QED
    BY <2>1 DEF FlattenSeq
<1>4. CASE N # 0
  <2> DEFINE flat == CHOOSE f : Partial(f, N, seqs)
  <2>1. Partial(flat, N, seqs)
    BY <1>1, <1>2
  <2>0. \A i \in 1..N : flat[i] = IF i = 1 THEN seqs[i] ELSE flat[i - 1] \o seqs[i]
    <3> HIDE DEF flat
    <3> QED
      BY <2>1, <1>1, PartialIs
  <2>2. FlattenSeq(seqs) = flat[N]
    BY <1>0, <1>4 DEF FlattenSeq, Partial
  <2> HIDE DEF flat
  <2> DEFINE Good == {n \in Nat : n + 1 <= N => flat[n + 1] \in Seq(S)}
  <2>3. 0 \in Good
    BY <2>0, <1>1
  <2>4. ASSUME NEW n \in Nat, n \in Good PROVE n + 1 \in Good
    <3> SUFFICES ASSUME n + 2 <= N PROVE flat[n + 2] \in Seq(S)
      OBVIOUS
    <3>1. flat[n + 2] = flat[n + 1] \o seqs[n + 2]
      <4>1. n + 2 \in 1..N /\ n + 2 # 1 /\ (n + 2) - 1 = n + 1
        BY <1>1
      <4>2. flat[n + 2] = IF n + 2 = 1 THEN seqs[n + 2] ELSE flat[(n + 2) - 1] \o seqs[n + 2]
        BY <4>1, <2>0
      <4> QED
        BY <4>1, <4>2
    <3>2. flat[n + 1] \in Seq(S) /\ seqs[n + 2] \in Seq(S)
      BY <2>4, <1>1
    <3> QED
      BY <3>1, <3>2, ConcatProperties
  <2> HIDE DEF Good
  <2>5. Nat \subseteq Good
    BY <2>3, <2>4, Induction
  <2>6. PICK m \in Nat : m + 1 = N
    <3>1. N - 1 \in Nat /\ (N - 1) + 1 = N
      BY <1>1, <1>4
    <3> QED
      BY <3>1
  <2>7. flat[N] \in Seq(S)
    <3>1. m \in Good
      BY <2>5
    <3> QED
      BY <2>6, <3>1, <1>1 DEF Good
  <2> QED
    BY <2>2, <2>7
<1> QED
  BY <1>3, <1>4

LEMMA SetCatalogType ==
    ASSUME NEW discovered \in Catalogs, SetCatalog(discovered)
    PROVE  /\ mappings' \in Seq(TableRows)
           /\ \A sku \in DOMAIN efforts' : efforts'[sku] \in Seq(Words)
<1>0. PICK n \in Nat : n = Len(discovered)
  BY CatalogConstants, LenProperties
<1>1. /\ DOMAIN discovered = 1..n
      /\ \A i \in 1..n : discovered[i] \in [id : Stems, maxInput : Int, enum : Seq(STRING)]
  BY <1>0, CatalogConstants, LenProperties, ElementOfSeq
<1>2. mappings' \in Seq(TableRows)
  <2> DEFINE each == [i \in DOMAIN discovered |-> MappingsOf(discovered[i])]
  <2>1. \A i \in 1..n : MappingsOf(discovered[i]) \in Seq(TableRows)
    BY <1>1, MappingsOfType
  <2>2. each \in Seq(Seq(TableRows))
    BY <1>1, <2>1
  <2>3. mappings' = FlattenSeq(each)
    BY DEF SetCatalog
  <2> QED
    BY <2>2, <2>3, FlattenType
<1>3. ASSUME NEW sku \in DOMAIN efforts' PROVE efforts'[sku] \in Seq(Words)
  <2> DEFINE graded == {i \in DOMAIN discovered : discovered[i].id \in ClaudeStems /\ discovered[i].enum # <<>>}
  <2>1. efforts' = [id \in {discovered[i].id : i \in graded} |->
                      discovered[CHOOSE i \in graded : discovered[i].id = id].enum]
    BY DEF SetCatalog
  <2>2. \E i \in graded : discovered[i].id = sku
    BY <1>3, <2>1
  <2>3. PICK j \in graded : efforts'[sku] = discovered[j].enum
    BY <2>1, <2>2
  <2>4. discovered[j].enum \in Seq(STRING)
    BY <1>1
  <2>5. discovered[j].enum \in Seq(Words)
    <3>1. PICK m \in Nat : discovered[j].enum \in [1..m -> STRING]
      BY <2>4, LenProperties
    <3>2. discovered[j].enum \in [1..m -> Words]
      BY <3>1 DEF Words
    <3> QED
      BY <3>2
  <2> QED
    BY <2>3, <2>5
<1> QED
  BY <1>2, <1>3

-----------------------------------------------------------------------------
(***************************************************************************)
(* Efforts                                                                 *)
(***************************************************************************)
\* What a step of a request may do to the record of its call.
LEMMA CallSteps ==
    ASSUME CatalogTyped, call.pc \in RequestPCs, NEW pc \in RequestPCs, NEW effort,
           \/ call' = [call EXCEPT !.pc = pc]
           \/ call' = [call EXCEPT !.pc = pc, !.effort = effort]
    PROVE  /\ call'.pc = pc /\ call'.effort \in {call.effort, effort}
           /\ call' = [call EXCEPT !.pc = pc, !.effort = effort] => call'.effort = effort
           /\ call'.sku = call.sku /\ call'.wants = call.wants /\ call'.off = call.off
           /\ call'.asked = call.asked /\ call'.budget = call.budget /\ call'.levels = call.levels
           /\ call' = [pc |-> call'.pc, sku |-> call'.sku, echo |-> call'.echo, wants |-> call'.wants,
                       off |-> call'.off, asked |-> call'.asked, budget |-> call'.budget,
                       levels |-> call'.levels, effort |-> call'.effort, meant |-> call'.meant]
<1>1. call = [pc |-> call.pc, sku |-> call.sku, echo |-> call.echo, wants |-> call.wants, off |-> call.off,
              asked |-> call.asked, budget |-> call.budget, levels |-> call.levels, effort |-> call.effort,
              meant |-> call.meant]
  BY DEF CatalogTyped
<1> QED
  BY <1>1

LEMMA InitInv == Init => CatalogInv
<1> SUFFICES ASSUME Init PROVE CatalogInv
  OBVIOUS
<1>1. PICK raw \in OverrideChoices : overrides = EnvMappings(raw)
  BY DEF Init
<1>2. overrides \in Seq(TableRows)
  <2>0. raw \in Seq(Rows)
    BY CatalogConstants
  <2>1. PICK n \in Nat : n = Len(raw)
    BY <2>0, LenProperties
  <2>2. DOMAIN raw = 1..n /\ \A i \in 1..n : raw[i] \in Rows
    BY <2>0, <2>1, LenProperties, ElementOfSeq
  <2>3. \A row \in Rows : [row EXCEPT !.anthropic = NormalizeSuffix(@)] \in TableRows
    BY DEF Rows, TableRows, Words, NormalizeSuffix
  <2>4. EnvMappings(raw) = [i \in 1..n |-> [raw[i] EXCEPT !.anthropic = NormalizeSuffix(@)]]
    BY <2>2 DEF EnvMappings
  <2> QED
    BY <1>1, <2>2, <2>3, <2>4
<1>3. call.pc = "idle" /\ mappings = <<>> /\ efforts = <<>> /\ pending = TRUE
  BY DEF Init, Idle
<1>4. CatalogTyped
  BY <1>2, <1>3 DEF CatalogTyped, RequestPCs
<1> QED
  BY <1>3, <1>4 DEF CatalogInv, InstalledOnce, LevelsKept, OffIsSettled, EffortAsIntended, RequestPCs

\* Discovery gives levels to models that had none, and changes no others.
LEMMA DiscoveredLevels ==
    ASSUME CatalogInv, Discovered
    PROVE  \A sku : Levels(sku) # <<>> => Levels(sku)' = Levels(sku)
  BY DEF CatalogInv, InstalledOnce, Discovered, Levels

LEMMA DiscoveredInv == CatalogInv /\ Discovered => CatalogInv'
<1> SUFFICES ASSUME CatalogInv, Discovered PROVE CatalogInv'
  OBVIOUS
<1>1. /\ mappings' \in Seq(TableRows) /\ \A sku \in DOMAIN efforts' : efforts'[sku] \in Seq(Words)
      /\ pending' = FALSE /\ UNCHANGED <<overrides, forced, call>>
  BY SetCatalogType DEF Discovered
<1>2. CatalogTyped' /\ InstalledOnce' /\ OffIsSettled'
  BY <1>1 DEF CatalogInv, CatalogTyped, InstalledOnce, OffIsSettled
<1>3. LevelsKept'
  BY <1>1, DiscoveredLevels DEF CatalogInv, LevelsKept
<1>4. EffortAsIntended'
  <2> SUFFICES ASSUME call.pc = "sent" PROVE EffortAsIntended'
    BY <1>1 DEF EffortAsIntended
  <2>1. EffortAsIntended /\ LevelsKept /\ CatalogTyped
    BY DEF CatalogInv
  <2>2. CASE Levels(call.sku) = <<>>
    <3>1. Range(Levels(call.sku)) = {}
      BY <2>2 DEF Range
    <3>2. call.levels = <<>>
      BY <2>1, <2>2 DEF LevelsKept, RequestPCs
    <3> QED
      BY <1>1, <2>1, <3>1, <3>2 DEF EffortAsIntended
  <2>3. CASE Levels(call.sku) # <<>>
    <3>1. Levels(call.sku)' = Levels(call.sku)
      BY <1>1, <2>3, DiscoveredLevels
    <3> QED
      BY <1>1, <2>1, <3>1 DEF EffortAsIntended
  <2> QED
    BY <2>2, <2>3
<1> QED
  BY <1>2, <1>3, <1>4 DEF CatalogInv

\* A step of one request with the catalog as it is.
LEMMA CallMoves ==
    ASSUME CatalogInv, ServerStep, call.pc \in RequestPCs, NEW pc \in RequestPCs, NEW effort,
           \/ call' = [call EXCEPT !.pc = pc]
           \/ call' = [call EXCEPT !.pc = pc, !.effort = effort],
           pc = "unasked" => ~(IsReasoningModel(call.sku) /\ call.off),
           pc = "sent" =>
              /\ call' = [call EXCEPT !.pc = pc, !.effort = effort]
              /\ effort \in {""} \cup Range(Levels(call.sku))
              /\ IsReasoningModel(call.sku) /\ call.off => effort = "none"
              /\ (call.wants /\ call.asked = "" /\ call.levels # <<>> /\ ~IsReasoningModel(call.sku))
                    => effort \in Range(Levels(call.sku))
    PROVE  CatalogInv'
<1>1. UNCHANGED <<overrides, forced, mappings, efforts, pending>>
  BY DEF ServerStep
<1>3. CatalogTyped /\ LevelsKept /\ InstalledOnce
  BY DEF CatalogInv
<1>4. /\ call'.pc = pc /\ call'.effort \in {call.effort, effort}
      /\ call' = [call EXCEPT !.pc = pc, !.effort = effort] => call'.effort = effort
      /\ call'.sku = call.sku /\ call'.wants = call.wants /\ call'.off = call.off
      /\ call'.asked = call.asked /\ call'.budget = call.budget /\ call'.levels = call.levels
      /\ call' = [pc |-> call'.pc, sku |-> call'.sku, echo |-> call'.echo, wants |-> call'.wants,
                  off |-> call'.off, asked |-> call'.asked, budget |-> call'.budget,
                  levels |-> call'.levels, effort |-> call'.effort, meant |-> call'.meant]
  BY <1>3, CallSteps
<1>5. CatalogTyped' /\ InstalledOnce'
  BY <1>1, <1>3, <1>4 DEF CatalogTyped, InstalledOnce, RequestPCs
<1>6. LevelsKept' /\ OffIsSettled'
  <2>1. Levels(call.sku)' = Levels(call.sku)
    BY <1>1, <1>4 DEF Levels
  <2> QED
    BY <1>3, <1>4, <2>1 DEF LevelsKept, OffIsSettled
<1>7. EffortAsIntended'
  <2>1. Levels(call.sku)' = Levels(call.sku)
    BY <1>1, <1>4 DEF Levels
  <2> QED
    BY <1>4, <2>1 DEF EffortAsIntended
<1> QED
  BY <1>5, <1>6, <1>7 DEF CatalogInv

LEMMA ForceEffortInv == CatalogInv /\ ForceEffort => CatalogInv'
<1> SUFFICES ASSUME CatalogInv, ForceEffort PROVE CatalogInv'
  OBVIOUS
<1>1. call.pc = "resolved" /\ ServerStep /\ CatalogTyped
  BY DEF ForceEffort, CatalogInv
<1> DEFINE effort == ResolveEffort(call.sku, forced)
<1>2. CASE forced # "" /\ ~call.off /\ effort # ""
  <2>1. call' = [call EXCEPT !.pc = "sent", !.effort = effort]
    BY <1>2 DEF ForceEffort, SendWith
  <2>2. effort \in Range(Levels(call.sku))
    BY <1>1, <1>2, EffortValid
  <2> HIDE DEF effort
  <2> QED
    BY <1>1, <1>2, <2>1, <2>2, CallMoves DEF RequestPCs
<1>3. CASE ~(forced # "" /\ ~call.off /\ effort # "")
  <2>1. call' = [call EXCEPT !.pc = "unforced"]
    BY <1>3 DEF ForceEffort
  <2> QED
    BY <1>1, <2>1, CallMoves DEF RequestPCs
<1> QED
  BY <1>2, <1>3

LEMMA AskedEffortInv == CatalogInv /\ AskedEffort => CatalogInv'
<1> SUFFICES ASSUME CatalogInv, AskedEffort PROVE CatalogInv'
  OBVIOUS
<1>1. call.pc = "unforced" /\ ServerStep /\ CatalogTyped
  BY DEF AskedEffort, CatalogInv
<1> DEFINE none   == ResolveEffort(call.sku, "none")
           asked  == ResolveEffort(call.sku, call.asked)
           mapped == ResolveEffort(call.sku, EffortForBudget(call.budget))
<1>2. CASE IsReasoningModel(call.sku) /\ call.off
  <2>1. call' = [call EXCEPT !.pc = "sent", !.effort = none]
    BY <1>2 DEF AskedEffort, SendWith
  <2>2. none = "none" /\ none \in {""} \cup Range(Levels(call.sku))
    BY <1>1, <1>2, EffortValid, NoneOfReasoning
  <2> HIDE DEF none
  <2> QED
    BY <1>1, <1>2, <2>1, <2>2, CallMoves DEF RequestPCs
<1>3. CASE ~(IsReasoningModel(call.sku) /\ call.off) /\ call.asked # ""
  <2>1. call' = [call EXCEPT !.pc = "sent", !.effort = asked]
    BY <1>3 DEF AskedEffort, SendWith
  <2>2. asked \in {""} \cup Range(Levels(call.sku))
    BY <1>1, EffortValid
  <2> HIDE DEF asked
  <2> QED
    BY <1>1, <1>3, <2>1, <2>2, CallMoves DEF RequestPCs
<1>4. CASE ~(IsReasoningModel(call.sku) /\ call.off) /\ call.asked = "" /\ call.budget > 0 /\ mapped # ""
  <2>1. call' = [call EXCEPT !.pc = "sent", !.effort = mapped]
    BY <1>4 DEF AskedEffort, SendWith
  <2>2. mapped \in Range(Levels(call.sku))
    BY <1>1, <1>4, EffortValid
  <2> HIDE DEF mapped
  <2> QED
    BY <1>1, <1>4, <2>1, <2>2, CallMoves DEF RequestPCs
<1>5. CASE ~(IsReasoningModel(call.sku) /\ call.off) /\ call.asked = "" /\ ~(call.budget > 0 /\ mapped # "")
  <2>1. call' = [call EXCEPT !.pc = "unasked"]
    BY <1>5 DEF AskedEffort
  <2> QED
    BY <1>1, <1>5, <2>1, CallMoves DEF RequestPCs
<1> QED
  BY <1>2, <1>3, <1>4, <1>5

LEMMA DefaultEffortInv == CatalogInv /\ DefaultEffort => CatalogInv'
<1> SUFFICES ASSUME CatalogInv, DefaultEffort PROVE CatalogInv'
  OBVIOUS
<1>1. call.pc = "unasked" /\ ServerStep /\ CatalogTyped /\ LevelsKept /\ OffIsSettled
  BY DEF DefaultEffort, CatalogInv
<1> DEFINE most   == ResolveEffort(call.sku, "max")
           effort == IF IsReasoningModel(call.sku) \/ ~call.wants THEN "" ELSE most
<1>2. call' = [call EXCEPT !.pc = "sent", !.effort = effort]
  BY DEF DefaultEffort, SendWith
<1>3. most \in {""} \cup Range(Levels(call.sku)) /\ (Levels(call.sku) # <<>> => most \in Range(Levels(call.sku)))
  BY <1>1, EffortValid, RankedRange
<1>4. call.levels # <<>> => Levels(call.sku) # <<>>
  BY <1>1 DEF LevelsKept, RequestPCs
<1>5. ~(IsReasoningModel(call.sku) /\ call.off)
  BY <1>1 DEF OffIsSettled
<1> HIDE DEF most
<1>6. /\ effort \in {""} \cup Range(Levels(call.sku))
      /\ (call.wants /\ call.levels # <<>> /\ ~IsReasoningModel(call.sku)) => effort \in Range(Levels(call.sku))
  BY <1>3, <1>4
<1> HIDE DEF effort
<1> QED
  BY <1>1, <1>2, <1>5, <1>6, CallMoves DEF RequestPCs

LEMMA ReceiveInv == CatalogInv /\ Receive => CatalogInv'
<1> SUFFICES ASSUME CatalogInv, Receive PROVE CatalogInv'
  OBVIOUS
<1>1. UNCHANGED <<overrides, forced, mappings, efforts, pending>> /\ CatalogTyped /\ InstalledOnce
  BY DEF Receive, ServerStep, CatalogInv
<1>2. PICK id \in Ids, context1M \in BOOLEAN :
         LET route == Resolve(EffectiveMappings, id, context1M)
         IN \E thinking \in {"absent", "enabled", "disabled"}, effort \in AskedEfforts, budget \in Budgets :
               /\ thinking = "absent" => budget = 0
               /\ call' = [pc |-> "resolved", sku |-> route.sku, echo |-> route.echo,
                           wants |-> route.thinking \/ thinking = "enabled", off |-> thinking = "disabled",
                           asked |-> effort, budget |-> budget, levels |-> Levels(route.sku), effort |-> "",
                           meant |-> {m \in {route} : ResolveKnown(EffectiveMappings, id) # {}}]
  BY DEF Receive
<1> DEFINE route == Resolve(EffectiveMappings, id, context1M)
<1> HIDE DEF route
<1>3. PICK thinking \in {"absent", "enabled", "disabled"}, effort \in AskedEfforts, budget \in Budgets :
         call' = [pc |-> "resolved", sku |-> route.sku, echo |-> route.echo,
                  wants |-> route.thinking \/ thinking = "enabled", off |-> thinking = "disabled",
                  asked |-> effort, budget |-> budget, levels |-> Levels(route.sku), effort |-> "",
                  meant |-> {m \in {route} : ResolveKnown(EffectiveMappings, id) # {}}]
  BY <1>2 DEF route
<1>4. CatalogTyped' /\ InstalledOnce' /\ OffIsSettled' /\ EffortAsIntended'
  BY <1>1, <1>3 DEF CatalogTyped, InstalledOnce, OffIsSettled, EffortAsIntended, RequestPCs
<1>5. LevelsKept'
  <2>1. Levels(call.sku)' = Levels(route.sku)
    BY <1>1, <1>3 DEF Levels
  <2>2. call'.levels = Levels(route.sku)
    BY <1>3
  <2> QED
    BY <2>1, <2>2 DEF LevelsKept
<1> QED
  BY <1>4, <1>5 DEF CatalogInv

\* The steps of a listing, the answer and the next call.
LEMMA OtherCallInv ==
    ASSUME CatalogInv, ServerStep,
           \/ call'.pc \in {"idle", "told"}
           \/ call'.pc = "listing" /\ call' = [pc |-> "listing", rows |-> call'.rows]
    PROVE  CatalogInv'
  BY DEF CatalogInv, ServerStep, CatalogTyped, InstalledOnce, LevelsKept, OffIsSettled, EffortAsIntended, RequestPCs

LEMMA ListingInv == CatalogInv /\ (List \/ ListRow \/ ListEnd \/ Answered \/ CallAgain) => CatalogInv'
<1> SUFFICES ASSUME CatalogInv, List \/ ListRow \/ ListEnd \/ Answered \/ CallAgain PROVE CatalogInv'
  OBVIOUS
<1>1. CASE List
  BY <1>1, OtherCallInv DEF List
<1>2. CASE ListRow
  <2>1. call = [pc |-> "listing", rows |-> call.rows]
    BY <1>2 DEF ListRow, CatalogInv, CatalogTyped
  <2>2. \/ call'.pc = "told"
        \/ call' = [call EXCEPT !.rows = Tail(@)]
    <3>1. \A id, meant : Told(id, TRUE, meant).pc = "told"
      BY DEF Told
    <3> QED
      BY <1>2, <3>1 DEF ListRow
  <2> QED
    BY <1>2, <2>1, <2>2, OtherCallInv DEF ListRow
<1>3. CASE ListEnd
  BY <1>3, OtherCallInv DEF ListEnd, Idle
<1>4. CASE Answered
  BY <1>4, OtherCallInv DEF Answered, Told
<1>5. CASE CallAgain
  BY <1>5, OtherCallInv DEF CallAgain, Idle
<1> QED
  BY <1>1, <1>2, <1>3, <1>4, <1>5

LEMMA CatalogStep == CatalogInv /\ [Next]_vars => CatalogInv'
<1>1. CASE CatalogInv /\ DiscoveryFailed
  BY <1>1 DEF DiscoveryFailed, CatalogInv, CatalogTyped, InstalledOnce, LevelsKept, OffIsSettled,
              EffortAsIntended, Levels
<1>2. CASE CatalogInv /\ UNCHANGED vars
  BY <1>2 DEF vars, CatalogInv, CatalogTyped, InstalledOnce, LevelsKept, OffIsSettled, EffortAsIntended, Levels
<1> QED
  BY <1>1, <1>2, DiscoveredInv, ListingInv, ReceiveInv, ForceEffortInv, AskedEffortInv, DefaultEffortInv
  DEF Next

\* The inductive invariant.
THEOREM CatalogInvariance == Spec => []CatalogInv
  BY InitInv, CatalogStep, PTL DEF Spec

\* The effort a request is sent with is one its model accepts, "none" for a
\* reasoning model with thinking turned off, and one of the model's levels for
\* a request that wants to think, whenever the catalog arrives (resolveEffort).
THEOREM CatalogEffort == Spec => []EffortAsIntended
<1>1. CatalogInv => EffortAsIntended
  BY DEF CatalogInv
<1> QED
  BY <1>1, CatalogInvariance, PTL

-----------------------------------------------------------------------------
(***************************************************************************)
(* Routes                                                                  *)
(***************************************************************************)
\* Rows put behind a table do not change the first of those chosen, if in the
\* table the same are chosen as before.
Agree(table, some, all) == \A i \in DOMAIN table : i \in all <=> i \in some

LEMMA FirstStays ==
    ASSUME NEW S, NEW table \in Seq(S), NEW more \in Seq(S), NEW some, NEW all,
           some \subseteq DOMAIN table, some # {}, all \subseteq DOMAIN (table \o more),
           Agree(table, some, all)
    PROVE  /\ all # {} /\ FirstOf(table \o more, all) = FirstOf(table, some)
           /\ \E row : FirstOf(table, some) = <<row>>
<1>0. PICK n \in Nat, m \in Nat : n = Len(table) /\ m = Len(more)
  BY LenProperties
<1>1. /\ DOMAIN table = 1..n /\ DOMAIN (table \o more) = 1..n + m
      /\ \A i \in 1..n : (table \o more)[i] = table[i]
  <2>1. DOMAIN table = 1..n
    BY <1>0, LenProperties
  <2>2. /\ table \o more \in Seq(S) /\ Len(table \o more) = n + m
        /\ \A i \in 1..n + m : (table \o more)[i] = IF i <= n THEN table[i] ELSE more[i - n]
    BY <1>0, ConcatProperties
  <2>3. DOMAIN (table \o more) = 1..n + m
    BY <2>2, LenProperties
  <2> QED
    BY <2>1, <2>2, <2>3
<1> DEFINE both == table \o more
<1> HIDE DEF both
<1>2. some \subseteq 1..n /\ all \subseteq 1..n + m /\ \A i \in 1..n : i \in all <=> i \in some
  BY <1>1 DEF both, Agree
<1>3. PICK k \in some : \A i \in some : k <= i
  BY <1>2, Least
<1>4. k \in all /\ \A i \in all : k <= i
  BY <1>2, <1>3
<1>5. (CHOOSE i \in some : \A j \in some : i <= j) = k
  BY <1>2, <1>3
<1>6. (CHOOSE i \in all : \A j \in all : i <= j) = k
  BY <1>2, <1>4
<1>7. both[k] = table[k]
  BY <1>1, <1>2 DEF both
<1>8. FirstOf(table, some) = <<table[k]>>
  BY <1>3, <1>5 DEF FirstOf
<1>9. FirstOf(both, all) = <<both[k]>>
  BY <1>4, <1>6 DEF FirstOf
<1> QED
  BY <1>4, <1>7, <1>8, <1>9 DEF both

\* What matches of a longer table is what matched of it before, and of the rest.
LEMMA MatchingBoth ==
    ASSUME NEW S, NEW table \in Seq(S), NEW more \in Seq(S), NEW id
    PROVE  /\ Matching(table, id) \subseteq DOMAIN table
           /\ Matching(table \o more, id) \subseteq DOMAIN (table \o more)
           /\ \A i \in DOMAIN table : /\ (table \o more)[i] = table[i]
                                      /\ i \in Matching(table \o more, id) <=> i \in Matching(table, id)
           /\ Matching(table, id) = {} /\ Matching(more, id) = {} => Matching(table \o more, id) = {}
<1>0. PICK n \in Nat, m \in Nat : n = Len(table) /\ m = Len(more)
  BY LenProperties
<1>1. DOMAIN table = 1..n /\ DOMAIN more = 1..m
  BY <1>0, LenProperties
<1>2. /\ table \o more \in Seq(S) /\ Len(table \o more) = n + m
      /\ \A i \in 1..n + m : (table \o more)[i] = IF i <= n THEN table[i] ELSE more[i - n]
  BY <1>0, ConcatProperties
<1>3. DOMAIN (table \o more) = 1..n + m
  BY <1>2, LenProperties
<1> DEFINE both == table \o more
<1> HIDE DEF both
<1>4. /\ DOMAIN both = 1..n + m
      /\ \A i \in 1..n : both[i] = table[i]
      /\ \A i \in 1..n + m : i \notin 1..n => i - n \in 1..m /\ both[i] = more[i - n]
  BY <1>2, <1>3 DEF both
<1>5. \A i \in 1..n : i \in Matching(both, id) <=> i \in Matching(table, id)
  BY <1>1, <1>4 DEF Matching
<1>6. ASSUME NEW i \in Matching(both, id), i \notin 1..n PROVE i - n \in Matching(more, id)
  BY <1>1, <1>4, <1>6 DEF Matching
<1>7. Matching(table, id) \subseteq 1..n /\ Matching(both, id) \subseteq 1..n + m
  BY <1>1, <1>4 DEF Matching
<1>8. Matching(table, id) = {} /\ Matching(more, id) = {} => Matching(both, id) = {}
  BY <1>5, <1>6
<1> QED
  BY <1>1, <1>4, <1>5, <1>7, <1>8 DEF both

LEMMA HeadOfOne ==
    ASSUME NEW row, NEW rest
    PROVE  Head(<<>> \o <<row>> \o <<rest>>) = row
<1> DEFINE S == {row, rest}
<1>1. <<row>> \in Seq(S) /\ <<rest>> \in Seq(S)
  OBVIOUS
<1>2. <<>> \o <<row>> = <<row>>
  BY <1>1, ConcatEmptySeq
<1>3. /\ <<row>> \o <<rest>> \in Seq(S) /\ Len(<<row>> \o <<rest>>) = 2
      /\ (<<row>> \o <<rest>>)[1] = row
  <2>1. Len(<<row>>) = 1 /\ Len(<<rest>>) = 1 /\ <<row>>[1] = row
    OBVIOUS
  <2> QED
    BY <1>1, <2>1, ConcatProperties
<1> DEFINE both == <<row>> \o <<rest>>
<1> HIDE DEF both, S
<1>4. Head(both) = row
  BY <1>3 DEF both
<1> QED
  BY <1>2, <1>4 DEF both

\* An id that the table spells keeps its route when rows are put behind it ...
LEMMA RouteStays ==
    ASSUME NEW S, NEW table \in Seq(S), NEW more \in Seq(S), NEW id, NEW context1M,
           Matching(table, NormalizeSuffix(id)) # {}
    PROVE  Resolve(table \o more, id, context1M) = Resolve(table, id, context1M)
<1> DEFINE model == NormalizeSuffix(id)
           both  == table \o more
<1>1. /\ Matching(both, model) # {}
      /\ FirstOf(both, Matching(both, model)) = FirstOf(table, Matching(table, model))
  <2>1. Agree(table, Matching(table, model), Matching(both, model))
    BY MatchingBoth DEF Agree
  <2> QED
    BY <2>1, MatchingBoth, FirstStays
<1> HIDE DEF both
<1>2. ~AsksThinking(both, model) /\ ~AsksThinking(table, model)
  BY <1>1 DEF AsksThinking
<1>3. RowOf(both, model) = RowOf(table, model)
  <2> HIDE DEF model
  <2>1. \A rows : FirstOf(rows, {} \ {i \in {} : IsReasoningModel(rows[i].kiro)}) = <<>>
    BY DEF FirstOf
  <2>2. \A rows : {i \in {} : IsReasoningModel(rows[i].kiro)} = {}
    OBVIOUS
  <2> QED
    BY <1>1, <1>2, <2>1, <2>2 DEF RowOf
<1>4. AsksThinking(both, model) = AsksThinking(table, model)
  BY <1>2 DEF AsksThinking
<1> HIDE DEF model
<1> QED
  BY <1>3, <1>4 DEF Resolve, model, both

AnswersBare(rows, stem) == \E i \in Matching(rows, Id(stem, "")) : ~IsReasoningModel(rows[i].kiro)

\* ... and so does one that the table answers with its suffix stripped, if no
\* row behind it spells the id.
LEMMA StrippedRouteStays ==
    ASSUME NEW S, NEW table \in Seq(S), NEW more \in Seq(S), NEW id, NEW context1M,
           Matching(table, NormalizeSuffix(id)) = {}, Matching(more, NormalizeSuffix(id)) = {},
           IsSuffixed(NormalizeSuffix(id)), AnswersBare(table, NormalizeSuffix(id).stem)
    PROVE  Resolve(table \o more, id, context1M) = Resolve(table, id, context1M)
<1> DEFINE model == NormalizeSuffix(id)
           bare  == Id(model.stem, "")
           both  == table \o more
           plain(rows) == Matching(rows, bare) \ {i \in Matching(rows, bare) : IsReasoningModel(rows[i].kiro)}
<1>1. Matching(both, model) = {}
  BY MatchingBoth
<1>2. AsksThinking(both, model) /\ AsksThinking(table, model)
  BY <1>1 DEF AsksThinking
<1>3. /\ plain(table) \subseteq DOMAIN table /\ plain(table) # {}
      /\ plain(both) \subseteq DOMAIN both
      /\ \A i \in DOMAIN table : i \in plain(both) <=> i \in plain(table)
  <2>1. /\ Matching(table, bare) \subseteq DOMAIN table
        /\ Matching(both, bare) \subseteq DOMAIN both
        /\ \A i \in DOMAIN table : /\ both[i] = table[i]
                                   /\ i \in Matching(both, bare) <=> i \in Matching(table, bare)
    <3> HIDE DEF bare, model, plain
    <3> QED
      BY MatchingBoth
  <2>2. \E i \in Matching(table, bare) : ~IsReasoningModel(table[i].kiro)
    BY DEF AnswersBare
  <2> HIDE DEF both, bare
  <2> QED
    BY <2>1, <2>2
<1> HIDE DEF plain, bare
<1>4. /\ FirstOf(both, plain(both)) = FirstOf(table, plain(table))
      /\ \E row : FirstOf(table, plain(table)) = <<row>>
  <2> DEFINE some == plain(table)
             all  == plain(both)
  <2>1. /\ some \subseteq DOMAIN table /\ some # {} /\ all \subseteq DOMAIN (table \o more)
        /\ Agree(table, some, all)
    BY <1>3 DEF Agree
  <2> HIDE DEF some, all, both, model
  <2>2. FirstOf(table \o more, all) = FirstOf(table, some)
    BY <2>1, FirstStays
  <2>3. \E row : FirstOf(table, some) = <<row>>
    BY <2>1, FirstStays
  <2> QED
    BY <2>2, <2>3 DEF some, all, both
<1>5. PICK row : FirstOf(table, plain(table)) = <<row>> /\ FirstOf(both, plain(both)) = <<row>>
  BY <1>4
<1> HIDE DEF both, model
<1>6. \A rest : Head(<<>> \o <<row>> \o <<rest>>) = row
  BY HeadOfOne
<1>7. \A rows : FirstOf(rows, {}) = <<>>
  BY DEF FirstOf
<1>8. ASSUME NEW rows, Matching(rows, model) = {}, AsksThinking(rows, model),
             FirstOf(rows, plain(rows)) = <<row>>
      PROVE  RowOf(rows, model) = row
  <2> DEFINE unknown == IF model.stem \in ClaudeStems
                             /\ {i \in Matching(rows, bare) : IsReasoningModel(rows[i].kiro)} = {}
                        THEN Mapping(bare, model.stem, "", 0, FALSE) ELSE DefaultMapping
  <2>1. RowOf(rows, model)
          = Head(FirstOf(rows, Matching(rows, model)) \o FirstOf(rows, plain(rows)) \o <<unknown>>)
    BY <1>8 DEF RowOf, plain, bare
  <2> HIDE DEF unknown
  <2> QED
    BY <1>6, <1>7, <1>8, <2>1
<1>9. RowOf(both, model) = row /\ RowOf(table, model) = row
  <2>1. Matching(table, model) = {}
    BY DEF model
  <2> QED
    BY <1>1, <1>2, <1>5, <1>8, <2>1
<1> QED
  BY <1>2, <1>9 DEF Resolve, model, both

LEMMA BuiltinTable == ModelMapOrdered \in Seq(Range(ModelMapOrdered)) 
<1>1. ModelMapOrdered = [i \in 1..11 |-> ModelMapOrdered[i]]
  BY DEF ModelMapOrdered
<1>2. DOMAIN ModelMapOrdered = 1..11
  BY <1>1
<1> QED
  BY <1>1, <1>2 DEF Range

\* The catalog is installed once, into an empty one.
LEMMA InstalledIntoNone == CatalogInv /\ Next /\ Installed => mappings = <<>> /\ UNCHANGED overrides
  BY DEF CatalogInv, InstalledOnce, Installed, Next, Discovered, DiscoveryFailed, List, ListRow, ListEnd, Receive,
         ForceEffort, AskedEffort, DefaultEffort, Answered, CallAgain, ServerStep

LEMMA InstallationKeeps ==
    ASSUME CatalogInv, Next, Installed
    PROVE  /\ \A id \in Ids, context1M \in BOOLEAN :
                Spelled(id) \/ (Stripped(id) /\ ~Overtaken(id)') =>
                    Resolve(EffectiveMappings, id, context1M)' = Resolve(EffectiveMappings, id, context1M)
           /\ \A sku \in DOMAIN EffortCapabilities : Levels(sku)' = Levels(sku)
<1>1. mappings = <<>> /\ UNCHANGED overrides
  BY InstalledIntoNone
<1>2. CatalogTyped /\ CatalogTyped'
  BY CatalogStep DEF CatalogInv
<1> DEFINE S == TableRows \cup Range(ModelMapOrdered)
<1>3. OwnMappings \in Seq(S) /\ OwnMappings' = OwnMappings
  <2>1. overrides \in Seq(S) /\ ModelMapOrdered \in Seq(S)
    BY <1>2, BuiltinTable DEF CatalogTyped
  <2> HIDE DEF S
  <2> QED
    BY <1>1, <2>1, ConcatProperties DEF OwnMappings
<1>4. mappings \in Seq(S) /\ mappings' \in Seq(S)
  BY <1>2 DEF CatalogTyped
<1>5. EffectiveMappings = OwnMappings \o mappings /\ EffectiveMappings' = OwnMappings \o mappings'
  BY <1>1 DEF EffectiveMappings, OwnMappings
<1> HIDE DEF S
<1>6. ASSUME NEW id \in Ids, NEW context1M \in BOOLEAN, Spelled(id) \/ (Stripped(id) /\ ~Overtaken(id)')
      PROVE  Resolve(EffectiveMappings, id, context1M)' = Resolve(EffectiveMappings, id, context1M)
  <2>1. Resolve(EffectiveMappings, id, context1M)' = Resolve(EffectiveMappings', id, context1M)
    OBVIOUS
  <2>2. CASE Spelled(id)
    <3>1. Matching(OwnMappings, NormalizeSuffix(id)) # {}
      BY <2>2 DEF Spelled
    <3>2. /\ Resolve(OwnMappings \o mappings, id, context1M) = Resolve(OwnMappings, id, context1M)
          /\ Resolve(OwnMappings \o mappings', id, context1M) = Resolve(OwnMappings, id, context1M)
      BY <1>3, <1>4, <3>1, RouteStays
    <3> QED
      BY <1>5, <2>1, <3>2
  <2>3. CASE Stripped(id) /\ ~Overtaken(id)'
    <3>1. Matching(OwnMappings, NormalizeSuffix(id)) = {}
      BY <2>3 DEF Stripped, Spelled
    <3>2. Matching(mappings, NormalizeSuffix(id)) = {} /\ Matching(mappings', NormalizeSuffix(id)) = {}
      <4>1. Matching(mappings, NormalizeSuffix(id)) = {}
        BY <1>1 DEF Matching
      <4>2. Overtaken(id)' <=> Matching(OwnMappings', NormalizeSuffix(id)) = {}
                                /\ Matching(mappings', NormalizeSuffix(id)) # {}
        BY DEF Overtaken, Spelled
      <4> QED
        BY <1>3, <2>3, <3>1, <4>1, <4>2
    <3>3. IsSuffixed(NormalizeSuffix(id)) /\ NormalizeSuffix(id).stem = id.stem
      <4>1. id.suffix # "" /\ id = [stem |-> id.stem, suffix |-> id.suffix]
        <5>1. id.suffix # ""
          BY <2>3 DEF Stripped, IsSuffixed
        <5>2. id = [stem |-> id.stem, suffix |-> id.suffix]
          BY DEF Ids
        <5> QED
          BY <5>1, <5>2
      <4>2. NormalizeSuffix(id) = [stem |-> id.stem, suffix |-> "[1m]"]
        BY <4>1 DEF NormalizeSuffix
      <4> QED
        BY <4>2 DEF IsSuffixed
    <3>4. AnswersBare(OwnMappings, NormalizeSuffix(id).stem)
      BY <2>3, <3>3 DEF Stripped, AnswersBare
    <3>5. Resolve(OwnMappings \o mappings, id, context1M) = Resolve(OwnMappings, id, context1M)
      BY <1>3, <1>4, <3>1, <3>2, <3>3, <3>4, StrippedRouteStays
    <3>6. Resolve(OwnMappings \o mappings', id, context1M) = Resolve(OwnMappings, id, context1M)
      BY <1>3, <1>4, <3>1, <3>2, <3>3, <3>4, StrippedRouteStays
    <3> QED
      BY <1>5, <2>1, <3>5, <3>6
  <2> QED
    BY <1>6, <2>2, <2>3
<1>7. ASSUME NEW sku \in DOMAIN EffortCapabilities PROVE Levels(sku)' = Levels(sku)
  BY <1>7 DEF Levels
<1> QED
  BY <1>6, <1>7

\* "Built-ins always win and discovery only fills gaps" (SetCatalog), as far as
\* it goes: when the catalog arrives, the built-in models keep their levels, and
\* every id that the environment or the built-in table answers, spelled out or
\* with its suffix stripped, keeps its route, save a suffixed id that a
\* discovered row spells and they do not.
THEOREM CatalogBuiltinsKeep == Spec => BuiltinsKeep
<1>1. CatalogInv /\ [Next]_vars =>
         [Installed =>
            /\ \A id \in Ids, context1M \in BOOLEAN :
                 Spelled(id) \/ (Stripped(id) /\ ~Overtaken(id)') =>
                     Resolve(EffectiveMappings, id, context1M)' = Resolve(EffectiveMappings, id, context1M)
            /\ \A sku \in DOMAIN EffortCapabilities : Levels(sku)' = Levels(sku)]_vars
  BY InstallationKeeps
<1> QED
  BY <1>1, CatalogInvariance, PTL DEF Spec, BuiltinsKeep
=============================================================================
