---------------------------- MODULE ModelCatalog ----------------------------
(***************************************************************************)
(* internal/models with its users: how the model a request names becomes   *)
(* a Kiro SKU, a context window and an effort, what /v1/models offers, and *)
(* the goroutine that installs Kiro's catalog while requests are served.   *)
(*                                                                         *)
(* A model id is a stem and a suffix.  The built-in table has one family   *)
(* for each shape of its rows.  Windows are in thousands of tokens.        *)
(***************************************************************************)
EXTENDS Integers, Sequences, SequencesExt

CONSTANTS
    OverrideChoices, \* what KIROCC_MODEL_MAPPINGS may hold: sequences of mappings
    Catalogs,        \* what Kiro may advertise: sequences of [id, maxInput, enum]
    Stems,           \* the stems of the ids a client may send
    ClaudeStems,     \* those that start with "claude-"
    Dashed,          \* [ClaudeStems -> STRING]: every "." replaced by "-"
    ForcedEfforts,   \* what KIROCC_FORCE_EFFORT may hold, "" for unset
    AskedEfforts,    \* the values of output_config.effort, "" for absent
    Budgets          \* the values of thinking.budget_tokens, 0 for absent

\* What a row of the table may hold.
Rows == [anthropic : [stem : STRING, suffix : {"", "[1m]", "[1M]"}], kiro : STRING, kiro1M : STRING,
         window : Int, named : BOOLEAN]

ASSUME CatalogConstants ==
    /\ ClaudeStems \subseteq Stems /\ Stems \subseteq STRING
    /\ Dashed \in [ClaudeStems -> STRING]
    /\ \A raw \in OverrideChoices : raw \in Seq(Rows)
    /\ \A c \in Catalogs : c \in Seq([id : Stems, maxInput : Int, enum : Seq(STRING)])
    /\ Budgets \subseteq Nat

Id(stem, suffix) == [stem |-> stem, suffix |-> suffix]
Ids == [stem : Stems, suffix : {"", "[1m]", "[1M]"}]

\* Claude Code writes the suffix in either case.
NormalizeSuffix(id) == IF id.suffix = "" THEN id ELSE [id EXCEPT !.suffix = "[1m]"]
IsSuffixed(id) == id.suffix # ""

Mapping(anthropic, kiro, kiro1M, window, named) ==
    [anthropic |-> anthropic, kiro |-> kiro, kiro1M |-> kiro1M, window |-> window, named |-> named]

ModelMapOrdered ==
    << Mapping(Id("claude-opus-4-8", "[1m]"), "claude-opus-4.8", "claude-opus-4.8", 0, TRUE),
       Mapping(Id("claude-opus-5", "[1m]"), "claude-opus-5", "claude-opus-5", 0, TRUE),
       Mapping(Id("claude-opus-4-8", ""), "claude-opus-4.8", "claude-opus-4.8", 0, FALSE),
       Mapping(Id("claude-opus-5", ""), "claude-opus-5", "claude-opus-5", 0, FALSE),
       Mapping(Id("claude-sonnet-4-6", ""), "claude-sonnet-4.6", "claude-sonnet-4.6-1m", 0, TRUE),
       Mapping(Id("claude-haiku-4.5", ""), "claude-haiku-4.5", "", 0, FALSE),
       Mapping(Id("gpt-5.6-sol", "[1m]"), "gpt-5.6-sol", "gpt-5.6-sol", 1000, TRUE),
       Mapping(Id("gpt-5.6-sol", ""), "gpt-5.6-sol", "", 1000, FALSE),
       Mapping(Id("claude-gpt-5.6-sol", "[1m]"), "gpt-5.6-sol", "gpt-5.6-sol", 1000, TRUE),
       Mapping(Id("claude-gpt-5.6-sol", ""), "gpt-5.6-sol", "", 1000, TRUE),
       Mapping(Id("claude-auto", ""), "auto", "", 0, TRUE) >>

DefaultMapping == Mapping(Id("claude-sonnet-4-6", ""), "claude-sonnet-4.6", "", 0, FALSE)

\* Effort levels, low to high.
Ranked == <<"low", "medium", "high", "xhigh", "max">>
EffortCapabilities ==
    [sku \in {"claude-opus-5", "claude-opus-4.8", "claude-sonnet-4.6", "claude-sonnet-4.6-1m",
              "gpt-5.6-sol", "auto"} |->
        CASE sku \in {"claude-opus-5", "claude-opus-4.8"} -> Ranked
          [] sku \in {"claude-sonnet-4.6", "claude-sonnet-4.6-1m"} -> <<"low", "medium", "high", "max">>
          [] sku = "gpt-5.6-sol" -> <<"none", "low", "medium", "high", "xhigh", "max">>
          [] sku = "auto" -> <<>>]

IsReasoningModel(sku) == sku = "gpt-5.6-sol"

VARIABLES
    overrides, \* the mappings of the environment
    forced,    \* the effort the environment pins
    mappings,  \* catalog.mappings
    efforts,   \* catalog.efforts
    pending,   \* discoverModels has not returned yet
    call       \* the client's call: a listing or a request, and what it was told

vars == <<overrides, forced, mappings, efforts, pending, call>>

-----------------------------------------------------------------------------
EnvMappings(raw) == [i \in DOMAIN raw |-> [raw[i] EXCEPT !.anthropic = NormalizeSuffix(@)]]

DiscoveryFirst == mappings \o overrides \o ModelMapOrdered

EffectiveMappings == overrides \o ModelMapOrdered \o mappings

\* The first of the rows with these numbers, as a sequence of at most one.
FirstOf(rows, numbers) == IF numbers = {} THEN <<>> ELSE <<rows[CHOOSE i \in numbers : \A j \in numbers : i <= j]>>

Matches(id, row) == id \in {row.anthropic, Id(row.kiro, "")}

Matching(rows, id) == {i \in DOMAIN rows : Matches(id, rows[i])}

\* A suffix that no row spells asks for thinking.
AsksThinking(rows, model) == Matching(rows, model) = {} /\ IsSuffixed(model)

(***************************************************************************)
(* Resolve: the row that spells the id, or else, suffix stripped, a row    *)
(* that is no reasoning model's, or else the id itself or the default.     *)
(***************************************************************************)
RowOf(rows, model) ==
    LET bare     == Id(model.stem, "")
        lenient  == IF AsksThinking(rows, model) THEN Matching(rows, bare) ELSE {}
        excluded == {i \in lenient : IsReasoningModel(rows[i].kiro)}
        unknown  == IF model.stem \in ClaudeStems /\ excluded = {}
                    THEN Mapping(bare, model.stem, "", 0, FALSE) ELSE DefaultMapping
    IN Head(FirstOf(rows, Matching(rows, model)) \o FirstOf(rows, lenient \ excluded) \o <<unknown>>)

\* What a row comes to.
Routed(row, model, thinking, context1M) ==
    LET bare   == Id(model.stem, "")
        oneM   == \/ row.kiro1M = row.kiro
                  \/ row.kiro1M # "" /\ (context1M \/ thinking \/ IsSuffixed(row.anthropic))
        window == IF oneM THEN 1000 ELSE IF row.window > 0 THEN row.window ELSE 200
    IN IF row.kiro = "auto"
       THEN [sku |-> "auto", thinking |-> FALSE, window |-> 0, echo |-> bare]
       ELSE [sku |-> IF oneM THEN row.kiro1M ELSE row.kiro, thinking |-> thinking, window |-> window,
             echo |-> IF window = 1000 THEN [row.anthropic EXCEPT !.suffix = "[1m]"] ELSE row.anthropic]

Resolve(rows, id, context1M) ==
    LET model == NormalizeSuffix(id)
    IN Routed(RowOf(rows, model), model, AsksThinking(rows, model), context1M)

\* lookupMapping, one tier: an id's own row comes before a row of its SKU.
Find(rows, id) ==
    FirstOf(rows, {i \in DOMAIN rows : rows[i].anthropic = id})
    \o FirstOf(rows, {i \in DOMAIN rows : Id(rows[i].kiro, "") = id})

\* ResolveKnown: the SKU of a model the advisor names, none if no row has it.
ResolveKnown(rows, id) ==
    LET model    == NormalizeSuffix(id)
        exact    == Find(rows, model)
        stripped == Find(SelectSeq(rows, LAMBDA row : ~IsReasoningModel(row.kiro)), Id(model.stem, ""))
    IN IF exact # <<>> THEN {Head(exact).kiro}
       ELSE IF ~IsSuffixed(model) \/ stripped = <<>> THEN {}
       ELSE {IF Head(stripped).kiro1M = "" THEN Head(stripped).kiro ELSE Head(stripped).kiro1M}

\* Without routes1M.
OffersUnasked(row, now) ==
    {Id(row.kiro, "")}
    \cup (IF IsSuffixed(row.anthropic) \/ row.named THEN {row.anthropic} ELSE {})
    \cup (IF row.named /\ row.kiro1M \notin {"", row.kiro} THEN {[row.anthropic EXCEPT !.suffix = "[1m]"]} ELSE {})

\* The ids a row contributes to /v1/models; "now" is the table routes1M sees.
Offers(row, now) ==
    LET alias == [row.anthropic EXCEPT !.suffix = "[1m]"]
    IN {Id(row.kiro, "")}
       \cup (IF IsSuffixed(row.anthropic) \/ row.named THEN {row.anthropic} ELSE {})
       \cup (IF /\ row.named /\ row.kiro1M \notin {"", row.kiro}
                /\ Resolve(now, alias, FALSE).window = 1000
             THEN {alias} ELSE {})

Levels(sku) ==
    IF sku \in DOMAIN EffortCapabilities THEN EffortCapabilities[sku]
    ELSE IF sku \in DOMAIN efforts THEN efforts[sku] ELSE <<>>

ResolveEffort(sku, requested) ==
    IF requested \in Range(Levels(sku)) THEN requested
    ELSE IF Levels(sku) = <<>> \/ requested \notin Range(Ranked) THEN "" ELSE Last(Levels(sku))

EffortForBudget(budget) ==
    IF budget < 4000 THEN "low" ELSE IF budget < 10000 THEN "medium"
    ELSE IF budget < 20000 THEN "high" ELSE IF budget < 32000 THEN "xhigh" ELSE "max"

-----------------------------------------------------------------------------
Idle == [pc |-> "idle"]

\* History: meant, the route the id had when it was listed, or the route of the
\* request whose answer echoes it; none for a model no row was known for.
Told(id, listed, meant) == [pc |-> "told", id |-> id, listed |-> listed, meant |-> meant]

Init ==
    /\ overrides \in {EnvMappings(raw) : raw \in OverrideChoices}
    /\ forced \in ForcedEfforts
    /\ mappings = <<>> /\ efforts = <<>>
    /\ pending = TRUE
    /\ call = Idle

(***************************************************************************)
(* discoverModels: one fetch, in the background; on any failure the        *)
(* built-in tables stay as they are.                                       *)
(***************************************************************************)
MappingsOf(model) ==
    LET alias == Dashed[model.id]
    IN IF model.id \notin ClaudeStems THEN <<>>
       ELSE IF model.maxInput >= 1000
       THEN <<Mapping(Id(alias, "[1m]"), model.id, model.id, model.maxInput, TRUE),
              Mapping(Id(alias, ""), model.id, model.id, model.maxInput, FALSE)>>
       ELSE <<Mapping(Id(alias, ""), model.id, "", model.maxInput, FALSE)>>

SetCatalog(discovered) ==
    LET graded == {i \in DOMAIN discovered : discovered[i].id \in ClaudeStems /\ discovered[i].enum # <<>>}
    IN /\ mappings' = FlattenSeq([i \in DOMAIN discovered |-> MappingsOf(discovered[i])])
       /\ efforts' = [id \in {discovered[i].id : i \in graded} |->
                        discovered[CHOOSE i \in graded : discovered[i].id = id].enum]

Discovered ==
    /\ pending
    /\ \E discovered \in Catalogs : discovered # <<>> /\ SetCatalog(discovered)
    /\ pending' = FALSE
    /\ UNCHANGED <<overrides, forced, call>>

DiscoveryFailed ==
    /\ pending
    /\ pending' = FALSE
    /\ UNCHANGED <<overrides, forced, mappings, efforts, call>>

(***************************************************************************)
(* GET /v1/models: the rows as they are at the start, and for each that    *)
(* needs it a look at the rows as they are now.  The client picks one id.  *)
(***************************************************************************)
ServerStep == UNCHANGED <<overrides, forced, mappings, efforts, pending>>

List ==
    /\ call = Idle
    /\ call' = [pc |-> "listing", rows |-> EffectiveMappings]
    /\ ServerStep

ListRow ==
    /\ call.pc = "listing" /\ call.rows # <<>>
    /\ \/ \E id \in Offers(Head(call.rows), EffectiveMappings) :
             call' = Told(id, TRUE, {Resolve(EffectiveMappings, id, FALSE)})
       \/ call' = [call EXCEPT !.rows = Tail(@)]
    /\ ServerStep

ListEnd == call.pc = "listing" /\ call.rows = <<>> /\ call' = Idle /\ ServerStep

(***************************************************************************)
(* POST /v1/messages: HandleMessages resolves the model and then, with up  *)
(* to three looks at the catalog, the effort.                              *)
(***************************************************************************)
Receive ==
    /\ call = Idle
    /\ \E id \in Ids, context1M \in BOOLEAN :
         LET route == Resolve(EffectiveMappings, id, context1M)
         IN \E thinking \in {"absent", "enabled", "disabled"}, effort \in AskedEfforts, budget \in Budgets :
               /\ thinking = "absent" => budget = 0
               /\ call' = [pc |-> "resolved", sku |-> route.sku, echo |-> route.echo,
                           wants |-> route.thinking \/ thinking = "enabled", off |-> thinking = "disabled",
                           asked |-> effort, budget |-> budget, levels |-> Levels(route.sku), effort |-> "",
                           meant |-> {m \in {route} : ResolveKnown(EffectiveMappings, id) # {}}]
    /\ ServerStep

SendWith(effort) == call' = [call EXCEPT !.pc = "sent", !.effort = effort]

ForceThoughOff ==
    /\ call.pc = "resolved"
    /\ IF forced # "" /\ ResolveEffort(call.sku, forced) # ""
       THEN SendWith(ResolveEffort(call.sku, forced))
       ELSE call' = [call EXCEPT !.pc = "unforced"]
    /\ ServerStep

\* KIROCC_FORCE_EFFORT, unless thinking is turned off.
ForceEffort ==
    /\ call.pc = "resolved"
    /\ IF forced # "" /\ ~call.off /\ ResolveEffort(call.sku, forced) # ""
       THEN SendWith(ResolveEffort(call.sku, forced))
       ELSE call' = [call EXCEPT !.pc = "unforced"]
    /\ ServerStep

\* Thinking turned off, an explicit effort, or a budget that maps to one.
AskedEffort ==
    /\ call.pc = "unforced"
    /\ IF IsReasoningModel(call.sku) /\ call.off THEN SendWith(ResolveEffort(call.sku, "none"))
       ELSE IF call.asked # "" THEN SendWith(ResolveEffort(call.sku, call.asked))
       ELSE LET mapped == ResolveEffort(call.sku, EffortForBudget(call.budget))
            IN IF call.budget > 0 /\ mapped # "" THEN SendWith(mapped)
               ELSE call' = [call EXCEPT !.pc = "unasked"]
    /\ ServerStep

DefaultEffort ==
    /\ call.pc = "unasked"
    /\ SendWith(IF IsReasoningModel(call.sku) \/ ~call.wants THEN "" ELSE ResolveEffort(call.sku, "max"))
    /\ ServerStep

Answered ==
    /\ call.pc = "sent"
    /\ call' = Told(call.echo, FALSE, call.meant)
    /\ ServerStep

CallAgain == call.pc = "told" /\ call' = Idle /\ ServerStep

Next ==
    \/ Discovered \/ DiscoveryFailed
    \/ List \/ ListRow \/ ListEnd
    \/ Receive \/ ForceEffort \/ AskedEffort \/ DefaultEffort \/ Answered \/ CallAgain

Spec == Init /\ [][Next]_vars

-----------------------------------------------------------------------------
(***************************************************************************)
(* Properties                                                              *)
(***************************************************************************)
IsOverridden(id) == \E row \in Range(overrides) : row.anthropic.stem = id.stem

OwnMappings == overrides \o ModelMapOrdered

\* The tables of this build and the environment spell the id out ...
Spelled(id) == Matching(OwnMappings, NormalizeSuffix(id)) # {}

\* ... or they answer it once its suffix is stripped.
Stripped(id) ==
    /\ ~Spelled(id) /\ IsSuffixed(id)
    /\ \E i \in Matching(OwnMappings, Id(id.stem, "")) : ~IsReasoningModel(OwnMappings[i].kiro)

\* A discovered row spells an id that those tables do not: it comes first then,
\* although they answer the id with its suffix stripped.
Overtaken(id) == ~Spelled(id) /\ Matching(mappings, NormalizeSuffix(id)) # {}

\* What the client was told stays true, whenever discovery lands.
\* An id picked from /v1/models has a row, and without overrides the advisor
\* reaches the same SKU by it as a request does.  A listed id keeps the SKU, the
\* window and the thinking it had when it was listed, and the id an answer
\* echoes leads to the SKU and the window of the request it answers, unless a
\* discovered row has overtaken it; even then a suffixed id routes to the 1M
\* window.  (ListModels, routes1M, ResolveKnown, the end of Resolve.)
\* An echo is no promise for a model the environment overrides: the SKU's own
\* id still reaches the built-in row, whose alias the override has taken over.
PromiseKept ==
    call.pc = "told" =>
        LET known == ResolveKnown(EffectiveMappings, call.id)
            route == Resolve(EffectiveMappings, call.id, FALSE)
        IN /\ call.listed => known # {} /\ (overrides = <<>> => known = {route.sku})
           /\ call.listed \/ ~IsOverridden(call.id) =>
                /\ IsSuffixed(call.id) => route.window = 1000
                /\ \A meant \in call.meant : ~Overtaken(call.id) =>
                      /\ route.sku = meant.sku /\ route.window = meant.window
                      /\ call.listed => route.thinking = meant.thinking

\* The effort sent is one the SKU accepts, although the SKU and its levels
\* are looked up at different times; turned off for a reasoning model it is
\* "none", whatever the environment pins; and a request that wants to think
\* and asks for no level gets one of the model's if it had any when it came.
EffortAsIntended ==
    call.pc = "sent" =>
        /\ call.effort \in {""} \cup Range(Levels(call.sku))
        /\ IsReasoningModel(call.sku) /\ call.off => call.effort = "none"
        /\ (call.wants /\ call.asked = "" /\ call.levels # <<>> /\ ~IsReasoningModel(call.sku))
              => call.effort \in Range(Levels(call.sku))

\* Looked at between two calls: what is installed depends on none.
Installed == call = Idle /\ mappings' # mappings

\* "Built-ins always win and discovery only fills gaps" (SetCatalog), as far as
\* it goes: it changes neither the levels of a built-in model nor the route of an
\* id that this build or the environment answers, spelled out or with the suffix
\* stripped, save an id that a discovered row now spells and they do not.
BuiltinsKeep ==
    [][Installed =>
       /\ \A id \in Ids, context1M \in BOOLEAN :
            Spelled(id) \/ (Stripped(id) /\ ~Overtaken(id)') =>
                Resolve(EffectiveMappings, id, context1M)' = Resolve(EffectiveMappings, id, context1M)
       /\ \A sku \in DOMAIN EffortCapabilities : Levels(sku)' = Levels(sku)]_vars
=============================================================================
