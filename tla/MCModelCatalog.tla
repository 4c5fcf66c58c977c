--------------------------- MODULE MCModelCatalog ---------------------------
(* ModelCatalog for TLC: overrides and catalogs of every kind that matters. *)
EXTENDS ModelCatalog

MCDashed ==
    [stem \in {"claude-opus-5", "claude-opus-9", "claude-gpt-5.6-sol", "claude-auto",
               "claude-sonnet-4-6", "claude-opus-4-8", "claude-mini-1-2", "claude-pinned"} |-> stem]
    @@ ("claude-opus-4.8" :> "claude-opus-4-8") @@ ("claude-haiku-4.5" :> "claude-haiku-4-5")
    @@ ("claude-sonnet-4.6" :> "claude-sonnet-4-6") @@ ("claude-mini-1.2" :> "claude-mini-1-2")
    @@ ("claude-sonnet-4.6-1m" :> "claude-sonnet-4-6-1m")

MCClaudeStems == DOMAIN MCDashed
MCStems == MCClaudeStems \cup {"gpt-5.6-sol", "auto", "custom", "gpt-9-nova"}

\* None; a built-in's id without its 1M SKU; a suffixed row with a SKU of its
\* own; a wide window on a row without a 1M SKU.
MCOverrides ==
    { <<>>,
      <<Mapping(Id("claude-sonnet-4-6", ""), "claude-pinned", "", 0, FALSE)>>,
      <<Mapping(Id("custom", "[1M]"), "claude-custom", "claude-custom-1m", 0, TRUE)>>,
      <<Mapping(Id("claude-opus-9", ""), "claude-pinned", "", 1000, TRUE)>> }

Model(id, maxInput, enum) == [id |-> id, maxInput |-> maxInput, enum |-> enum]

\* New models with and without efforts and 1M; models the table has; others.
MCCatalogs ==
    { <<Model("claude-opus-9", 1000, <<"low", "high">>), Model("claude-mini-1.2", 200, <<>>)>>,
      <<Model("claude-sonnet-4.6", 1000, <<"low", "max">>), Model("claude-haiku-4.5", 1000, <<"low">>)>>,
      <<Model("claude-sonnet-4.6-1m", 1000, <<>>), Model("gpt-9-nova", 272, <<"low">>)>>,
      <<Model("gpt-9-nova", 272, <<"low">>), Model("claude-opus-4.8", 200, <<"low">>)>> }
=============================================================================
