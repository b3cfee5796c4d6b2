--------------------------- MODULE MCPricingRefresh ---------------------------
(***************************************************************************)
(* Small instances of PricingRefresh for TLC.                              *)
(***************************************************************************)
EXTENDS PricingRefresh, TLC

\* Two providers.  A source may list a model twice, or one of the other provider's.
TwoProviders == {"openai", "google"}
InOrder == <<"openai", "google">>
ThreeModels == {"gpt", "gpt-mini", "gemini"}
AnyFiles ==
    "openai" :> {<<>>, <<"gpt">>, <<"gpt-mini">>, <<"gpt-mini", "gpt">>, <<"gpt", "gpt">>} @@
    "google" :> {<<"gemini">>, <<"gpt">>}
\* google keeps the defaults.
OpenAIOneTick == "openai" :> 1
OpenAINoJitter == "openai" :> 0

\* One provider with one model.
OneProvider == {"openai"}
Alone == <<"openai">>
NothingConfigured == <<>>
OneModel == {"gpt"}
OneFile == "openai" :> {<<"gpt">>}
=============================================================================
