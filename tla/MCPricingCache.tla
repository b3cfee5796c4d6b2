---------------------------- MODULE MCPricingCache ----------------------------
(***************************************************************************)
(* Small instances of PricingCache for TLC.                                *)
(***************************************************************************)
EXTENDS PricingCache

OneModel == {"gpt"}
AllOfOneModel == [w \in Workers |-> "gpt"]
=============================================================================
