---------------------------- MODULE MCLeafFrame -----------------------------
(* LeafFrame on three blocks, with a plain fit and fits for two predictors.   *)
EXTENDS LeafFrame
CONSTANTS plain, left, above

MCPredictorOf == [f \in Fits |-> CASE f = plain -> 0 [] f = left -> 1 [] OTHER -> 11]
=============================================================================
