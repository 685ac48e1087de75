------------------------------ MODULE MCEstimator ------------------------------
(* Two pools WETH/A, two A/WETH, one A/B and one B/A; B has no pair with WETH.
   WETH and the rates have 3 decimals, A and B have 2; 0.1 WETH is the input.  The prices of
   u and v can be so far apart that the estimate is taken for an error. *)
EXTENDS Estimator

MCPools  == {"u", "v", "x", "y", "n", "m"}
MCToken0 == [p \in MCPools |-> CASE p \in {"u", "v"} -> "W"
                                 [] p \in {"x", "y", "n"} -> "A"
                                 [] OTHER -> "B"]
MCToken1 == [p \in MCPools |-> CASE p \in {"u", "v", "m"} -> "A"
                                 [] p \in {"x", "y"} -> "W"
                                 [] OTHER -> "B"]
MCDecimals == [t \in {"W", "A", "B"} |-> CASE t = "W" -> 3 [] OTHER -> 2]

MCReserves ==
    [p \in MCPools |-> CASE p = "u" -> {<<5000, 2000>>, <<1000, 1500>>}
                         [] p = "v" -> {<<5000, 2000>>, <<2000, 1000>>}
                         [] p \in {"x", "y"} -> {<<2000, 5000>>, <<2300, 5000>>}
                         [] OTHER -> {<<40, 40>>}]

=============================================================================
