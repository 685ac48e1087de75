------------------------------ MODULE MCDispatch ------------------------------
(* Two paths and three blocks.  Of path a, block 2 has a quote that grows with the
   input, block 3 a revert, block 4 one that grows more slowly than the input; of path b,
   block 2 an amount not believed, block 3 a revert at the second input, block 4 a loss. *)
EXTENDS Dispatch

CONSTANTS a, b

MCFeedBlocks == 2..4

MCQuote ==
    [x \in Paths \X Versions \X Inputs |->
        LET p == x[1]  v == x[2]  in == x[3]
        IN  CASE p = a /\ v = 3 -> Reverts
              [] p = b /\ v = 3 /\ in > AMOUNT -> Reverts
              [] p = b /\ v = 2 -> CAP + 1
              [] p = b /\ v = 4 -> 1
              [] p = a /\ v = 4 -> 8 + in \div 3
              [] OTHER -> 2 * in]

=============================================================================
