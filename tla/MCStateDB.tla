------------------------------ MODULE MCStateDB ------------------------------
(* Small instances of StateDB and PoolLayout in one run, of which one moves.  At the sync
   block every slot of StateDB but the allowance holds one value that is not Zero, so that a
   block can change it and can clear it.  The pools of PoolLayout have ticks and nets of either sign, two
   ticks in one word of the bitmap, and fields at their limits. *)
EXTENDS StateDB, PoolLayout

CONSTANTS Fresh, Stale

\* Blocks that write a synced slot, the other slot of the pool and a token's balance, alone
\* and together, in either order of a change and a clearing.
MCBatches ==
    LET main  == CHOOSE s \in Synced : TRUE
        side  == CHOOSE s \in PoolSlots \ Synced : TRUE
        coins == CHOOSE s \in Balances : TRUE
    IN  {<<<<main, Stale>>>>, <<<<main, Zero>>>>, <<<<side, Stale>>>>,
         <<<<main, Stale>>, <<main, Fresh>>>>, <<<<main, Zero>>, <<main, Stale>>>>,
         <<<<main, Stale>>, <<side, Zero>>>>, <<<<side, Fresh>>, <<coins, Stale>>>>}

MCInitialStates == {[s \in Slots |-> IF s \in Approvals THEN Zero ELSE Fresh]}

MCPairStates == {[reserve0 |-> 3, reserve1 |-> 2, stamp |-> 1],
                 [reserve0 |-> 0, reserve1 |-> 3, stamp |-> 3]}
MCSlot0States == {[price |-> 1, tick |-> -4, index |-> 0], [price |-> 1, tick |-> -1, index |-> 1],
                  [price |-> 2, tick |-> 0, index |-> 0], [price |-> 3, tick |-> 3, index |-> 1]}
MCTicks == {-2, -1}
MCTickStates == {[gross |-> 0, net |-> 0], [gross |-> 1, net |-> -1], [gross |-> 3, net |-> 1]}

MCInit == Init /\ (NotInserted \/ LayoutInit)
MCNext ==
    \/ words = NoWords /\ Next /\ UNCHANGED layoutVars
    \/ words # NoWords /\ LayoutNext /\ UNCHANGED vars
MCSpec == MCInit /\ [][MCNext]_<<vars, layoutVars>>

=============================================================================
