----------------------------- MODULE MCAlgorithms -----------------------------
(* Five machines in one run, of which one moves: the cycles of every working set of
   seven pools; quotes of a V3 pool with up to three positions, which overlap, meet in a
   tick and leave gaps, so that the price crosses ticks of either sign, words without
   ticks and prices without liquidity; and the filter of thirteen pools of all kinds over six
   tokens, with a proxy, a token whose slot is mistaken, one with a fee on transfers and one
   that is blocked; paths of two and three hops
   through pairs of four protocols and V3 pools, quoted and executed; and quotes of Aerodrome
   pools, stable and volatile, with tokens of different decimals. *)
EXTENDS ArbGraph, V3Swap, Filter, FlashPath, Aerodrome

Pool(address, type, tokens) ==
    [address |-> address, type |-> type, tokens |-> tokens, funded |-> tokens]
MCPools ==
    {Pool(1, "UniswapV2", {"W", "A"}), Pool(2, "UniswapV2", {"W", "A"}),
     Pool(3, "SushiSwapV2", {"W", "A"}),
     Pool(4, "UniswapV2", {"A", "B"}), Pool(5, "UniswapV3", {"W", "B"}),
     Pool(6, "CurveTriCrypto", {"W", "A", "B"}),
     [Pool(7, "BalancerV2", {"W", "A", "B"}) EXCEPT !.funded = {"W", "A"}]}

Position(lower, upper, amount) == [lower |-> lower, upper |-> upper, amount |-> amount]
MCPositions == {Position(-8, -2, 1), Position(-4, 4, 2), Position(4, 6, 3)}
MCMinTick == -9

Reserves(type, token0, token1, reserve0, reserve1) ==
    [type |-> type, token0 |-> token0, token1 |-> token1, reserve0 |-> reserve0,
     reserve1 |-> reserve1, back |-> 0]
Concentrated(type, token0, token1, back) ==
    [Reserves(type, token0, token1, 200, 300) EXCEPT !.back = back]
MCSyncedPools ==
    <<Reserves("UniswapV2", "W", "A", 6000, 9000), Reserves("AlienBaseV2", "A", "W", 20000, 1000),
      Reserves("PancakeSwapV2", "W", "A", 3000, 3000), Reserves("BaseSwapV2", "A", "W", 20000, 6000),
      Reserves("SushiSwapV2", "B", "A", 8000, 7000), Reserves("AlienBaseV2", "W", "B", 500, 20000),
      Reserves("UniswapV2", "W", "C", 9000, 9000), Reserves("UniswapV2", "W", "X", 9000, 9000),
      Reserves("UniswapV2", "B", "W", 0, 0), Reserves("UniswapV2", "W", "D", 9000, 9000),
      Concentrated("UniswapV3", "W", "A", 96), Concentrated("Slipstream", "B", "W", 94),
      Concentrated("Aerodrome", "C", "W", 99)>>
MCAccessList == [W |-> {6}, A |-> {0, 9}, B |-> {2, 7}, C |-> {2, 9}, D |-> {6}, X |-> {6}]
MCBalanceSlot == [W |-> 6, A |-> 9, B |-> 7, C |-> 9, D |-> 6, X |-> 6]
MCKnownSlots == <<7, 6>>

Market(protocol, token0, token1) == [protocol |-> protocol, token0 |-> token0, token1 |-> token1]
MCPoolOf ==
    [u |-> Market("UniswapV2", "W", "A"), b |-> Market("AlienBaseV2", "A", "W"),
     p |-> Market("PancakeSwapV2", "W", "A"), s |-> Market("BaseSwapV2", "A", "B"),
     v |-> Market("UniswapV3", "A", "W"), w |-> Market("UniswapV3", "W", "B"),
     x |-> Market("Slipstream", "W", "A")]
MCInitialReserves ==
    [u |-> <<300, 330>>, b |-> <<280, 350>>, p |-> <<310, 300>>, s |-> <<320, 290>>,
     v |-> <<250, 270>>, w |-> <<260, 210>>, x |-> <<310, 300>>]
MCArbs ==
    [pools : {path \in {"u", "p", "v"} \X {"b", "v", "p", "x"} : path[1] # path[2]}
                 \cup {<<"u", "s", "w">>, <<"w", "s", "b">>},
     amountIn : {1, 10, 40, 150}]

Aero(reserve0, reserve1, decimals1, stable) ==
    [reserve0 |-> reserve0, reserve1 |-> reserve1, token0_decimals |-> 100,
     token1_decimals |-> decimals1, stable |-> stable, fee |-> 30]
MCStablePools ==
    {Aero(4, 5, 100, TRUE)}
    \cup {Aero(r, s, 100, stable) : r \in {100, 200, 1000}, s \in {100, 700, 1000}, stable \in BOOLEAN}
    \cup {Aero(r, s, 10, TRUE) : r \in {100, 200, 300}, s \in {10, 20, 30}}

SwapAtRest ==
    /\ positions = {} /\ zero_to_one = FALSE /\ pc = "idle"
    /\ amount_specified_remaining = 0 /\ amount_calculated = 0
    /\ sqrt_price = 0 /\ tick = 0 /\ liquidity = 0 /\ start = 0
AeroAtRest ==
    asked = Nobody /\ x0 = 0 /\ xy = 0 /\ y = 0 /\ rounds = 0 /\ answer = NoAnswer
FlashAtRest ==
    /\ FlashInit
    /\ arb = CHOOSE a \in Arbs : TRUE

VARIABLE machine   \* the one that moves

allVars == <<graphVars, swapVars, filterVars, flashVars, aeroVars, machine>>

MCInit ==
    /\ machine \in {"graph", "swap", "filter", "flash", "aerodrome"}
    /\ GraphInit
    /\ IF machine = "swap" THEN SwapInit ELSE SwapAtRest
    /\ FilterInit
    /\ IF machine = "flash" THEN FlashInit ELSE FlashAtRest
    /\ IF machine = "aerodrome" THEN AeroInit ELSE AeroAtRest
MCNext ==
    /\ UNCHANGED machine
    /\ \/ machine = "graph" /\ GraphNext
          /\ UNCHANGED <<swapVars, filterVars, flashVars, aeroVars>>
       \/ machine = "swap" /\ SwapNext
          /\ UNCHANGED <<graphVars, filterVars, flashVars, aeroVars>>
       \/ machine = "filter" /\ FilterNext
          /\ UNCHANGED <<graphVars, swapVars, flashVars, aeroVars>>
       \/ machine = "flash" /\ FlashNext
          /\ UNCHANGED <<graphVars, swapVars, filterVars, aeroVars>>
       \/ machine = "aerodrome" /\ AeroNext
          /\ UNCHANGED <<graphVars, swapVars, filterVars, flashVars>>
MCSpec == MCInit /\ [][MCNext]_allVars /\ WF_swapVars(SwapNext /\ machine = "swap")

=============================================================================
