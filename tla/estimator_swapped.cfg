SPECIFICATION Spec
CONSTANTS
    Pools <- MCPools
    Token0 <- MCToken0
    Token1 <- MCToken1
    Decimals <- MCDecimals
    WETH = "W"
    RATE_SCALE = 3
    AMOUNT = 100
    MinProfit = 101
    MaxEstimate = 300
    Reserves <- MCReserves
    NoRate = NoRate
    MaxBatches = 2
INVARIANT SelectedPaysMore
\* the number of batches is bounded
CHECK_DEADLOCK FALSE
