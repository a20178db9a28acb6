SPECIFICATION FairSpec
CONSTANTS
    fet = fet  tok = tok  native = native  cw20 = cw20  free = free  average = average
    Denoms = {fet, tok}
    FeeDenom = fet
    Keys = {native, cw20}
    KeyOf <- MCKeyOf
    Uses <- MCUses
    DefaultGas <- MCDefaultGas
    FeeTypes = {free, average}
    Price <- MCPrice
    Adjustment = 13
    Balances <- MCBalances
    Amounts = {10}
    ManualGas = {90}
    ManualFees = {5}
    Nothing = Nothing
    Ordered = TRUE
    MaxInputs = 3
INVARIANTS EstimatesAreOfTheirKey GasIsOfLatestTx MaxLeavesTheFee
PROPERTIES SimulationsEnd
CHECK_DEADLOCK FALSE
