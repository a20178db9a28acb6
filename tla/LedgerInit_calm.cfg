SPECIFICATION LFairSpec
CONSTANTS
    Requests = {r1, r2, r3}
    Nothing = Nothing
    MaxFailures = 2
    Calm = TRUE
INVARIANTS LTypeOK OneConnection DialogIsAnswerable
PROPERTIES RequestEnds
