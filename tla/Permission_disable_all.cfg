SPECIFICATION Spec
CONSTANTS
    fetchhub = fetchhub
    beta = beta
    dapp = dapp
    hub = hub
    wallet = wallet
    Calls = {c1, c2}
    Chains = {fetchhub, beta}
    Embedded = {fetchhub}
    ChainLists <- Both
    Origins = {dapp, hub, wallet}
    Privileged = {hub}
    Internal = {wallet}
    NoOrigin = NoOrigin
    MaySend <- Dapp
    DisableAfterRemoval = TRUE
INVARIANT OnlyWhatUserApproved
