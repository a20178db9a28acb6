CONSTANTS
    r1 = r1
    r2 = r2
    r3 = r3
    m = m
    l = l
    hub = hub
    beta = beta
    c118 = c118
    c60 = c60
    Requests = {r1, r2, r3}
    Asks <- Asks3
    Accounts = {m, l}
    KindOf <- Kinds2
    Chains = {hub, beta}
    DefaultCoinType <- CoinTypes2
    CoinTypes = {c118, c60}
    FixedCoinType = c60
    Selectable <- Selectable2
    NotSet = NotSet
    Pages = {popup, panel}
    AccountStays = TRUE
    Calm = TRUE
SPECIFICATION FairSpec
INVARIANTS
    TypeOK
    SignatureIsOfSigner
PROPERTY
    PageIsReleased
