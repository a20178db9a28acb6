SPECIFICATION Spec
CONSTANTS
    u = u  w = w  v = v
    m1 = m1  m2 = m2  x1 = x1  l1 = l1  l2 = l2  k1 = k1
    p = p  q = q
    NoPassword = NoPassword  NoKey = NoKey  NoStore = NoStore  Absent = Absent
    Slots = {u}
    Allowed <- WithDevices
    Keys = {m1, l1, k1}
    KindOf <- MCKindOf
    Passwords = {p, q}
    FirstVaults <- NewOrList
    MaxNumber = 3
    MaxCrashes = 2
    PagesSurvive = TRUE
INVARIANTS
    IdsUnique
PROPERTIES
    OnlyDeletedKeysLeave
    LedgerAppKeepsAccounts
CHECK_DEADLOCK FALSE
