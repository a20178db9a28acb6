SPECIFICATION Spec
CONSTANTS
    u = u  w = w  v = v
    m1 = m1  m2 = m2  x1 = x1  l1 = l1  l2 = l2  k1 = k1
    p = p  q = q
    NoPassword = NoPassword  NoKey = NoKey  NoStore = NoStore  Absent = Absent
    Slots = {u, w}
    Allowed <- OnePage
    Keys = {m1, m2, x1}
    KindOf <- MCKindOf
    Passwords = {p, q}
    FirstVaults <- NewOrSingle
    MaxNumber = 3
    MaxCrashes = 0
    PagesSurvive = FALSE
INVARIANTS
    TypeOK
    UnlockedHasPassword
    SecretMatchesSelection
    PasswordOpensAll
    SelectedIsListed
    SettledPersisted
CHECK_DEADLOCK FALSE
