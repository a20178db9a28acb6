SPECIFICATION Spec
CONSTANTS
    s1 = s1  s2 = s2  s3 = s3  p1 = p1  p2 = p2  p3 = p3  u1 = u1  u2 = u2
    Requests = {s1, s2, u1, u2}
    KindOf <- MCKindOf
    Internal = {}
    MaxOutstanding = 3
    Calm = FALSE
INVARIANTS
    TypeOK
PROPERTIES
    SettledOnceByFirstVerdict
CHECK_DEADLOCK FALSE
