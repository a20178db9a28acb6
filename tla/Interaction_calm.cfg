SPECIFICATION FairSpec
CONSTANTS
    s1 = s1  s2 = s2  s3 = s3  p1 = p1  p2 = p2  p3 = p3  u1 = u1  u2 = u2
    Requests = {s1, s3, p1, u1}
    KindOf <- MCKindOf
    Internal = {s3}
    MaxOutstanding = 1
    Calm = TRUE
PROPERTIES
    EveryRequestIsAnswered
CHECK_DEADLOCK FALSE
