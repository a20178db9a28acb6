---------------------------- MODULE MCInteraction ----------------------------
EXTENDS Interaction

CONSTANTS s1, s2, s3, p1, p2, p3, u1, u2

MCKindOf ==
    [r \in Requests |-> CASE r \in {s1, s2, s3} -> "request-sign"
                          [] r \in {p1, p2, p3} -> "permission"
                          [] r \in {u1, u2}     -> "unlock"]
=============================================================================
