SPECIFICATION FairSpec
CONSTANTS
    Pages = {p, q}
    Urls = {u, v}
    Flows = {f1, f2, f3}
    Nothing = Nothing
    AsyncStart = {TRUE, FALSE}
    Calm = TRUE
INVARIANTS TypeOK OneAtATime ResponsesAreOfUrl
PROPERTIES WaitGetsFresh WaitEnds
