SPECIFICATION Spec
CONSTANTS
  Txs = {t, u}
  Nothing = Nothing
INVARIANTS TypeOK ResolvedIsCommitted NothingLeftOpen
PROPERTIES CommittedIsFound
CHECK_DEADLOCK FALSE
