SPECIFICATION Spec
CONSTANTS
  Callers = {r, p}
  Embedded = {hub}
  Suggested = {beta}
  Versions = {v1}
  Nodes = {n1}
  Nothing = Nothing
  Serial = TRUE
  MaxRestarts = 1
INVARIANTS TypeOK CacheAgrees NoDuplicates NoLeftovers
PROPERTIES ImplementsRegister
CHECK_DEADLOCK FALSE
