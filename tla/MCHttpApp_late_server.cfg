\* The server next to a component that took its token first.
SPECIFICATION AppFairSpec
CONSTANTS
  Http = http
  Waiters = {http}
  Tokens = {t1}
  Conns = {c1}
  MaxRaised = 1
PROPERTIES
  ServesUntilShutdown
CHECK_DEADLOCK FALSE
