\* The server, one connection slot and one token; each signal once.
SPECIFICATION AppFairSpec
CONSTANTS
  Http = http
  Waiters = {http}
  Tokens = {t1}
  Conns = {c1}
  MaxRaised = 1
PROPERTIES
  NoKillWhileServing
  ImplementsServe
  HttpOnlyStops
  OneSignalStopsAll
\* The process ends.
CHECK_DEADLOCK FALSE
