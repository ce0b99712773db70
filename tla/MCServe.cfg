\* Three connection slots.
SPECIFICATION ServeFairSpec
CONSTANTS
  Conns = {c1, c2, c3}
INVARIANTS
  OkMeansDrained
PROPERTIES
  NoRequestCut
  OnlyRequestsDelayReturn
  SignalEndsServe
  BacklogServed
\* serve() returns.
CHECK_DEADLOCK FALSE
