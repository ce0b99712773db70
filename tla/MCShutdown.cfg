\* One token and a direct future; both signals, each raised up to twice.
SPECIFICATION FairSpec
CONSTANTS
  Waiters = {w1}
  Tokens = {t1}
  MaxRaised = 2
INVARIANTS
  NoLostSignal
  PartialRegistration
  ShutdownHasCause
PROPERTIES
  GracefulOnceRegistered
  WatcherTerminates
  ImplementsLatch
\* The process may be killed or exit.
CHECK_DEADLOCK FALSE
