\* Two threads load; the credential is rotated twice.
SPECIFICATION ConfigSpec
CONSTANTS
  Threads = {t1, t2}
  Docs <- MCDocs
  Rotations = 2
SYMMETRY Symmetry
INVARIANTS
  StdinOnce
  UsableCore
  LoggingIsOurs
\* The process goes on to serve.
CHECK_DEADLOCK FALSE
