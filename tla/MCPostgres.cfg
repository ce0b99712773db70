\* Three replicas of two releases, two crashes, outages or lost sessions.
SPECIFICATION PgSpec
CONSTANTS
  r1 = r1
  r2 = r2
  r3 = r3
  Replicas = {r1, r2, r3}
  Migrations <- MCMigrations
  Crashes = 2
INVARIANTS
  ReadyIsMigrated
  StartsDoNotCollide
PROPERTIES
  ImplementsLog
  StartsReturn
\* Replicas that are ready stay so.
CHECK_DEADLOCK FALSE
