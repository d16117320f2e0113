SPECIFICATION FairSpec
CONSTANTS
  u1 = u1
  u2 = u2
  u3 = u3
  Users <- ThreeUsers
  MaxEntries = 5
  MaxDrops = 4
  MaxMigrations = 2
CHECK_DEADLOCK FALSE
INVARIANTS
  NothingLeftBehind
  EventsArrive
PROPERTIES
  BacksOff
  MigrationPersists
  UsersSettle
