\* One browser, three releases deployed file by file or at once.
SPECIFICATION CacheSpec
CONSTANTS
  MaxRelease = 3
  Clients = {c1}
INVARIANTS
  OnlyAssetsStick
PROPERTIES
  FreshEntry
