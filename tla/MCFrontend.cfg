\* One browser, three releases deployed file by file or at once.
SPECIFICATION FrontendSpec
CONSTANTS
  MaxRelease = 3
  Clients = {c1}
INVARIANTS
  HeaderInTime
PROPERTIES
  ReloadSuffices
  BrowsersCatchUp
