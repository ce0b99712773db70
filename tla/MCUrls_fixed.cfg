\* Every configuration and every request, with all short prefixes and paths.
SPECIFICATION UrlsSpec
CONSTANTS
  Hosts = {"h1", "h2"}
  Prefixes <- MCPrefixes
  Paths <- MCPaths
INVARIANTS
  UrlsTypeOK
  LinkJoins
  FixedPrefixIsSound
  
  HostOnlyAsWritten
\* A configuration that is refused ends the application.
CHECK_DEADLOCK FALSE
