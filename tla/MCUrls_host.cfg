\* Configured addresses of every path and the links on them.
SPECIFICATION UrlsSpec
CONSTANTS
  Hosts = {"h1"}
  Prefixes <- MCPrefixes
  Paths <- MCPaths
INVARIANTS
  InternalKeepsHost
CHECK_DEADLOCK FALSE
