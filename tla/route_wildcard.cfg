SPECIFICATION Spec
CONSTANTS
  Threads = {t1}
  Requests <- MCRequests
  Statuses = {200, 299}
  NoHandler = NoHandler
  Paths <- MCPaths
  Methods = {"GET"}
  Calls <- FewCalls
  MaxCalls = 2
  Regex <- MCRegex
INVARIANTS WildcardsMatch
