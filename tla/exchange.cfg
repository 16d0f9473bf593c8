SPECIFICATION Spec
CONSTANTS
  Threads = {t1}
  Requests <- MCRequests
  Statuses = {200, 299}
  NoHandler = NoHandler
  Paths <- MCPaths
  Methods = {"GET", "DELETE"}
  Calls <- MCCalls
  MaxCalls = 2
  Regex <- MCRegex
INVARIANTS
  SearchFindsFirst OneResponse MiddlewareFirst HandlerSeesParams
  GroupsAreNested ResourcesAnswer
PROPERTIES AnswersAreFinal
