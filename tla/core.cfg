\* One handle, two calls, a bus that may refuse calls and registrations, session calls.
SPECIFICATION Spec
CONSTANTS
  Handles = {h1}
  Calls = {c1, c2}
  NoObj = NoObj
  Categories = {k1}
  Fails = {"LSGmainAttach", "LSSubscriptionSetCancelFunction", "LSRegisterCategoryAppend", "LSCall"}
  ForgetsFirst = FALSE
  MaxSubscribers = 1
  MaxMethods = 2
  SessionCalls = FALSE
  Script = {"session"}
INVARIANTS TokenMeansOutstanding NoCrash NoMoreThanLimit
PROPERTIES ImplementsContract NoResponseAfterCancel
CHECK_DEADLOCK FALSE
