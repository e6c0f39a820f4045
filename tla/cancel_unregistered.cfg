\* A call whose handle was unregistered: cancel() does not release it.
SPECIFICATION Spec
CONSTANTS
  Handles = {h1}
  Calls = {c1}
  NoObj = NoObj
  Categories = {k1}
  Fails = {"LSCall", "LSRegisterCategoryAppend"}
  ForgetsFirst = FALSE
  MaxSubscribers = 1
  MaxMethods = 2
  SessionCalls = FALSE
  Script = {}
INVARIANTS CancelCanRelease
CHECK_DEADLOCK FALSE
