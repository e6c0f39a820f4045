\* A call cancelled by its token on the handle, then cancelled by the script.
SPECIFICATION Spec
CONSTANTS
  Handles = {h1}
  Calls = {c1}
  NoObj = NoObj
  Categories = {k1}
  Fails = {"LSCall", "LSRegisterCategoryAppend"}
  ForgetsFirst = FALSE
  MaxSubscribers = 1
  MaxMethods = 2
  SessionCalls = FALSE
  Script = {"cancelByToken"}
INVARIANTS ReleaseNeverAborts
CHECK_DEADLOCK FALSE
