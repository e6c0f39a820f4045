\* Every library function may fail and the script uses everything.
SPECIFICATION Spec
CONSTANTS
  Handles = {h1}
  Calls = {c1, c2}
  NoObj = NoObj
  Categories = {k1}
  Fails = {"LSGmainAttach", "LSSubscriptionSetCancelFunction", "LSRegisterCategoryAppend", "LSCategorySetData", "LSUnregister", "LSCall", "LSCallCancel"}
  ForgetsFirst = TRUE
  MaxSubscribers = 1
  MaxMethods = 2
  SessionCalls = FALSE
  Script = {"session", "cancelByToken", "bareCall", "foreignMessage"}
SYMMETRY CallSymmetry
INVARIANTS TypeOK HandleRefsExact CallHandleAlive MethodsKeepHandle
PROPERTIES ReleasedByLastResponse
CHECK_DEADLOCK FALSE
