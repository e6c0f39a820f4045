\* Two handles, one call, all but LSCallCancel and LSCategorySetData may fail.
SPECIFICATION FairSpec
CONSTANTS
  Handles = {h1, h2}
  Calls = {c1}
  NoObj = NoObj
  Categories = {k1}
  Fails = {"LSGmainAttach", "LSSubscriptionSetCancelFunction", "LSRegisterCategoryAppend", "LSUnregister", "LSCall"}
  ForgetsFirst = TRUE
  MaxSubscribers = 1
  MaxMethods = 1
  SessionCalls = FALSE
  Script = {}
INVARIANTS CallbackTargetPinned NothingLeaks
PROPERTIES LastResponseReleases TimeoutReleases
CHECK_DEADLOCK FALSE
