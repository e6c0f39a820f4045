\* A handle with a subscription and no methods is collected.
SPECIFICATION Spec
CONSTANTS
  Handles = {h1}
  Calls = {c1}
  NoObj = NoObj
  Categories = {k1}
  Fails = {}
  ForgetsFirst = FALSE
  MaxSubscribers = 1
  MaxMethods = 2
  SessionCalls = FALSE
  Script = {"foreignMessage"}
PROPERTIES CancelIsEmitted
CHECK_DEADLOCK FALSE
