\* Invocations nested three deep; of the tokens 1 to 3 only the first fits one bit, the
\* second becomes the invalid token and the third becomes the first.
SPECIFICATION Spec
CONSTANTS
  JsWidth = 1
  MaxTokens = 3
  MaxDepth = 3
INVARIANTS TypeOK StringsOutliveBody CancelsWhatWasMeant
PROPERTIES NothingAfterUnregister
CHECK_DEADLOCK FALSE
