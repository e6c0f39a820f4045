------------------------------ MODULE LunaBus -------------------------------
(***************************************************************************)
(* The luna-service2 client library, as far as the add-on depends on it.   *)
(* It is external: every operator is read off the calls src/ makes and the *)
(* results src/ is prepared for.                                           *)
(*                                                                         *)
(* The library keeps, for each LSHandle, the categories registered on it   *)
(* with their user data, the subscriptions added to it and a map of the    *)
(* outstanding calls made through it.  The user data of a category and of  *)
(* an outstanding call are addresses of LS2Handle and LS2Call objects.     *)
(***************************************************************************)
EXTENDS ObjectWrap

CONSTANTS
  Categories,     \* categories a service registers methods in
  Fails,          \* library functions that may return false in this run
  ForgetsFirst,   \* the library drops a finished call before its last callback
                  \* (TRUE) or when that callback has returned (FALSE)
  MaxSubscribers  \* bound on the subscriptions of one handle

LSFunctions ==
  {"LSGmainAttach", "LSSubscriptionSetCancelFunction", "LSRegisterCategoryAppend",
   "LSCategorySetData", "LSUnregister", "LSCall", "LSCallCancel"}

ASSUME BusAssumption ==
  /\ Fails \subseteq LSFunctions
  /\ ForgetsFirst \in BOOLEAN
  /\ MaxSubscribers \in Nat

VARIABLES
  service,     \* the LSHandle: "none", "up" from registration on, "down" after LSUnregister
  category,    \* per handle and category: "none", "nodata" (user data null), "data"
  received,    \* the handles on which a request has been delivered
  subscribers, \* per handle, the subscriptions whose cancellation will be notified
  callMap,     \* per call, the handle on whose call map its token is, or NoObj
  single,      \* the calls made with LSCallOneReply
  timed        \* the calls with a response timeout armed

busVars == <<service, category, received, subscribers, callMap, single, timed>>

BusTypeOK ==
  /\ service \in [Handles -> {"none", "up", "down"}]
  /\ category \in [Handles -> [Categories -> {"none", "nodata", "data"}]]
  /\ received \in SUBSET Handles
  /\ subscribers \in [Handles -> Nat]
  /\ callMap \in [Calls -> Handles \cup {NoObj}]
  /\ single \in SUBSET Calls
  /\ timed \in SUBSET Calls

BusInit ==
  /\ service = [h \in Handles |-> "none"]
  /\ category = [h \in Handles |-> [k \in Categories |-> "none"]]
  /\ received = {}
  /\ subscribers = [h \in Handles |-> 0]
  /\ callMap = [c \in Calls |-> NoObj]
  /\ single = {}
  /\ timed = {}

-----------------------------------------------------------------------------

\* What a call of the library function f may return.
Outcomes(f) == IF f \in Fails THEN BOOLEAN ELSE {TRUE}

Outstanding(c) == callMap[c] # NoObj

\* LSCallCancel on a token the library no longer knows may or may not be
\* reported as an error.
CancelOutcomes(c) == IF Outstanding(c) THEN Outcomes("LSCallCancel") ELSE BOOLEAN

Forget(c) == [callMap EXCEPT ![c] = NoObj]

\* The call map once LSUnregister(h) has returned ok: on success none of the
\* calls made through h is answered any more.
CallMapAfterUnregister(h, ok) ==
  [c \in Calls |-> IF ok /\ callMap[c] = h THEN NoObj ELSE callMap[c]]

\* The library has no further use for the token of c after this reply: an error
\* from the bus itself, or the reply of LSCallOneReply.
LastReply(c, error) == error \/ c \in single

=============================================================================
