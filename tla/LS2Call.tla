------------------------------ MODULE LS2Call -------------------------------
(***************************************************************************)
(* LS2Call: one outgoing call.  CallInternal of the handle creates it and  *)
(* sends the request; responses arrive as 'response' events until the      *)
(* limit is reached, an error comes from the bus, or the script cancels.   *)
(*                                                                         *)
(* While it is outstanding a call holds one reference to itself, taken in  *)
(* Call and given back in CancelInternal, and from its creation to its     *)
(* destruction it holds one reference to its handle.                       *)
(***************************************************************************)
EXTENDS LS2Handle

CONSTANTS
  SessionCalls,  \* whether the build defines ENABLE_SESSION_CALL
  Script         \* the less usual operations the script uses

kUnlimitedResponses == 0

\* The limits of call, watch and subscribe.
ResponseLimits == {1, 2, kUnlimitedResponses}

\* fResponseCount is only compared with 1 and with a limit of at most 2: beyond
\* CountCap its value is not told apart.
CountCap == 3

ScriptUses ==
  {"session",         \* callSession and subscribeSession
   "cancelByToken",   \* Handle.cancel with the token of a call
   "bareCall",        \* new palmbus.Call(), an LS2Call without a handle
   "foreignMessage"}  \* subscriptionAdd with a message that is no request to the handle

ASSUME CallAssumption ==
  /\ SessionCalls \in BOOLEAN
  /\ Script \subseteq ScriptUses

VARIABLES
  callHandle,     \* LS2Call::fHandle, the handle of a call
  fToken,         \* whether LS2Call::fToken is a valid token
  fResponseLimit,
  fResponseCount,
  errorReply      \* messageInErrorCategory of the response being emitted

callVars == <<callHandle, fToken, fResponseLimit, fResponseCount, errorReply>>

CallTypeOK ==
  /\ callHandle \in [Calls -> Handles \cup {NoObj}]
  /\ fToken \in [Calls -> BOOLEAN]
  /\ fResponseLimit \in [Calls -> ResponseLimits]
  /\ fResponseCount \in [Calls -> 0..CountCap]
  /\ errorReply \in BOOLEAN

CallInit ==
  /\ callHandle = [c \in Calls |-> NoObj]
  /\ fToken = [c \in Calls |-> FALSE]
  /\ fResponseLimit = [c \in Calls |-> 1]
  /\ fResponseCount = [c \in Calls |-> 0]
  /\ errorReply = FALSE

HasValidHandle(c) ==
  /\ callHandle[c] # NoObj
  /\ IsValid(callHandle[c])

-----------------------------------------------------------------------------
(* Making a call *)

\* SetHandle followed by Call on a fresh LS2Call: what is common to every way
\* CallInternal can end once RequireHandle has passed.
SetHandleAndCall(h, c, limit) ==
  /\ Usable(h)
  /\ IsValid(h)
  /\ life[c] = "unborn"
  /\ life' = [life EXCEPT ![c] = "live"]
  /\ callHandle' = [callHandle EXCEPT ![c] = h]
  /\ fResponseLimit' = [fResponseLimit EXCEPT ![c] = limit]
  /\ UNCHANGED <<emitting, crash, service, category, received, subscribers, timed>>
  /\ UNCHANGED <<handleVars, fResponseCount, errorReply>>

\* CallInternal: the bus accepts the request.
CallInternal(h, c, limit) ==
  /\ SetHandleAndCall(h, c, limit)
  /\ refs' = Ref(Ref(refs, h), c)
  /\ held' = held \cup {c}
  /\ fToken' = [fToken EXCEPT ![c] = TRUE]
  /\ callMap' = [callMap EXCEPT ![c] = h]
  /\ single' = IF limit = 1 THEN single \cup {c} ELSE single

\* CallInternal: the bus refuses it.  CallInternal throws and the LS2Call, already
\* bound to its handle, is left to the collector.
CallInternalThrows(h, c, limit) ==
  /\ FALSE \in Outcomes("LSCall")
  /\ SetHandleAndCall(h, c, limit)
  /\ refs' = Ref(refs, h)
  /\ UNCHANGED <<held, fToken, callMap, single>>

\* callSession and subscribeSession in a build without session calls: nothing is
\* sent, and the call references itself all the same.
CallSessionStub(h, c, limit) ==
  /\ "session" \in Script
  /\ ~SessionCalls
  /\ limit # 2
  /\ SetHandleAndCall(h, c, limit)
  /\ refs' = Ref(Ref(refs, h), c)
  /\ held' = held \cup {c}
  /\ UNCHANGED <<fToken, callMap, single>>

\* new palmbus.Call()
NewCall(c) ==
  /\ "bareCall" \in Script
  /\ Running
  /\ life[c] = "unborn"
  /\ life' = [life EXCEPT ![c] = "live"]
  /\ held' = held \cup {c}
  /\ UNCHANGED <<refs, emitting, crash>>
  /\ UNCHANGED <<busVars, handleVars, callVars>>

-----------------------------------------------------------------------------
(* Giving a call up *)

\* CancelInternal gets past its early returns and its RequireHandle.
CancelProceeds_Outstanding(c) ==
  /\ fToken[c]
  /\ HasValidHandle(c)
  /\ Outstanding(c)
CancelProceeds(c) ==
  /\ fToken[c]
  /\ HasValidHandle(c)

\* CancelInternal has to tell the bus: not after the one reply of LSCallOneReply.
MustCancel_NotOneReply(c) == fResponseLimit[c] # 1 /\ fResponseCount[c] # 1
MustCancel(c) == fResponseLimit[c] # 1 \/ fResponseCount[c] # 1

\* Cancel.  CancelInternal gives the self-reference back before it asks the bus,
\* and fToken survives when the bus refuses and Cancel throws.
CancelCall(c) ==
  /\ Usable(c)
  /\ CancelProceeds(c)
  /\ refs' = Unref(refs, c)
  /\ crash' = IF refs[c] = 0 THEN "unref" ELSE crash
  /\ \E ok \in IF MustCancel(c) THEN CancelOutcomes(c) ELSE {TRUE} :
       /\ callMap' = IF ok /\ MustCancel(c) THEN Forget(c) ELSE callMap
       /\ timed' = IF ok /\ MustCancel(c) THEN timed \ {c} ELSE timed
       /\ fToken' = [fToken EXCEPT ![c] = ~ok]
  /\ UNCHANGED <<life, held, emitting, service, category, received, subscribers, single>>
  /\ UNCHANGED <<handleVars, callHandle, fResponseLimit, fResponseCount, errorReply>>

\* LS2Handle::Cancel with the token of c, known to the script from a response.
\* The LS2Call is not told.
CancelToken(h, c) ==
  /\ "cancelByToken" \in Script
  /\ Usable(h)
  /\ IsValid(h)
  /\ callMap[c] = h
  /\ fResponseCount[c] > 0
  /\ callMap' = Forget(c)
  /\ timed' = timed \ {c}
  /\ UNCHANGED wrapVars
  /\ UNCHANGED <<service, category, received, subscribers, single>>
  /\ UNCHANGED <<handleVars, callVars>>

\* SetResponseTimeout: unlike the other methods it dereferences fHandle unchecked.
SetResponseTimeout(c) ==
  /\ Usable(c)
  /\ \/ /\ CancelProceeds(c)
        /\ Outstanding(c)
        /\ timed' = timed \cup {c}
        /\ UNCHANGED crash
     \/ /\ callHandle[c] = NoObj
        /\ crash' = "null"
        /\ UNCHANGED timed
  /\ UNCHANGED <<life, refs, held, emitting>>
  /\ UNCHANGED <<service, category, received, subscribers, callMap, single>>
  /\ UNCHANGED <<handleVars, callVars>>

-----------------------------------------------------------------------------
(* Responses *)

\* ResponseCallback and the first half of ResponseArrived, up to the listeners.
\* An error is a reply from the bus itself, an expired timeout among others.
ResponseArrived(c, error) ==
  /\ Idle
  /\ Outstanding(c)
  /\ EmitMessage(c)
  /\ errorReply' = error
  /\ fResponseCount' = [fResponseCount EXCEPT ![c] = IF @ < CountCap THEN @ + 1 ELSE @]
  /\ callMap' = IF ForgetsFirst /\ LastReply(c, error) THEN Forget(c) ELSE callMap
  /\ timed' = timed \ {c}
  /\ UNCHANGED <<service, category, received, subscribers, single>>
  /\ UNCHANGED <<handleVars, callHandle, fToken, fResponseLimit>>

LimitReached_Above(c) ==
  /\ fResponseLimit[c] # kUnlimitedResponses
  /\ fResponseCount[c] > fResponseLimit[c]
LimitReached(c) ==
  /\ fResponseLimit[c] # kUnlimitedResponses
  /\ fResponseCount[c] >= fResponseLimit[c]

\* The call is over with the response just emitted.
LastResponse_LimitOnly(c) == LimitReached(c)
LastResponse(c) == errorReply \/ LimitReached(c)

\* The token after the response: invalid once the call is over.
TokenAfterResponse_Kept(c) == fToken[c]
TokenAfterResponse(c) == fToken[c] /\ ~LastResponse(c)

\* The listeners return and ResponseArrived goes on: after the last response the
\* self-reference is given back and, unless the bus already did, the call dropped.
EndResponse(c) ==
  LET released == LastResponse(c) /\ CancelProceeds(c)
      asks     == released /\ ~errorReply /\ MustCancel(c)
  IN
  /\ Running
  /\ emitting = c
  /\ emitting' = NoObj
  /\ refs' = IF released THEN Unref(refs, c) ELSE refs
  /\ crash' = IF released /\ refs[c] = 0 THEN "unref" ELSE crash
  /\ fToken' = [fToken EXCEPT ![c] = TokenAfterResponse(c)]
  /\ \E ok \in IF asks THEN CancelOutcomes(c) ELSE {FALSE} :
       callMap' = IF ok \/ LastReply(c, errorReply) THEN Forget(c) ELSE callMap
  /\ timed' = {d \in timed : callMap'[d] # NoObj}
  /\ errorReply' = FALSE
  /\ UNCHANGED <<life, held, service, category, received, subscribers, single>>
  /\ UNCHANGED <<handleVars, callHandle, fResponseLimit, fResponseCount>>

-----------------------------------------------------------------------------
(* Subscriptions *)

\* The script has a message to add on h: a request that came in through h, or any
\* other one, a request to another handle or the response to a call.
HasMessageFor(h) ==
  \/ h \in received
  \/ /\ "foreignMessage" \in Script
     /\ received # {} \/ \E c \in Calls : fResponseCount[c] > 0

\* LS2Handle::SubscriptionAdd, which takes whatever message it is given.
SubscriptionAdd(h) ==
  /\ Usable(h)
  /\ IsValid(h)
  /\ HasMessageFor(h)
  /\ subscribers[h] < MaxSubscribers
  /\ subscribers' = [subscribers EXCEPT ![h] = @ + 1]
  /\ UNCHANGED wrapVars
  /\ UNCHANGED <<service, category, received, callMap, single, timed>>
  /\ UNCHANGED <<handleVars, callVars>>

-----------------------------------------------------------------------------
(* Destruction *)

\* CallCompleted: the reference to the handle is given back.
RefsAfterDestruction_Kept(c) == refs
RefsAfterDestruction(c) ==
  IF callHandle[c] = NoObj THEN refs ELSE Unref(refs, callHandle[c])

\* ~LS2Call, run by the collector.  A token still valid on a valid handle sends
\* CancelInternal to the Unref() of a dead object, which aborts.
CollectCall(c) ==
  /\ Collectable(c)
  /\ life' = [life EXCEPT ![c] = "collected"]
  /\ refs' = RefsAfterDestruction(c)
  /\ crash' = IF CancelProceeds(c) \/ (callHandle[c] # NoObj /\ refs[callHandle[c]] = 0)
                THEN "unref" ELSE crash
  /\ UNCHANGED <<held, emitting>>
  /\ UNCHANGED <<busVars, handleVars, callVars>>

=============================================================================
