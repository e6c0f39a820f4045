-------------------------- MODULE SysbusSafetyProofs --------------------------
(***************************************************************************)
(* The callbacks of the bus find their objects, cancel() and the           *)
(* destructor find what they give back, no limit is exceeded and nothing   *)
(* aborts, for every set of handles, calls and categories.  Each theorem   *)
(* assumes of the environment what it needs and no more: Obeyed for what   *)
(* calls keep alive, with Remembered for their token and with Released for *)
(* their limit, with Released and OwnRequests for the callbacks, and all   *)
(* the assumptions only for NoCrashCorrect.                                *)
(***************************************************************************)
EXTENDS SysbusProofs

\* No call is cancelled by its number behind the back of its LS2Call.
Unnumbered == "cancelByToken" \notin Script

\* Moreover LSCallCancel succeeds for a call the library knows.
Obeyed == "LSCallCancel" \notin Fails /\ Unnumbered

\* The library knows a call until its last callback has returned.
Remembered == ForgetsFirst = FALSE

\* LSUnregister succeeds.
Released == "LSUnregister" \notin Fails

\* The data of a category is always set and new Call() is left alone.
Careful == "LSCategorySetData" \notin Fails /\ "bareCall" \notin Script

\* Session calls, if made at all, are sent.
SessionsSent == SessionCalls \/ "session" \notin Script

\* subscriptionAdd is given requests to the handle itself.
OwnRequests == "foreignMessage" \notin Script

-----------------------------------------------------------------------------
(* Handles: the address given to the bus *)

\* Why the bus has the address of a live handle: as long as the handle was not given
\* up, a category on it means a method on it, and methods keep it alive; and a
\* subscriber has sent a request, to a category.
TargetInv ==
  /\ RefInv
  /\ \A h \in Handles : life[h] = "unborn" => \A k \in Categories : category[h][k] = "none"
  /\ \A h \in Handles : subscribers[h] > 0 => h \in received
  /\ \A h \in received : \E k \in Categories : category[h][k] # "none"
  /\ \A h \in Handles, k \in Categories :
       fHandle[h] /\ category[h][k] # "none" => fRegisteredMethods[h] > 0

\* A step that leaves categories, methods and requests alone.
LEMMA TargetFrame ==
  ASSUME TargetInv, RefInv', UNCHANGED <<category, received, fRegisteredMethods>>,
         \A h \in Handles : life'[h] = "unborn" => life[h] = "unborn",
         \A h \in Handles : fHandle'[h] => fHandle[h] \/ life[h] = "unborn",
         \A h \in Handles : subscribers'[h] > 0 => subscribers[h] > 0 \/ h \in received
  PROVE  TargetInv'
BY DEF TargetInv

LEMMA TargetStep == OwnRequests /\ TargetInv /\ [Next]_vars => TargetInv'
<1> SUFFICES ASSUME OwnRequests, TargetInv, [Next]_vars PROVE TargetInv'
  OBVIOUS
<1>a. RefInv /\ RefInv'
  BY RefStep DEF TargetInv
<1>b. /\ life \in [Objects -> Lives] /\ Handles \subseteq Objects /\ Calls \subseteq Objects
      /\ category \in [Handles -> [Categories -> {"none", "nodata", "data"}]]
      /\ received \in SUBSET Handles /\ subscribers \in [Handles -> Nat]
      /\ fHandle \in [Handles -> BOOLEAN] /\ fRegisteredMethods \in [Handles -> Nat]
      /\ \A c \in Calls, h \in Handles : c # h
  BY <1>a, ObjectsAssumption
     DEF RefInv, TypeOK, WrapTypeOK, BusTypeOK, HandleTypeOK, Objects
<1>1. ASSUME NEW o \in Objects, Drop(o) \/ Keep(o), UNCHANGED <<busVars, handleVars, callVars>>
      PROVE  TargetInv'
  BY <1>1, <1>a, TargetFrame DEF Drop, Keep, busVars, handleVars
<1>2. ASSUME NEW h \in Handles, NewHandle(h), UNCHANGED callVars PROVE TargetInv'
  BY <1>2, <1>a, <1>b, TargetFrame DEF NewHandle
<1>3. ASSUME NEW h \in Handles, NewHandleThrows(h), UNCHANGED callVars PROVE TargetInv'
  BY <1>3, <1>a, <1>b, TargetFrame DEF NewHandleThrows, handleVars
<1>4. ASSUME NEW h \in Handles, NEW k \in Categories, RegisterMethod(h, k), UNCHANGED callVars
      PROVE  TargetInv'
  <2>1. PICK s \in {"none", "nodata", "data"} :
          /\ category' = [category EXCEPT ![h][k] = s]
          /\ category[h][k] # "none" => s # "none"
    <3>1. category[h][k] \in {"none", "nodata", "data"}
      BY <1>b
    <3>2. \A s \in CategoryAfter(h, k) :
            s \in {"none", "nodata", "data"} /\ (category[h][k] # "none" => s # "none")
      BY <3>1 DEF CategoryAfter
    <3>. QED
      BY <1>4, <3>2 DEF RegisterMethod
  <2>2. /\ life' = life /\ life[h] # "unborn" /\ fHandle' = fHandle
        /\ received' = received /\ subscribers' = subscribers
        /\ fRegisteredMethods' = [fRegisteredMethods EXCEPT ![h] = @ + 1]
    BY <1>4 DEF RegisterMethod, Usable, Live
  <2>3. \A g \in Handles, j \in Categories :
          /\ category[g][j] # "none" => category'[g][j] # "none"
          /\ g # h => category'[g][j] = category[g][j]
    BY <2>1, <1>b
  <2>4. fRegisteredMethods'[h] > 0
        /\ \A g \in Handles \ {h} : fRegisteredMethods'[g] = fRegisteredMethods[g]
    BY <2>2, <1>b
  <2>. QED
    BY <1>a, <1>b, <2>2, <2>3, <2>4 DEF TargetInv
<1>5. ASSUME NEW h \in Handles, Unregister(h), UNCHANGED callVars PROVE TargetInv'
  <2>1. /\ life' = life /\ received' = received /\ category' = category
        /\ fHandle' = [fHandle EXCEPT ![h] = FALSE]
        /\ fRegisteredMethods' = [fRegisteredMethods EXCEPT ![h] = 0]
    BY <1>5 DEF Unregister
  <2>2. \A g \in Handles : subscribers'[g] > 0 => subscribers[g] > 0
    BY <1>5, <1>b DEF Unregister
  <2>3. \A g \in Handles : fHandle'[g] =>
          fHandle[g] /\ fRegisteredMethods'[g] = fRegisteredMethods[g]
    BY <2>1, <1>b
  <2>. QED
    BY <1>a, <2>1, <2>2, <2>3 DEF TargetInv
<1>6. ASSUME NEW h \in Handles, SubscriptionAdd(h) PROVE TargetInv'
  BY <1>6, <1>a, <1>b, TargetFrame
     DEF SubscriptionAdd, HasMessageFor, OwnRequests, wrapVars, handleVars
<1>7. ASSUME NEW h \in Handles, NEW c \in Calls, NEW limit \in ResponseLimits,
             CallInternal(h, c, limit) \/ CallInternalThrows(h, c, limit)
               \/ CallSessionStub(h, c, limit)
      PROVE  TargetInv'
  <2>1. SetHandleAndCall(h, c, limit)
    BY <1>7 DEF CallInternal, CallInternalThrows, CallSessionStub
  <2>. QED
    BY <2>1, <1>a, <1>b, TargetFrame DEF SetHandleAndCall, handleVars
<1>8. ASSUME NEW c \in Calls, NewCall(c) PROVE TargetInv'
  BY <1>8, <1>a, <1>b, TargetFrame DEF NewCall, busVars, handleVars
<1>9. ASSUME NEW c \in Calls, CancelCall(c) PROVE TargetInv'
  BY <1>9, <1>a, TargetFrame DEF CancelCall, handleVars
<1>10. ASSUME NEW c \in Calls, SetResponseTimeout(c) PROVE TargetInv'
  BY <1>10, <1>a, TargetFrame DEF SetResponseTimeout, handleVars
<1>11. ASSUME NEW h \in Handles, NEW c \in Calls, CancelToken(h, c) PROVE TargetInv'
  BY <1>11, <1>a, TargetFrame DEF CancelToken, wrapVars, handleVars
<1>12. ASSUME NEW h \in Handles, NEW k \in Categories, RequestArrived(h, k), UNCHANGED callVars
       PROVE  TargetInv'
  <2>1. /\ category[h][k] # "none" /\ received' = received \cup {h}
        /\ life' = life
        /\ UNCHANGED <<category, subscribers, fHandle, fRegisteredMethods>>
    BY <1>12 DEF RequestArrived, EmitMessage, handleVars
  <2>. QED
    BY <2>1, <1>a DEF TargetInv
<1>13. ASSUME NEW h \in Handles, CancelArrived(h), UNCHANGED callVars PROVE TargetInv'
  BY <1>13, <1>a, <1>b, TargetFrame DEF CancelArrived, EmitMessage, handleVars
<1>14. ASSUME NEW c \in Calls, NEW error \in BOOLEAN, ResponseArrived(c, error) PROVE TargetInv'
  BY <1>14, <1>a, TargetFrame DEF ResponseArrived, EmitMessage, handleVars
<1>15. ASSUME EndHandleEvent, UNCHANGED callVars PROVE TargetInv'
  BY <1>15, <1>a, TargetFrame DEF EndHandleEvent, busVars, handleVars
<1>16. ASSUME NEW c \in Calls, EndResponse(c) PROVE TargetInv'
  BY <1>16, <1>a, TargetFrame DEF EndResponse, handleVars
<1>17. ASSUME NEW h \in Handles, CollectHandle(h), UNCHANGED callVars PROVE TargetInv'
  BY <1>17, <1>a, <1>b, TargetFrame DEF CollectHandle, busVars, handleVars
<1>18. ASSUME NEW c \in Calls, CollectCall(c) PROVE TargetInv'
  BY <1>18, <1>a, <1>b, TargetFrame DEF CollectCall, busVars, handleVars
<1>19. CASE UNCHANGED vars
  BY <1>19, <1>a, TargetFrame DEF vars, wrapVars, busVars, handleVars
<1>. QED
  BY <1>1, <1>2, <1>3, <1>4, <1>5, <1>6, <1>7, <1>8, <1>9, <1>10, <1>11, <1>12, <1>13, <1>14,
     <1>15, <1>16, <1>17, <1>18, <1>19
     DEF Next, ScriptStep, BusStep, ListenersReturn, CollectorStep

LEMMA TargetInvariant == ASSUME OwnRequests PROVE Spec => []TargetInv
<1>1. Init /\ RefInv => TargetInv
  BY DEF Init, HandleInit, BusInit, TargetInv
<1>. QED
  BY <1>1, RefInvariant, TargetStep, PTL DEF Spec

-----------------------------------------------------------------------------
(* Calls: a step seen by one call *)

\* The step leaves c alone, or the library forgets it as its handle is given up.
Untouched(c) ==
  /\ life'[c] = life[c] /\ refs'[c] = refs[c]
  /\ callHandle'[c] = callHandle[c] /\ fToken'[c] = fToken[c]
  /\ fResponseLimit'[c] = fResponseLimit[c] /\ fResponseCount'[c] = fResponseCount[c]
  /\ c \in single' <=> c \in single
  /\ \/ callMap'[c] = callMap[c]
     \/ callMap'[c] = NoObj /\ ~fHandle'[callMap[c]]
  /\ emitting' = c <=> emitting = c
  /\ emitting = c => errorReply' = errorReply

\* c is made: sent to the bus, refused or stubbed, or left without a handle.
Made(c) ==
  /\ life[c] = "unborn" /\ life'[c] = "live"
  /\ fResponseLimit'[c] \in ResponseLimits /\ fResponseCount'[c] = fResponseCount[c]
  /\ emitting' = emitting
  /\ \/ /\ callHandle'[c] \in Handles /\ fHandle'[callHandle'[c]]
        /\ callMap'[c] = callHandle'[c] /\ fToken'[c] = TRUE
        /\ refs'[c] = refs[c] + 1
        /\ c \in single' <=> c \in single \/ fResponseLimit'[c] = 1
     \/ /\ callHandle'[c] \in Handles \/ "bareCall" \in Script
        /\ refs'[c] = refs[c] \/ (refs'[c] = refs[c] + 1 /\ ~SessionsSent)
        /\ callMap'[c] = callMap[c] /\ fToken'[c] = fToken[c]
        /\ c \in single' <=> c \in single

\* Every step of the add-on either does one of these to c or is an operation on c.
LEMMA CallView ==
  ASSUME TypeOK, [Next]_vars, NEW c \in Calls
  PROVE  \/ Untouched(c) \/ Made(c) \/ CancelCall(c) \/ EndResponse(c) \/ CollectCall(c)
         \/ \E error \in BOOLEAN : ResponseArrived(c, error)
         \/ \E h \in Handles : CancelToken(h, c)
<1>b. /\ life \in [Objects -> Lives] /\ refs \in [Objects -> Nat]
      /\ callMap \in [Calls -> Handles \cup {NoObj}] /\ single \in SUBSET Calls
      /\ callHandle \in [Calls -> Handles \cup {NoObj}] /\ fToken \in [Calls -> BOOLEAN]
      /\ fResponseLimit \in [Calls -> ResponseLimits]
      /\ fResponseCount \in [Calls -> 0..CountCap] /\ fHandle \in [Handles -> BOOLEAN]
  BY DEF TypeOK, WrapTypeOK, BusTypeOK, HandleTypeOK, CallTypeOK
<1>c. /\ Handles \subseteq Objects /\ Calls \subseteq Objects /\ c \in Objects
      /\ NoObj \notin Objects /\ c \notin Handles
  BY ObjectsAssumption DEF Objects
<1>1. ASSUME NEW o \in Objects, Drop(o) \/ Keep(o), UNCHANGED <<busVars, handleVars, callVars>>
      PROVE  Untouched(c)
  BY <1>1 DEF Drop, Keep, busVars, callVars, Untouched
<1>2. ASSUME NEW h \in Handles, NewHandle(h), UNCHANGED callVars PROVE Untouched(c)
  BY <1>2, <1>b, <1>c DEF NewHandle, callVars, Untouched
<1>3. ASSUME NEW h \in Handles, NewHandleThrows(h), UNCHANGED callVars PROVE Untouched(c)
  BY <1>3, <1>b, <1>c DEF NewHandleThrows, callVars, Untouched
<1>4. ASSUME NEW h \in Handles, NEW k \in Categories, RegisterMethod(h, k), UNCHANGED callVars
      PROVE  Untouched(c)
  <2>1. refs'[c] = refs[c]
    BY <1>4, <1>b, <1>c DEF RegisterMethod, RefsAfterRegister, Ref
  <2>. QED
    BY <1>4, <2>1 DEF RegisterMethod, callVars, Untouched
<1>5. ASSUME NEW h \in Handles, Unregister(h), UNCHANGED callVars PROVE Untouched(c)
  <2>1. refs'[c] = refs[c]
    BY <1>5, <1>b, <1>c DEF Unregister, RefsAfterUnregister, Unref
  <2>2. ~fHandle'[h]
    BY <1>5, <1>b DEF Unregister
  <2>3. callMap'[c] = callMap[c] \/ (callMap'[c] = NoObj /\ callMap[c] = h)
    BY <1>5 DEF Unregister, CallMapAfterUnregister
  <2>. QED
    BY <1>5, <2>1, <2>2, <2>3 DEF Unregister, callVars, Untouched
<1>6. ASSUME NEW h \in Handles, SubscriptionAdd(h) PROVE Untouched(c)
  BY <1>6 DEF SubscriptionAdd, wrapVars, callVars, Untouched
<1>7. ASSUME NEW h \in Handles, NEW d \in Calls, NEW limit \in ResponseLimits,
             CallInternal(h, d, limit) \/ CallInternalThrows(h, d, limit)
               \/ CallSessionStub(h, d, limit)
      PROVE  Untouched(c) \/ Made(c)
  <2>1. /\ SetHandleAndCall(h, d, limit)
        /\ h \in Objects /\ d \in Objects /\ h # c /\ h # d
    BY <1>7, <1>c, ObjectsAssumption DEF CallInternal, CallInternalThrows, CallSessionStub
  <2>2. /\ fHandle[h] /\ fHandle' = fHandle /\ life[d] = "unborn"
        /\ life' = [life EXCEPT ![d] = "live"]
        /\ callHandle' = [callHandle EXCEPT ![d] = h]
        /\ fResponseLimit' = [fResponseLimit EXCEPT ![d] = limit]
        /\ UNCHANGED <<emitting, fResponseCount, errorReply>>
    BY <2>1 DEF SetHandleAndCall, IsValid, handleVars
  <2>3. \/ /\ refs' = Ref(Ref(refs, h), d)
           /\ fToken' = [fToken EXCEPT ![d] = TRUE]
           /\ callMap' = [callMap EXCEPT ![d] = h]
           /\ single' = IF limit = 1 THEN single \cup {d} ELSE single
        \/ /\ \/ refs' = Ref(refs, h)
              \/ refs' = Ref(Ref(refs, h), d) /\ ~SessionsSent
           /\ UNCHANGED <<fToken, callMap, single>>
    BY <1>7 DEF CallInternal, CallInternalThrows, CallSessionStub, SessionsSent
  <2>4. CASE d = c
    <3>1. /\ refs' = Ref(Ref(refs, h), c) => refs'[c] = refs[c] + 1
          /\ refs' = Ref(refs, h) => refs'[c] = refs[c]
      BY <2>1, <1>b, <1>c DEF Ref
    <3>2. /\ life[c] = "unborn" /\ life'[c] = "live" /\ callHandle'[c] = h
          /\ fResponseLimit'[c] = limit /\ fHandle'[h]
      BY <1>b, <1>c, <2>2, <2>4
    <3>3. ASSUME callMap' = [callMap EXCEPT ![d] = h], fToken' = [fToken EXCEPT ![d] = TRUE]
          PROVE  callMap'[c] = h /\ fToken'[c] = TRUE
      BY <1>b, <2>4, <3>3
    <3>. QED
      BY <2>2, <2>3, <2>4, <3>1, <3>2, <3>3 DEF Made
  <2>5. CASE d # c
    <3>1. refs'[c] = refs[c]
      BY <1>b, <1>c, <2>1, <2>3, <2>5 DEF Ref
    <3>. QED
      BY <1>b, <1>c, <2>2, <2>3, <2>5, <3>1 DEF Untouched
  <2>. QED
    BY <2>4, <2>5
<1>8. ASSUME NEW d \in Calls, NewCall(d) PROVE Untouched(c) \/ Made(c)
  BY <1>8, <1>b, <1>c DEF NewCall, busVars, handleVars, callVars, Untouched, Made
<1>9. ASSUME NEW d \in Calls, d # c, CancelCall(d) PROVE Untouched(c)
  <2>1. refs'[c] = refs[c] /\ fToken'[c] = fToken[c] /\ callMap'[c] = callMap[c]
    BY <1>9, <1>b, <1>c DEF CancelCall, Unref, Forget
  <2>. QED
    BY <1>9, <2>1 DEF CancelCall, Untouched
<1>10. ASSUME NEW d \in Calls, SetResponseTimeout(d) PROVE Untouched(c)
  BY <1>10 DEF SetResponseTimeout, callVars, Untouched
<1>11. ASSUME NEW h \in Handles, NEW d \in Calls, d # c, CancelToken(h, d) PROVE Untouched(c)
  <2>1. callMap'[c] = callMap[c]
    BY <1>11, <1>b DEF CancelToken, Forget
  <2>. QED
    BY <1>11, <2>1 DEF CancelToken, wrapVars, callVars, Untouched
<1>12. ASSUME NEW h \in Handles, NEW k \in Categories, RequestArrived(h, k), UNCHANGED callVars
       PROVE  Untouched(c)
  BY <1>12, <1>c DEF RequestArrived, EmitMessage, Idle, callVars, Untouched
<1>13. ASSUME NEW h \in Handles, CancelArrived(h), UNCHANGED callVars PROVE Untouched(c)
  BY <1>13, <1>c DEF CancelArrived, EmitMessage, Idle, callVars, Untouched
<1>14. ASSUME NEW d \in Calls, d # c, NEW error \in BOOLEAN, ResponseArrived(d, error)
       PROVE  Untouched(c)
  <2>1. callMap'[c] = callMap[c] /\ fResponseCount'[c] = fResponseCount[c]
    BY <1>14, <1>b DEF ResponseArrived, Forget
  <2>. QED
    BY <1>14, <1>c, <2>1 DEF ResponseArrived, EmitMessage, Idle, Untouched
<1>15. ASSUME EndHandleEvent, UNCHANGED callVars PROVE Untouched(c)
  BY <1>15, <1>c DEF EndHandleEvent, busVars, callVars, Untouched
<1>16. ASSUME NEW d \in Calls, d # c, EndResponse(d) PROVE Untouched(c)
  <2>1. refs'[c] = refs[c] /\ fToken'[c] = fToken[c] /\ callMap'[c] = callMap[c]
    BY <1>16, <1>b, <1>c DEF EndResponse, Unref, Forget
  <2>. QED
    BY <1>16, <1>c, <2>1 DEF EndResponse, Untouched
<1>17. ASSUME NEW h \in Handles, CollectHandle(h), UNCHANGED callVars PROVE Untouched(c)
  BY <1>17, <1>b, <1>c DEF CollectHandle, busVars, callVars, Untouched
<1>18. ASSUME NEW d \in Calls, d # c, CollectCall(d) PROVE Untouched(c)
  <2>1. refs'[c] = refs[c] /\ life'[c] = life[c]
    BY <1>18, <1>b, <1>c DEF CollectCall, RefsAfterDestruction, Unref
  <2>. QED
    BY <1>18, <2>1 DEF CollectCall, busVars, callVars, Untouched
<1>19. CASE UNCHANGED vars
  BY <1>19 DEF vars, wrapVars, busVars, callVars, Untouched
<1>. QED
  BY <1>1, <1>2, <1>3, <1>4, <1>5, <1>6, <1>7, <1>8, <1>9, <1>10, <1>11, <1>12, <1>13, <1>14,
     <1>15, <1>16, <1>17, <1>18, <1>19
     DEF Next, ScriptStep, BusStep, ListenersReturn, CollectorStep

-----------------------------------------------------------------------------
(* Calls: the address given to the bus *)

\* Why CallbackTargetPinned holds: a one-reply call is in its last callback from
\* its first response on.
Pinned(c) ==
  /\ life[c] = "unborn" => refs[c] = 0 /\ ~Outstanding(c) /\ fResponseCount[c] = 0
  /\ Outstanding(c) /\ fResponseLimit[c] = 1 => c \in single
  /\ Outstanding(c) /\ c \in single /\ fResponseCount[c] > 0 => emitting = c
  /\ Outstanding(c) => Live(c) /\ (refs[c] = 1 \/ (emitting = c /\ LastReply(c, errorReply)))

PinInv == RefInv /\ \A c \in Calls : Pinned(c)

\* CancelInternal leaves a call with the bus only after the one reply, inside the
\* callback; ResponseArrived never.
LEMMA PinStep == Obeyed /\ PinInv /\ [Next]_vars => PinInv'
<1> SUFFICES ASSUME Obeyed, PinInv, [Next]_vars, NEW c \in Calls PROVE Pinned(c)'
  BY RefStep DEF PinInv
<1>a. TypeOK /\ Pinned(c)
  BY DEF PinInv, RefInv
<1>b. /\ refs[c] \in Nat /\ refs \in [Objects -> Nat] /\ life \in [Objects -> Lives]
      /\ callMap \in [Calls -> Handles \cup {NoObj}]
      /\ fResponseCount \in [Calls -> 0..CountCap] /\ fResponseCount[c] \in Nat
      /\ c \in Objects /\ c # NoObj /\ c \notin Handles /\ NoObj \notin Handles
      /\ callHandle \in [Calls -> Handles \cup {NoObj}]
  BY <1>a, ObjectsAssumption DEF TypeOK, WrapTypeOK, BusTypeOK, CallTypeOK, Objects, CountCap
<1>1. CASE Untouched(c)
  BY <1>1, <1>a, <1>b DEF Untouched, Pinned, Outstanding, Live, LastReply
<1>2. CASE Made(c)
  BY <1>2, <1>a, <1>b DEF Made, Pinned, Outstanding, Live, LastReply
<1>3. CASE CancelCall(c)
  <2>1. /\ Live(c) /\ life' = life /\ emitting' = emitting /\ errorReply' = errorReply
        /\ single' = single /\ fResponseLimit' = fResponseLimit
        /\ fResponseCount' = fResponseCount
        /\ callMap' = callMap \/ callMap' = Forget(c)
    BY <1>3 DEF CancelCall, Usable
  <2>2. ASSUME Outstanding(c)' PROVE Outstanding(c) /\ ~MustCancel(c)
    <3>1. Outstanding(c)
      BY <2>1, <2>2, <1>b DEF Outstanding, Forget
    <3>2. CancelOutcomes(c) = {TRUE}
      BY <3>1 DEF CancelOutcomes, Outcomes, Obeyed
    <3>. QED
      BY <1>3, <2>2, <3>1, <3>2, <1>b DEF CancelCall, Outstanding, Forget
  <2>3. ASSUME Outstanding(c)' PROVE emitting = c /\ LastReply(c, errorReply)
    BY <2>2, <2>3, <1>a, <1>b DEF MustCancel, Pinned, LastReply
  <2>. QED
    BY <2>1, <2>2, <2>3, <1>a DEF Pinned, Outstanding, Live, LastReply
<1>4. CASE EndResponse(c)
  <2>1. /\ emitting = c /\ emitting' = NoObj
        /\ UNCHANGED <<life, single, fResponseLimit, fResponseCount>>
        /\ (LastResponse(c) /\ CancelProceeds(c)) \/ refs' = refs
        /\ callMap' = callMap \/ callMap' = Forget(c)
        /\ LastReply(c, errorReply) => callMap' = Forget(c)
    BY <1>4 DEF EndResponse
  <2>2. ASSUME Outstanding(c)'
        PROVE  Outstanding(c) /\ ~LastReply(c, errorReply) /\ refs' = refs
    <3>1. Outstanding(c) /\ ~LastReply(c, errorReply)
      BY <2>1, <2>2, <1>b DEF Outstanding, Forget
    <3>2. ~errorReply /\ c \notin single /\ MustCancel(c)
      BY <3>1, <1>a DEF LastReply, Pinned, MustCancel
    <3>3. CancelOutcomes(c) = {TRUE}
      BY <3>1 DEF CancelOutcomes, Outcomes, Obeyed
    <3>4. ASSUME LastResponse(c), CancelProceeds(c) PROVE callMap' = Forget(c)
      BY <1>4, <3>2, <3>3, <3>4 DEF EndResponse
    <3>. QED
      BY <2>1, <2>2, <3>1, <3>4, <1>b DEF Outstanding, Forget
  <2>3. refs[c] = 0 => refs'[c] = 0
    BY <1>4, <1>b DEF EndResponse, Unref
  <2>4. life'[c] = "unborn" => refs'[c] = 0 /\ ~Outstanding(c)' /\ fResponseCount'[c] = 0
    BY <2>1, <2>2, <2>3, <1>a DEF Pinned
  <2>5. ASSUME Outstanding(c)'
        PROVE  /\ Live(c)' /\ refs'[c] = 1
               /\ fResponseLimit'[c] = 1 => c \in single'
               /\ ~(c \in single')
    BY <2>1, <2>2, <2>5, <1>a DEF Pinned, Live, LastReply
  <2>. QED
    BY <2>4, <2>5 DEF Pinned
<1>5. CASE CollectCall(c)
  <2>1. refs[c] = 0 /\ emitting # c /\ Live(c) /\ callMap' = callMap
    BY <1>5 DEF CollectCall, Collectable, busVars
  <2>2. ~Outstanding(c) /\ ~Outstanding(c)'
    BY <2>1, <1>a DEF Pinned, Outstanding
  <2>3. life'[c] = "collected"
    BY <1>5, <1>b DEF CollectCall
  <2>. QED
    BY <2>2, <2>3 DEF Pinned
<1>6. ASSUME NEW error \in BOOLEAN, ResponseArrived(c, error) PROVE Pinned(c)'
  <2>1. /\ emitting = NoObj /\ Outstanding(c)
        /\ UNCHANGED <<life, refs, single, fResponseLimit>>
        /\ emitting' = IF Live(c) THEN c ELSE emitting
    BY <1>6 DEF ResponseArrived, EmitMessage, Idle
  <2>2. Live(c) /\ refs[c] = 1
    BY <2>1, <1>a, <1>b DEF Pinned
  <2>3. emitting' = c /\ life'[c] = "live" /\ refs'[c] = 1
    BY <2>1, <2>2 DEF Live
  <2>4. fResponseLimit'[c] = 1 => c \in single'
    BY <2>1, <1>a DEF Pinned
  <2>. QED
    BY <2>3, <2>4 DEF Pinned, Live
<1>7. ASSUME NEW h \in Handles, CancelToken(h, c) PROVE Pinned(c)'
  BY <1>7 DEF CancelToken, Obeyed, Unnumbered
<1>. QED
  BY <1>1, <1>2, <1>3, <1>4, <1>5, <1>6, <1>7, <1>a, CallView

LEMMA PinInvariant == ASSUME Obeyed PROVE Spec => []PinInv
<1>1. Init /\ RefInv => PinInv
  <2>. SUFFICES ASSUME Init, RefInv, NEW c \in Calls PROVE Pinned(c)
    BY DEF PinInv
  <2>1. refs[c] = 0 /\ callMap[c] = NoObj /\ fResponseCount[c] = 0
    BY DEF Init, WrapInit, BusInit, CallInit, Objects
  <2>. QED
    BY <2>1 DEF Pinned, Outstanding
<1>2. PinInv /\ [Next]_vars => PinInv'
  BY PinStep
<1>. QED
  BY <1>1, <1>2, RefInvariant, PTL DEF Spec

\* While the bus may call back for a call the call is referenced and live, when
\* LSCallCancel succeeds and Handle.cancel is not used behind its back.
THEOREM CallbackTargetCorrect == ASSUME Obeyed PROVE Spec => []CallbackTargetPinned
<1>1. PinInv => CallbackTargetPinned
  BY DEF PinInv, Pinned, CallbackTargetPinned
<1>. QED
  BY <1>1, PinInvariant, PTL

-----------------------------------------------------------------------------
(* Calls: the token *)

\* How the library's view of a call fits the call's: it is in the call map of the
\* handle it was made on, and only a call limited to one reply is single.
Linked(c) ==
  /\ life[c] = "unborn" => ~fToken[c]
  /\ Outstanding(c) => callMap[c] = callHandle[c]
  /\ c \in single => fResponseLimit[c] = 1 /\ life[c] # "unborn"
  /\ emitting = c => fResponseCount[c] > 0 /\ Live(c)

LinkInv == PinInv /\ \A c \in Calls : Linked(c)

\* Why TokenMeansOutstanding holds: CancelInternal and ResponseArrived take back the
\* token in the same step as the reference.
TokenKept(c) == Live(c) /\ CancelProceeds(c) => Outstanding(c) /\ refs[c] = 1

TokenInv == LinkInv /\ \A c \in Calls : TokenKept(c)

\* Only the constructor and Unregister touch LS2Handle::fHandle.
LEMMA ValidityChanges ==
  [Next]_vars => fHandle' = fHandle \/ (\E g \in Handles : NewHandle(g) \/ Unregister(g))
<1>. SUFFICES ASSUME [Next]_vars
              PROVE  fHandle' = fHandle \/ (\E g \in Handles : NewHandle(g) \/ Unregister(g))
  OBVIOUS
<1>1. CASE ScriptStep
  <2>1. ASSUME NEW o \in Objects, UNCHANGED <<busVars, handleVars, callVars>>
        PROVE  fHandle' = fHandle
    BY <2>1 DEF handleVars
  <2>2. ASSUME NEW h \in Handles,
               \/ NewHandleThrows(h)
               \/ \E k \in Categories : RegisterMethod(h, k)
               \/ SubscriptionAdd(h)
        PROVE  fHandle' = fHandle
    BY <2>2 DEF NewHandleThrows, RegisterMethod, SubscriptionAdd, handleVars
  <2>3. ASSUME NEW h \in Handles, NEW d \in Calls, NEW limit \in ResponseLimits,
               CallInternal(h, d, limit) \/ CallInternalThrows(h, d, limit)
                 \/ CallSessionStub(h, d, limit)
        PROVE  fHandle' = fHandle
    BY <2>3 DEF CallInternal, CallInternalThrows, CallSessionStub, SetHandleAndCall,
                handleVars
  <2>4. ASSUME NEW d \in Calls, NewCall(d) \/ CancelCall(d) \/ SetResponseTimeout(d)
        PROVE  fHandle' = fHandle
    BY <2>4 DEF NewCall, CancelCall, SetResponseTimeout, handleVars
  <2>5. ASSUME NEW h \in Handles, NEW d \in Calls, CancelToken(h, d)
        PROVE  fHandle' = fHandle
    BY <2>5 DEF CancelToken, handleVars
  <2>. QED
    BY <1>1, <2>1, <2>2, <2>3, <2>4, <2>5 DEF ScriptStep
<1>2. CASE BusStep
  BY <1>2 DEF BusStep, handleVars, RequestArrived, CancelArrived, ResponseArrived
<1>3. CASE ListenersReturn
  BY <1>3 DEF ListenersReturn, handleVars, EndHandleEvent, EndResponse
<1>4. CASE CollectorStep
  BY <1>4 DEF CollectorStep, handleVars, CollectHandle, CollectCall
<1>. QED
  BY <1>1, <1>2, <1>3, <1>4 DEF Next, vars, handleVars

\* A handle becomes valid in its constructor only, before a call points to it.
LEMMA ValidityStep ==
  ASSUME RefInv, [Next]_vars, NEW c \in Calls, Live(c), callHandle'[c] = callHandle[c],
         HasValidHandle(c)'
  PROVE  HasValidHandle(c)
<1>1. PICK h \in Handles : h = callHandle[c] /\ fHandle'[h] /\ life[h] = "live"
  BY DEF HasValidHandle, IsValid, RefInv, TypeOK, CallTypeOK, CallHandleAlive, Live
<1>2. fHandle' = fHandle \/ (\E g \in Handles : NewHandle(g) \/ Unregister(g))
  BY ValidityChanges
<1>3. fHandle[h]
  <2>1. fHandle \in [Handles -> BOOLEAN]
    BY DEF RefInv, TypeOK, HandleTypeOK
  <2>2. ASSUME NEW g \in Handles, NewHandle(g) PROVE fHandle[h]
    BY <1>1, <2>1, <2>2 DEF NewHandle
  <2>3. ASSUME NEW g \in Handles, Unregister(g) PROVE fHandle[h]
    BY <1>1, <2>1, <2>3 DEF Unregister
  <2>. QED
    BY <1>1, <1>2, <2>2, <2>3
<1>. QED
  BY <1>1, <1>3, ObjectsAssumption DEF HasValidHandle, IsValid, Objects

LEMMA LinkStep == Obeyed /\ LinkInv /\ [Next]_vars => LinkInv'
<1> SUFFICES ASSUME Obeyed, LinkInv, [Next]_vars, NEW c \in Calls
             PROVE Linked(c)'
  BY PinStep DEF LinkInv
<1>a. TypeOK /\ Pinned(c) /\ Linked(c)
  BY DEF LinkInv, PinInv, RefInv
<1>b. /\ life \in [Objects -> Lives]
      /\ callMap \in [Calls -> Handles \cup {NoObj}] /\ fToken \in [Calls -> BOOLEAN]
      /\ fResponseCount \in [Calls -> 0..CountCap] /\ fResponseCount[c] \in Nat
      /\ c \in Objects /\ c # NoObj
  BY <1>a, ObjectsAssumption DEF TypeOK, WrapTypeOK, BusTypeOK, CallTypeOK, Objects, CountCap
<1>1. CASE Untouched(c)
  BY <1>1, <1>a, <1>b DEF Untouched, Linked, Outstanding, Live
<1>2. CASE Made(c)
  BY <1>2, <1>a, <1>b DEF Made, Linked, Pinned, Outstanding, Live
<1>3. CASE CancelCall(c)
  <2>1. /\ Live(c) /\ life' = life /\ emitting' = emitting
        /\ UNCHANGED <<single, fResponseLimit, fResponseCount, callHandle>>
        /\ callMap' = callMap \/ callMap' = Forget(c)
    BY <1>3 DEF CancelCall, Usable
  <2>. QED
    BY <2>1, <1>a, <1>b DEF Linked, Outstanding, Live, Forget
<1>4. CASE EndResponse(c)
  <2>1. /\ emitting = c /\ emitting' = NoObj
        /\ UNCHANGED <<life, single, fResponseLimit, fResponseCount, callHandle>>
        /\ callMap' = callMap \/ callMap' = Forget(c)
    BY <1>4 DEF EndResponse
  <2>. QED
    BY <2>1, <1>a, <1>b DEF Linked, Outstanding, Live, Forget
<1>5. CASE CollectCall(c)
  <2>1. /\ life'[c] = "collected" /\ emitting # c /\ emitting' = emitting /\ life[c] = "live"
        /\ UNCHANGED <<callMap, callHandle, single, fResponseLimit>>
    BY <1>5, <1>b DEF CollectCall, Collectable, Live, busVars, callVars
  <2>. QED
    BY <2>1, <1>a DEF Linked, Outstanding, Live
<1>6. ASSUME NEW error \in BOOLEAN, ResponseArrived(c, error) PROVE Linked(c)'
  <2>1. /\ Outstanding(c)
        /\ UNCHANGED <<life, single, fResponseLimit, callHandle, fToken>>
        /\ callMap' = callMap \/ callMap' = Forget(c)
        /\ fResponseCount' = [fResponseCount EXCEPT ![c] = IF @ < CountCap THEN @ + 1 ELSE @]
    BY <1>6 DEF ResponseArrived, EmitMessage
  <2>2. Live(c)
    BY <2>1, <1>a DEF Pinned
  <2>3. fResponseCount'[c] > 0
    BY <2>1, <1>b DEF CountCap
  <2>. QED
    BY <2>1, <2>2, <2>3, <1>a, <1>b DEF Linked, Outstanding, Live, Forget
<1>7. ASSUME NEW h \in Handles, CancelToken(h, c) PROVE Linked(c)'
  BY <1>7 DEF CancelToken, Obeyed, Unnumbered
<1>. QED
  BY <1>1, <1>2, <1>3, <1>4, <1>5, <1>6, <1>7, <1>a, CallView

LEMMA LinkInvariant == ASSUME Obeyed PROVE Spec => []LinkInv
<1>1. Init /\ PinInv => LinkInv
  <2>. SUFFICES ASSUME Init, PinInv, NEW c \in Calls PROVE Linked(c)
    BY DEF LinkInv
  <2>1. /\ life[c] = "unborn" /\ fToken[c] = FALSE /\ callMap[c] = NoObj
        /\ single = {} /\ emitting = NoObj /\ c # NoObj
    BY ObjectsAssumption DEF Init, WrapInit, BusInit, CallInit, Objects
  <2>. QED
    BY <2>1 DEF Linked, Outstanding
<1>2. LinkInv /\ [Next]_vars => LinkInv'
  BY LinkStep
<1>. QED
  BY <1>1, <1>2, PinInvariant, PTL DEF Spec

LEMMA TokenStep == Obeyed /\ Remembered /\ TokenInv /\ [Next]_vars => TokenInv'
<1> SUFFICES ASSUME Obeyed, Remembered, TokenInv, [Next]_vars, NEW c \in Calls,
                    Live(c)', CancelProceeds(c)'
             PROVE  Outstanding(c)' /\ refs'[c] = 1
  BY LinkStep DEF TokenInv, TokenKept
<1>a. RefInv /\ TypeOK /\ Pinned(c) /\ Linked(c) /\ TokenKept(c)
  BY DEF TokenInv, LinkInv, PinInv, RefInv
<1>b. /\ refs[c] \in Nat /\ refs \in [Objects -> Nat] /\ life \in [Objects -> Lives]
      /\ callMap \in [Calls -> Handles \cup {NoObj}] /\ fToken \in [Calls -> BOOLEAN]
      /\ c \in Objects /\ c # NoObj /\ c \notin Handles /\ NoObj \notin Handles
      /\ callHandle \in [Calls -> Handles \cup {NoObj}] /\ errorReply \in BOOLEAN
  BY <1>a, ObjectsAssumption DEF TypeOK, WrapTypeOK, BusTypeOK, CallTypeOK, Objects
<1>1. CASE Untouched(c)
  <2>1. /\ life'[c] = life[c] /\ refs'[c] = refs[c]
        /\ callHandle'[c] = callHandle[c] /\ fToken'[c] = fToken[c]
        /\ callMap'[c] = callMap[c] \/ (callMap'[c] = NoObj /\ ~fHandle'[callMap[c]])
    BY <1>1 DEF Untouched
  <2>2. Live(c) /\ CancelProceeds(c) /\ fHandle'[callHandle[c]]
    BY <1>a, <2>1, ValidityStep DEF Live, CancelProceeds, HasValidHandle, IsValid
  <2>3. Outstanding(c) /\ refs[c] = 1 /\ callMap[c] = callHandle[c]
    BY <2>2, <1>a DEF TokenKept, Linked
  <2>. QED
    BY <2>1, <2>2, <2>3 DEF Outstanding
<1>2. CASE Made(c)
  <2>1. life[c] = "unborn" /\ refs[c] = 0 /\ ~fToken[c]
    BY <1>2, <1>a DEF Made, Linked, Pinned
  <2>2. fToken'[c] # fToken[c]
    BY <2>1 DEF CancelProceeds
  <2>3. refs'[c] = refs[c] + 1 /\ callMap'[c] \in Handles
    BY <1>2, <2>2 DEF Made
  <2>. QED
    BY <2>1, <2>3, <1>b DEF Outstanding
<1>3. CASE CancelCall(c)
  <2>1. Outstanding(c)
    BY <1>3, <1>a DEF CancelCall, Usable, TokenKept
  <2>2. CancelOutcomes(c) = {TRUE}
    BY <2>1 DEF CancelOutcomes, Outcomes, Obeyed
  <2>3. fToken' = [fToken EXCEPT ![c] = FALSE]
    BY <1>3, <2>2 DEF CancelCall
  <2>. QED
    BY <2>3, <1>b DEF CancelProceeds
<1>4. CASE EndResponse(c)
  <2>1. /\ emitting = c
        /\ UNCHANGED <<life, fResponseLimit, fResponseCount, callHandle, fHandle>>
        /\ fToken' = [fToken EXCEPT ![c] = TokenAfterResponse(c)]
    BY <1>4 DEF EndResponse, handleVars
  <2>2. CancelProceeds(c) /\ Live(c) /\ ~LastResponse(c)
    BY <2>1, <1>b DEF CancelProceeds, HasValidHandle, IsValid, TokenAfterResponse, Live
  <2>3. fResponseCount[c] \in Nat
    BY <1>a DEF TypeOK, CallTypeOK, CountCap
  <2>4. ~LastReply(c, errorReply)
    BY <2>1, <2>2, <2>3, <1>a, <1>b
       DEF LastReply, LastResponse, LimitReached, kUnlimitedResponses, Linked
  <2>5. refs' = refs /\ callMap' = callMap
    BY <1>4, <2>2, <2>4 DEF EndResponse
  <2>. QED
    BY <2>2, <2>5, <1>a DEF TokenKept, Outstanding
<1>5. CASE CollectCall(c)
  BY <1>5, <1>b DEF CollectCall, Live
<1>6. ASSUME NEW error \in BOOLEAN, ResponseArrived(c, error)
      PROVE  Outstanding(c)' /\ refs'[c] = 1
  <2>1. UNCHANGED <<life, refs, callHandle, fToken, fHandle, callMap>>
    BY <1>6 DEF ResponseArrived, EmitMessage, Remembered, handleVars
  <2>. QED
    BY <2>1, <1>a
       DEF TokenKept, Outstanding, Live, CancelProceeds, HasValidHandle, IsValid
<1>7. ASSUME NEW h \in Handles, CancelToken(h, c) PROVE FALSE
  BY <1>7 DEF CancelToken, Obeyed, Unnumbered
<1>. QED
  BY <1>1, <1>2, <1>3, <1>4, <1>5, <1>6, <1>7, <1>a, CallView

LEMMA TokenInvariant == ASSUME Obeyed, Remembered PROVE Spec => []TokenInv
<1>1. Init /\ LinkInv => TokenInv
  BY DEF Init, CallInit, TokenInv, TokenKept, CancelProceeds
<1>2. TokenInv /\ [Next]_vars => TokenInv'
  BY TokenStep
<1>. QED
  BY <1>1, <1>2, LinkInvariant, PTL DEF Spec

\* A call that can be cancelled is known to the bus and references itself, so
\* cancel(), the destructor and the last response give back a reference once.
THEOREM TokenCorrect == ASSUME Obeyed, Remembered PROVE Spec => []TokenMeansOutstanding
<1>1. TokenInv => TokenMeansOutstanding
  BY DEF TokenInv, TokenKept, TokenMeansOutstanding
<1>. QED
  BY <1>1, TokenInvariant, PTL

-----------------------------------------------------------------------------
(* Calls: the limit *)

\* Why NoMoreThanLimit holds: a call the bus may answer outside of its callbacks has
\* a response to go, and the last one finds the handle and the token it needs to
\* cancel the call.
WithinLimit(c) ==
  /\ Outstanding(c) =>
       HasValidHandle(c) /\ (fToken[c] \/ (emitting = c /\ LastReply(c, errorReply)))
  /\ fResponseLimit[c] # kUnlimitedResponses =>
       /\ fResponseCount[c] <= fResponseLimit[c]
       /\ Outstanding(c) /\ emitting # c => fResponseCount[c] < fResponseLimit[c]

LimitInv == LinkInv /\ \A c \in Calls : WithinLimit(c)

\* LSUnregister ends the calls of a handle in the step that drops the handle.
LEMMA OutstandingKeepsHandle ==
  ASSUME Released, RefInv, [Next]_vars, NEW c \in Calls, callHandle'[c] = callHandle[c],
         HasValidHandle(c), callMap[c] = callHandle[c], callMap'[c] # NoObj
  PROVE  HasValidHandle(c)'
<1>1. PICK h \in Handles : h = callHandle[c] /\ fHandle[h] /\ h # NoObj
  BY ObjectsAssumption
     DEF HasValidHandle, IsValid, RefInv, TypeOK, CallTypeOK, Objects
<1>2. fHandle \in [Handles -> BOOLEAN]
  BY DEF RefInv, TypeOK, HandleTypeOK
<1>3. ASSUME NEW g \in Handles, NewHandle(g) PROVE fHandle'[h]
  BY <1>1, <1>2, <1>3 DEF NewHandle
<1>4. ASSUME NEW g \in Handles, Unregister(g) PROVE fHandle'[h]
  <2>1. CASE g = h
    <3>1. callMap' = CallMapAfterUnregister(h, TRUE)
      BY <1>1, <1>4, <2>1 DEF Unregister, IsValid, Outcomes, Released
    <3>. QED
      BY <1>1, <3>1 DEF CallMapAfterUnregister
  <2>2. CASE g # h
    BY <1>1, <1>2, <1>4, <2>2 DEF Unregister
  <2>. QED
    BY <2>1, <2>2
<1>5. fHandle'[h]
  BY <1>1, <1>3, <1>4, ValidityChanges
<1>. QED
  BY <1>1, <1>5 DEF HasValidHandle, IsValid

LEMMA LimitStep ==
  Obeyed /\ Released /\ LimitInv /\ [Next]_vars => LimitInv'
<1> SUFFICES ASSUME Obeyed, Released, LimitInv, [Next]_vars, NEW c \in Calls
             PROVE WithinLimit(c)'
  BY LinkStep DEF LimitInv
<1>a. RefInv /\ TypeOK /\ Pinned(c) /\ Linked(c) /\ WithinLimit(c)
  BY DEF LimitInv, LinkInv, PinInv, RefInv
<1>b. /\ callMap \in [Calls -> Handles \cup {NoObj}] /\ fToken \in [Calls -> BOOLEAN]
      /\ fResponseCount \in [Calls -> 0..CountCap] /\ fResponseCount[c] \in 0..3
      /\ fResponseLimit[c] \in {0, 1, 2} /\ kUnlimitedResponses = 0
      /\ c # NoObj /\ NoObj \notin Handles /\ life \in [Objects -> Lives] /\ c \in Objects
      /\ callHandle \in [Calls -> Handles \cup {NoObj}]
  BY <1>a, ObjectsAssumption
     DEF TypeOK, WrapTypeOK, BusTypeOK, CallTypeOK, Objects, CountCap, ResponseLimits,
         kUnlimitedResponses
<1>c. ASSUME callHandle'[c] = callHandle[c], Outstanding(c), Outstanding(c)'
      PROVE  HasValidHandle(c)'
  BY <1>a, <1>c, OutstandingKeepsHandle DEF Linked, WithinLimit, Outstanding
<1>1. CASE Untouched(c)
  <2>1. /\ callHandle'[c] = callHandle[c] /\ fToken'[c] = fToken[c]
        /\ fResponseLimit'[c] = fResponseLimit[c] /\ fResponseCount'[c] = fResponseCount[c]
        /\ c \in single' <=> c \in single
        /\ emitting' = c <=> emitting = c
        /\ emitting = c => errorReply' = errorReply
        /\ callMap'[c] = callMap[c] \/ callMap'[c] = NoObj
    BY <1>1 DEF Untouched
  <2>2. Outstanding(c)' => Outstanding(c)
    BY <2>1 DEF Outstanding
  <2>3. Outstanding(c)' => HasValidHandle(c)'
    BY <1>c, <2>1, <2>2
  <2>. QED
    BY <2>1, <2>2, <2>3, <1>a DEF WithinLimit, LastReply
<1>2. CASE Made(c)
  <2>1. /\ life[c] = "unborn" /\ fResponseCount'[c] = 0
        /\ fResponseLimit'[c] \in {0, 1, 2}
        /\ callMap[c] = NoObj
    BY <1>2, <1>a DEF Made, Pinned, Outstanding, ResponseLimits, kUnlimitedResponses
  <2>2. Outstanding(c)' => HasValidHandle(c)' /\ fToken'[c] = TRUE
    BY <1>2, <1>b, <2>1 DEF Made, Outstanding, HasValidHandle, IsValid
  <2>. QED
    BY <1>b, <2>1, <2>2 DEF WithinLimit
<1>3. CASE CancelCall(c)
  <2>1. /\ emitting' = emitting /\ errorReply' = errorReply /\ CancelProceeds(c) /\ Live(c)
        /\ UNCHANGED <<single, fResponseLimit, fResponseCount, callHandle>>
        /\ callMap' = callMap \/ callMap' = Forget(c)
    BY <1>3 DEF CancelCall, Usable
  <2>2. ASSUME Outstanding(c)'
        PROVE  Outstanding(c) /\ emitting = c /\ LastReply(c, errorReply)
    <3>1. Outstanding(c)
      BY <2>1, <2>2, <1>b DEF Outstanding, Forget
    <3>2. CancelOutcomes(c) = {TRUE}
      BY <3>1 DEF CancelOutcomes, Outcomes, Obeyed
    <3>3. ~MustCancel(c)
      BY <1>3, <2>2, <3>2, <1>b DEF CancelCall, Outstanding, Forget
    <3>. QED
      BY <3>1, <3>3, <1>a, <1>b DEF MustCancel, Pinned, LastReply
  <2>3. Outstanding(c)' => HasValidHandle(c)'
    BY <1>c, <2>1, <2>2
  <2>. QED
    BY <2>1, <2>2, <2>3, <1>a DEF WithinLimit, LastReply
<1>4. CASE EndResponse(c)
  <2>1. /\ emitting = c /\ emitting' = NoObj
        /\ UNCHANGED <<single, fResponseLimit, fResponseCount, callHandle>>
        /\ fToken' = [fToken EXCEPT ![c] = TokenAfterResponse(c)]
        /\ callMap' = callMap \/ callMap' = Forget(c)
        /\ LastReply(c, errorReply) => callMap' = Forget(c)
    BY <1>4 DEF EndResponse
  <2>2. ASSUME Outstanding(c)'
        PROVE  Outstanding(c) /\ fToken[c] /\ ~LastResponse(c)
    <3>1. Outstanding(c) /\ ~LastReply(c, errorReply)
      BY <2>1, <2>2, <1>b DEF Outstanding, Forget
    <3>2. CancelProceeds(c) /\ fToken[c]
      BY <3>1, <1>a DEF WithinLimit, CancelProceeds
    <3>3. MustCancel(c) /\ ~errorReply
      BY <3>1, <1>a DEF LastReply, Pinned, MustCancel
    <3>4. CancelOutcomes(c) = {TRUE}
      BY <3>1 DEF CancelOutcomes, Outcomes, Obeyed
    <3>5. ASSUME LastResponse(c) PROVE callMap' = Forget(c)
      BY <1>4, <3>2, <3>3, <3>4, <3>5 DEF EndResponse
    <3>. QED
      BY <2>1, <2>2, <3>1, <3>2, <3>5, <1>b DEF Outstanding, Forget
  <2>3. Outstanding(c)' => HasValidHandle(c)'
    BY <1>c, <2>1, <2>2
  <2>4. Outstanding(c)' => fToken'[c]
    BY <2>1, <2>2, <1>b DEF TokenAfterResponse
  <2>5. Outstanding(c)' /\ fResponseLimit[c] # kUnlimitedResponses =>
          fResponseCount[c] < fResponseLimit[c]
    BY <2>2, <1>b DEF LastResponse, LimitReached
  <2>. QED
    BY <2>1, <2>2, <2>3, <2>4, <2>5, <1>a DEF WithinLimit
<1>5. CASE CollectCall(c)
  <2>1. UNCHANGED <<emitting, callMap, callHandle, single, fResponseLimit, fResponseCount,
                    fToken, fHandle, errorReply>>
    BY <1>5 DEF CollectCall, busVars, callVars, handleVars
  <2>. QED
    BY <2>1, <1>a DEF WithinLimit, Outstanding, HasValidHandle, IsValid, LastReply
<1>6. ASSUME NEW error \in BOOLEAN, ResponseArrived(c, error) PROVE WithinLimit(c)'
  <2>1. /\ emitting = NoObj /\ Outstanding(c) /\ emitting' = IF Live(c) THEN c ELSE emitting
        /\ UNCHANGED <<fResponseLimit, callHandle, fToken>>
        /\ fResponseCount' = [fResponseCount EXCEPT ![c] = IF @ < CountCap THEN @ + 1 ELSE @]
    BY <1>6 DEF ResponseArrived, EmitMessage, Idle
  <2>2. emitting' = c
    BY <2>1, <1>a DEF Pinned
  <2>3. fToken[c]
    BY <2>1, <1>a, <1>b DEF WithinLimit
  <2>4. fResponseCount'[c] = IF fResponseCount[c] < 3 THEN fResponseCount[c] + 1
                             ELSE fResponseCount[c]
    BY <2>1, <1>b DEF CountCap
  <2>5. fResponseLimit[c] # kUnlimitedResponses => fResponseCount'[c] <= fResponseLimit[c]
    BY <2>1, <2>4, <1>a, <1>b DEF WithinLimit
  <2>6. Outstanding(c)' => HasValidHandle(c)'
    BY <1>c, <2>1
  <2>. QED
    BY <2>1, <2>2, <2>3, <2>5, <2>6 DEF WithinLimit
<1>7. ASSUME NEW h \in Handles, CancelToken(h, c) PROVE WithinLimit(c)'
  BY <1>7 DEF CancelToken, Obeyed, Unnumbered
<1>. QED
  BY <1>1, <1>2, <1>3, <1>4, <1>5, <1>6, <1>7, <1>a, CallView

LEMMA LimitInvariant == ASSUME Obeyed, Released PROVE Spec => []LimitInv
<1>1. Init /\ LinkInv => LimitInv
  <2>. SUFFICES ASSUME Init, LinkInv, NEW c \in Calls PROVE WithinLimit(c)
    BY DEF LimitInv
  <2>1. callMap[c] = NoObj /\ fResponseCount[c] = 0 /\ fResponseLimit[c] = 1
    BY DEF Init, BusInit, CallInit
  <2>. QED
    BY <2>1 DEF WithinLimit, Outstanding
<1>2. LimitInv /\ [Next]_vars => LimitInv'
  BY LimitStep
<1>. QED
  BY <1>1, <1>2, LinkInvariant, PTL DEF Spec

\* call emits at most one response and watch at most two, an error included,
\* whatever the script cancels or unregisters in a listener.
THEOREM LimitCorrect ==
  ASSUME Obeyed, Released PROVE Spec => []NoMoreThanLimit
<1>1. LimitInv => NoMoreThanLimit
  BY DEF LimitInv, WithinLimit, NoMoreThanLimit
<1>. QED
  BY <1>1, LimitInvariant, PTL

-----------------------------------------------------------------------------
(* How the process can die *)

\* Only these steps touch a category, the state of a service or LS2Handle::fHandle.
LEMMA CategoriesChange ==
  ASSUME [Next]_vars
  PROVE  \/ UNCHANGED <<category, service, fHandle>>
         \/ \E g \in Handles : \/ NewHandle(g) \/ NewHandleThrows(g) \/ Unregister(g)
                               \/ \E j \in Categories : RegisterMethod(g, j)
<1>1. CASE ScriptStep
  <2>1. ASSUME NEW o \in Objects, UNCHANGED <<busVars, handleVars, callVars>>
        PROVE  UNCHANGED <<category, service, fHandle>>
    BY <2>1 DEF busVars, handleVars
  <2>2. ASSUME NEW g \in Handles, SubscriptionAdd(g)
        PROVE  UNCHANGED <<category, service, fHandle>>
    BY <2>2 DEF SubscriptionAdd, handleVars
  <2>3. ASSUME NEW g \in Handles, NEW d \in Calls, NEW limit \in ResponseLimits,
               CallInternal(g, d, limit) \/ CallInternalThrows(g, d, limit)
                 \/ CallSessionStub(g, d, limit)
        PROVE  UNCHANGED <<category, service, fHandle>>
    BY <2>3 DEF CallInternal, CallInternalThrows, CallSessionStub, SetHandleAndCall,
                handleVars
  <2>4. ASSUME NEW d \in Calls, NewCall(d) \/ CancelCall(d) \/ SetResponseTimeout(d)
        PROVE  UNCHANGED <<category, service, fHandle>>
    BY <2>4 DEF NewCall, CancelCall, SetResponseTimeout, busVars, handleVars
  <2>5. ASSUME NEW g \in Handles, NEW d \in Calls, CancelToken(g, d)
        PROVE  UNCHANGED <<category, service, fHandle>>
    BY <2>5 DEF CancelToken, handleVars
  <2>. QED
    BY <1>1, <2>1, <2>2, <2>3, <2>4, <2>5 DEF ScriptStep
<1>2. CASE BusStep
  <2>1. ASSUME NEW g \in Handles, NEW j \in Categories, RequestArrived(g, j)
        PROVE  UNCHANGED <<category, service, fHandle>>
    BY <2>1 DEF RequestArrived, handleVars
  <2>2. ASSUME NEW g \in Handles, CancelArrived(g)
        PROVE  UNCHANGED <<category, service, fHandle>>
    BY <2>2 DEF CancelArrived, handleVars
  <2>3. ASSUME NEW d \in Calls, NEW error \in BOOLEAN, ResponseArrived(d, error)
        PROVE  UNCHANGED <<category, service, fHandle>>
    BY <2>3 DEF ResponseArrived, handleVars
  <2>. QED
    BY <1>2, <2>1, <2>2, <2>3 DEF BusStep
<1>3. CASE ListenersReturn
  BY <1>3 DEF ListenersReturn, busVars, handleVars, EndHandleEvent, EndResponse
<1>4. CASE CollectorStep
  BY <1>4 DEF CollectorStep, busVars, handleVars, CollectHandle, CollectCall
<1>. QED
  BY <1>1, <1>2, <1>3, <1>4 DEF Next, vars, busVars, handleVars

\* The causes of a crash: whoever proves that a cause cannot happen proves that the
\* process does not die of it.
LEMMA CrashCauses ==
  ASSUME TypeOK, [Next]_vars
  PROVE  \/ crash' = crash
         \/ /\ crash' = "unref"
            /\ \/ \E h \in Handles : Live(h) /\ UnregisterAborts(h, refs[h])
               \/ \E c \in Calls : Live(c) /\ CancelProceeds(c) /\ refs[c] = 0
               \/ \E c \in Calls : emitting = c /\ CancelProceeds(c) /\ refs[c] = 0
               \/ \E c \in Calls : Live(c) /\ callHandle[c] # NoObj /\ refs[callHandle[c]] = 0
         \/ /\ crash' = "null"
            /\ \/ \E h \in Handles, k \in Categories : category[h][k] = "nodata"
               \/ \E c \in Calls : Live(c) /\ callHandle[c] = NoObj
         \/ /\ crash' = "dangling"
            /\ \/ \E c \in Calls : Outstanding(c) /\ ~Live(c)
               \/ \E h \in Handles :
                    /\ service[h] = "up" /\ ~Live(h)
                    /\ subscribers[h] > 0 \/ \E k \in Categories : category[h][k] # "none"
<1> DEFINE Goal ==
      \/ crash' = crash
      \/ /\ crash' = "unref"
         /\ \/ \E h \in Handles : Live(h) /\ UnregisterAborts(h, refs[h])
            \/ \E c \in Calls : Live(c) /\ CancelProceeds(c) /\ refs[c] = 0
            \/ \E c \in Calls : emitting = c /\ CancelProceeds(c) /\ refs[c] = 0
            \/ \E c \in Calls : Live(c) /\ callHandle[c] # NoObj /\ refs[callHandle[c]] = 0
      \/ /\ crash' = "null"
         /\ \/ \E h \in Handles, k \in Categories : category[h][k] = "nodata"
            \/ \E c \in Calls : Live(c) /\ callHandle[c] = NoObj
      \/ /\ crash' = "dangling"
         /\ \/ \E c \in Calls : Outstanding(c) /\ ~Live(c)
            \/ \E h \in Handles :
                 /\ service[h] = "up" /\ ~Live(h)
                 /\ subscribers[h] > 0 \/ \E k \in Categories : category[h][k] # "none"
<1>1. ASSUME NEW h \in Handles, Unregister(h) PROVE Goal
  BY <1>1 DEF Unregister, Usable
<1>2. ASSUME NEW c \in Calls, CancelCall(c) PROVE Goal
  BY <1>2 DEF CancelCall, Usable
<1>3. ASSUME NEW c \in Calls, SetResponseTimeout(c) PROVE Goal
  BY <1>3 DEF SetResponseTimeout, Usable
<1>4. ASSUME NEW h \in Handles, NEW k \in Categories, RequestArrived(h, k) PROVE Goal
  BY <1>4 DEF RequestArrived, EmitMessage
<1>5. ASSUME NEW h \in Handles, CancelArrived(h) PROVE Goal
  BY <1>5 DEF CancelArrived, EmitMessage
<1>6. ASSUME NEW c \in Calls, NEW error \in BOOLEAN, ResponseArrived(c, error) PROVE Goal
  BY <1>6 DEF ResponseArrived, EmitMessage
<1>7. ASSUME NEW c \in Calls, EndResponse(c) PROVE Goal
  BY <1>7 DEF EndResponse
<1>8. ASSUME NEW h \in Handles, CollectHandle(h) PROVE Goal
  BY <1>8 DEF CollectHandle, Collectable
<1>9. ASSUME NEW c \in Calls, CollectCall(c) PROVE Goal
  BY <1>9 DEF CollectCall, Collectable
<1>10. ASSUME NEW o \in Objects, Drop(o) \/ Keep(o) PROVE Goal
  BY <1>10 DEF Drop, Keep
<1>11. ASSUME NEW h \in Handles,
              NewHandle(h) \/ NewHandleThrows(h) \/ SubscriptionAdd(h)
                \/ \E k \in Categories : RegisterMethod(h, k)
       PROVE  Goal
  BY <1>11 DEF NewHandle, NewHandleThrows, SubscriptionAdd, RegisterMethod, wrapVars
<1>12. ASSUME NEW h \in Handles, NEW c \in Calls, NEW limit \in ResponseLimits,
              CallInternal(h, c, limit) \/ CallInternalThrows(h, c, limit)
                \/ CallSessionStub(h, c, limit)
       PROVE  Goal
  BY <1>12 DEF CallInternal, CallInternalThrows, CallSessionStub, SetHandleAndCall
<1>13. ASSUME NEW c \in Calls, NewCall(c) PROVE Goal
  BY <1>13 DEF NewCall
<1>14. ASSUME NEW h \in Handles, NEW c \in Calls, CancelToken(h, c) PROVE Goal
  BY <1>14 DEF CancelToken, wrapVars
<1>15. ASSUME EndHandleEvent PROVE Goal
  BY <1>15 DEF EndHandleEvent
<1>16. CASE UNCHANGED vars
  BY <1>16 DEF vars, wrapVars
<1>. QED
  BY <1>1, <1>2, <1>3, <1>4, <1>5, <1>6, <1>7, <1>8, <1>9, <1>10, <1>11, <1>12, <1>13, <1>14,
     <1>15, <1>16
     DEF Next, ScriptStep, BusStep, ListenersReturn, CollectorStep

-----------------------------------------------------------------------------
(* Null pointers *)

\* Without the two causes that Careful excludes there is no null pointer: the bus has
\* the user data of every category, and every call has a handle.
NullInv ==
  /\ RefInv
  /\ \A h \in Handles, k \in Categories : category[h][k] # "nodata"
  /\ \A c \in Calls : Live(c) => callHandle[c] # NoObj
  /\ crash # "null"

\* A category that is appended gets its data.
LEMMA DataStep ==
  ASSUME Careful, NullInv, [Next]_vars, NEW h \in Handles, NEW k \in Categories
  PROVE  category'[h][k] # "nodata"
<1>a. /\ category \in [Handles -> [Categories -> {"none", "nodata", "data"}]]
      /\ category[h][k] # "nodata"
  BY DEF NullInv, RefInv, TypeOK, BusTypeOK
<1>1. ASSUME NEW g \in Handles, NewHandle(g) \/ NewHandleThrows(g) \/ Unregister(g)
      PROVE  category' = category
  BY <1>1 DEF NewHandle, NewHandleThrows, Unregister
<1>2. ASSUME NEW g \in Handles, NEW j \in Categories, RegisterMethod(g, j)
      PROVE  category'[h][k] # "nodata"
  <2>1. PICK s \in CategoryAfter(g, j) : category' = [category EXCEPT ![g][j] = s]
    BY <1>2 DEF RegisterMethod
  <2>2. s = "data" \/ s = category[g][j]
    <3>1. Outcomes("LSCategorySetData") = {TRUE}
      BY DEF Outcomes, Careful
    <3>2. PICK appended \in Outcomes("LSRegisterCategoryAppend"),
               dataSet \in Outcomes("LSCategorySetData") :
            s = IF appended
                  THEN IF dataSet \/ category[g][j] = "data" THEN "data" ELSE "nodata"
                  ELSE category[g][j]
      BY <2>1 DEF CategoryAfter
    <3>3. dataSet = TRUE
      BY <3>1
    <3>. QED
      BY <3>2, <3>3
  <2>3. CASE g = h /\ j = k
    <3>1. category'[h][k] = s
      BY <1>a, <2>1, <2>3
    <3>. QED
      BY <1>a, <2>2, <2>3, <3>1
  <2>4. CASE ~(g = h /\ j = k)
    BY <1>a, <2>1, <2>4
  <2>. QED
    BY <2>3, <2>4
<1>. QED
  BY <1>a, <1>1, <1>2, CategoriesChange

\* Every call has a handle.
LEMMA HandleOfCallStep ==
  ASSUME Careful, NullInv, [Next]_vars, NEW c \in Calls, Live(c)'
  PROVE  callHandle'[c] # NoObj
<1>a. TypeOK /\ (Live(c) => callHandle[c] # NoObj)
  BY DEF NullInv, RefInv
<1>b. c \in Objects /\ life \in [Objects -> Lives] /\ NoObj \notin Handles
  BY <1>a, ObjectsAssumption DEF TypeOK, WrapTypeOK, Objects
<1>1. CASE Untouched(c)
  BY <1>1, <1>a DEF Untouched, Live
<1>2. CASE Made(c)
  BY <1>2, <1>b DEF Made, Careful
<1>3. CASE CancelCall(c) \/ EndResponse(c) \/ CollectCall(c)
  BY <1>3, <1>a, <1>b DEF CancelCall, EndResponse, CollectCall, callVars, Live, Collectable
<1>4. ASSUME NEW error \in BOOLEAN, ResponseArrived(c, error) PROVE callHandle'[c] # NoObj
  BY <1>4, <1>a DEF ResponseArrived, EmitMessage, Live
<1>5. ASSUME NEW h \in Handles, CancelToken(h, c) PROVE callHandle'[c] # NoObj
  BY <1>5, <1>a DEF CancelToken, wrapVars, callVars, Live
<1>. QED
  BY <1>1, <1>2, <1>3, <1>4, <1>5, <1>a, CallView

LEMMA NullStep == Careful /\ NullInv /\ [Next]_vars => NullInv'
<1>. SUFFICES ASSUME Careful, NullInv, [Next]_vars PROVE NullInv'
  OBVIOUS
<1>1. RefInv'
  BY RefStep DEF NullInv
<1>2. crash' # "null"
  BY CrashCauses DEF NullInv, RefInv
<1>. QED
  BY <1>1, <1>2, DataStep, HandleOfCallStep DEF NullInv

LEMMA NullInvariant == ASSUME Careful PROVE Spec => []NullInv
<1>1. Init /\ RefInv => NullInv
  <2>. SUFFICES ASSUME Init, RefInv PROVE NullInv
    OBVIOUS
  <2>1. /\ \A h \in Handles, k \in Categories : category[h][k] = "none"
        /\ \A c \in Calls : life[c] = "unborn"
        /\ crash = "none"
    BY DEF Init, WrapInit, BusInit, Objects
  <2>. QED
    BY <2>1 DEF NullInv, Live
<1>2. NullInv /\ [Next]_vars => NullInv'
  BY NullStep
<1>. QED
  BY <1>1, <1>2, RefInvariant, PTL DEF Spec

-----------------------------------------------------------------------------
(* Assertions of ObjectWrap *)

\* A live handle is referenced by its methods and by every live call on it.
LEMMA HandleReferenced ==
  ASSUME RefInv, NEW h \in Handles, Live(h)
  PROVE  /\ fRegisteredMethods[h] > 0 => refs[h] # 0
         /\ \A c \in Calls : Live(c) /\ callHandle[c] = h => refs[h] # 0
<1>1. refs[h] = Cardinality(LiveCallsOf(h)) + MethodRef(h)
  BY DEF RefInv, HandleRefsExact
<1>2. MethodRef(h) \in Nat /\ (fRegisteredMethods[h] > 0 => MethodRef(h) = 1)
  BY DEF MethodRef
<1>3. ASSUME NEW c \in Calls, Live(c), callHandle[c] = h PROVE Cardinality(LiveCallsOf(h)) # 0
  BY <1>3, LiveCallsFinite DEF LiveCallsOf
<1>. QED
  BY <1>1, <1>2, <1>3, LiveCallsFinite

AbortInv == TokenInv /\ crash # "unref"

LEMMA AbortStep == Obeyed /\ Remembered /\ AbortInv /\ [Next]_vars => AbortInv'
<1>. SUFFICES ASSUME Obeyed, Remembered, AbortInv, [Next]_vars PROVE AbortInv'
  OBVIOUS
<1>a. RefInv /\ TypeOK /\ (\A c \in Calls : Linked(c) /\ TokenKept(c))
  BY DEF AbortInv, TokenInv, LinkInv, PinInv, RefInv
<1>1. ASSUME NEW h \in Handles, Live(h) PROVE ~UnregisterAborts(h, refs[h])
  BY <1>1, <1>a, HandleReferenced DEF UnregisterAborts
<1>2. ASSUME NEW c \in Calls, Live(c) \/ emitting = c, CancelProceeds(c) PROVE refs[c] # 0
  BY <1>2, <1>a DEF Linked, TokenKept
<1>3. ASSUME NEW c \in Calls, Live(c), callHandle[c] # NoObj PROVE refs[callHandle[c]] # 0
  <2>1. callHandle[c] \in Handles /\ Live(callHandle[c])
    BY <1>3, <1>a DEF RefInv, TypeOK, CallTypeOK, CallHandleAlive
  <2>. QED
    BY <1>3, <1>a, <2>1, HandleReferenced
<1>4. crash' # "unref"
  BY <1>a, <1>1, <1>2, <1>3, CrashCauses DEF AbortInv
<1>. QED
  BY <1>4, TokenStep DEF AbortInv

LEMMA AbortInvariant == ASSUME Obeyed, Remembered PROVE Spec => []AbortInv
<1>1. Init /\ TokenInv => AbortInv
  BY DEF Init, WrapInit, AbortInv
<1>2. AbortInv /\ [Next]_vars => AbortInv'
  BY AbortStep
<1>. QED
  BY <1>1, <1>2, TokenInvariant, PTL DEF Spec

\* No call and no handle gives back a reference that it does not have, unregister()
\* failing or not, when LSCallCancel succeeds, Handle.cancel is not used and the
\* library remembers a call during its last callback: what the run cancel_token
\* shows needs one of the three.
THEOREM ReleaseCorrect == ASSUME Obeyed, Remembered PROVE Spec => []ReleaseNeverAborts
<1>1. AbortInv => ReleaseNeverAborts
  BY DEF AbortInv, ReleaseNeverAborts
<1>. QED
  BY <1>1, AbortInvariant, PTL

-----------------------------------------------------------------------------
(* Callbacks into deleted objects *)

\* What the bus serves for a handle ends with that handle.
ServedInv ==
  /\ PinInv
  /\ TargetInv
  /\ \A h \in Handles, k \in Categories :
       service[h] = "up" /\ category[h][k] # "none" => fHandle[h]
  /\ crash # "dangling"

LEMMA ServedHandleStep ==
  ASSUME Released, ServedInv, [Next]_vars, NEW h \in Handles, NEW k \in Categories,
         service'[h] = "up", category'[h][k] # "none"
  PROVE  fHandle'[h]
<1>a. /\ category \in [Handles -> [Categories -> {"none", "nodata", "data"}]]
      /\ service \in [Handles -> {"none", "up", "down"}] /\ fHandle \in [Handles -> BOOLEAN]
  BY DEF ServedInv, TargetInv, RefInv, TypeOK, BusTypeOK, HandleTypeOK
<1>b. /\ service[h] = "up" /\ category[h][k] # "none" => fHandle[h]
      /\ life[h] = "unborn" => category[h][k] = "none"
  BY DEF ServedInv, TargetInv
<1>1. ASSUME NEW g \in Handles, NewHandle(g) \/ NewHandleThrows(g) PROVE fHandle'[h]
  <2>1. category' = category
    BY <1>1 DEF NewHandle, NewHandleThrows
  <2>2. CASE g = h
    BY <1>1, <1>b, <2>1, <2>2 DEF NewHandle, NewHandleThrows
  <2>3. CASE g # h
    BY <1>1, <1>a, <1>b, <2>1, <2>3 DEF NewHandle, NewHandleThrows, handleVars
  <2>. QED
    BY <2>2, <2>3
<1>2. ASSUME NEW g \in Handles, NEW j \in Categories, RegisterMethod(g, j) PROVE fHandle'[h]
  <2>1. /\ fHandle[g] /\ fHandle' = fHandle /\ service' = service
        /\ \E s \in CategoryAfter(g, j) : category' = [category EXCEPT ![g][j] = s]
    BY <1>2 DEF RegisterMethod, IsValid
  <2>2. CASE g = h
    BY <2>1, <2>2
  <2>3. CASE g # h
    <3>1. category'[h][k] = category[h][k]
      BY <1>a, <2>1, <2>3
    <3>. QED
      BY <1>b, <2>1, <3>1
  <2>. QED
    BY <2>2, <2>3
<1>3. ASSUME NEW g \in Handles, Unregister(g) PROVE fHandle'[h]
  <2>0. category' = category /\ fHandle' = [fHandle EXCEPT ![g] = FALSE]
    BY <1>3 DEF Unregister
  <2>1. CASE g = h
    <3>1. CASE IsValid(g)
      <4>1. service' = [service EXCEPT ![g] = "down"]
        BY <1>3, <3>1 DEF Unregister, Outcomes, Released
      <4>. QED
        BY <1>a, <2>1, <4>1
    <3>2. CASE ~IsValid(g)
      <4>1. service' = [service EXCEPT ![g] = service[g]]
        BY <1>3, <3>2 DEF Unregister
      <4>. QED
        BY <1>a, <1>b, <2>0, <2>1, <3>2, <4>1 DEF IsValid
    <3>. QED
      BY <3>1, <3>2
  <2>2. CASE g # h
    <3>1. service'[h] = service[h]
      BY <1>3, <1>a, <2>2 DEF Unregister
    <3>. QED
      BY <1>a, <1>b, <2>0, <2>2, <3>1
  <2>. QED
    BY <2>1, <2>2
<1>4. CASE UNCHANGED <<category, service, fHandle>>
  BY <1>4, <1>b
<1>. QED
  BY <1>1, <1>2, <1>3, <1>4, CategoriesChange

LEMMA ServedStep == Obeyed /\ Released /\ OwnRequests /\ ServedInv /\ [Next]_vars => ServedInv'
<1>. SUFFICES ASSUME Obeyed, Released, OwnRequests, ServedInv, [Next]_vars PROVE ServedInv'
  OBVIOUS
<1>1. PinInv' /\ TargetInv'
  BY PinStep, TargetStep DEF ServedInv
<1>2. ASSUME NEW h \in Handles, service[h] = "up",
             subscribers[h] > 0 \/ \E k \in Categories : category[h][k] # "none"
      PROVE  Live(h)
  <2>1. PICK k \in Categories : category[h][k] # "none"
    BY <1>2 DEF ServedInv, TargetInv
  <2>2. fRegisteredMethods[h] > 0
    BY <1>2, <2>1 DEF ServedInv, TargetInv
  <2>. QED
    BY <2>2 DEF ServedInv, TargetInv, RefInv, MethodsKeepHandle
<1>3. \A c \in Calls : Outstanding(c) => Live(c)
  BY DEF ServedInv, PinInv, Pinned
<1>4. crash' # "dangling"
  <2>1. TypeOK /\ crash # "dangling"
    BY DEF ServedInv, TargetInv, RefInv
  <2>. QED
    BY <1>2, <1>3, <2>1, CrashCauses
<1>. QED
  BY <1>1, <1>4, ServedHandleStep DEF ServedInv

LEMMA ServedInvariant == ASSUME Obeyed, Released, OwnRequests PROVE Spec => []ServedInv
<1>1. Init /\ PinInv /\ TargetInv => ServedInv
  <2>. SUFFICES ASSUME Init, PinInv, TargetInv PROVE ServedInv
    OBVIOUS
  <2>1. crash = "none" /\ \A h \in Handles, k \in Categories : category[h][k] = "none"
    BY DEF Init, WrapInit, BusInit
  <2>. QED
    BY <2>1 DEF ServedInv
<1>2. ServedInv /\ [Next]_vars => ServedInv'
  BY ServedStep
<1>. QED
  BY <1>1, <1>2, PinInvariant, TargetInvariant, PTL DEF Spec

\* The bus never calls back into a deleted LS2Handle or LS2Call, when LSCallCancel
\* and LSUnregister succeed, Handle.cancel is not used and subscriptionAdd is only
\* given requests to its handle: the run cancel_collected shows why the last is needed.
THEOREM CallbackCorrect ==
  ASSUME Obeyed, Released, OwnRequests PROVE Spec => [](crash # "dangling")
<1>1. ServedInv => crash # "dangling"
  BY DEF ServedInv
<1>. QED
  BY <1>1, ServedInvariant, PTL

-----------------------------------------------------------------------------
(* No crash *)

\* With a library that does what it is asked to, and a script that does not cancel by
\* number, makes no bare calls and subscribes requests to the handle they came to, no
\* sequence of API calls, events, unregistrations and collections fails an assertion of
\* ObjectWrap, dereferences null or calls back into a deleted object: there is no other
\* way for it to die.
THEOREM NoCrashCorrect ==
  ASSUME Obeyed, Remembered, Released, Careful, OwnRequests PROVE Spec => []NoCrash
<1>1. TypeOK /\ NullInv /\ ReleaseNeverAborts /\ crash # "dangling" => NoCrash
  BY DEF TypeOK, WrapTypeOK, Crashes, NullInv, ReleaseNeverAborts, NoCrash
<1>. QED
  BY <1>1, TypeCorrect, NullInvariant, ReleaseCorrect, CallbackCorrect, PTL

=============================================================================
