------------------------- MODULE SysbusContractProofs -------------------------
(***************************************************************************)
(* The add-on implements GcContract, for every set of handles, calls and   *)
(* categories: each step, seen through the refinement mapping of Sysbus,   *)
(* is a step of the contract or changes nothing it speaks of.              *)
(***************************************************************************)
EXTENDS SysbusSafetyProofs

\* What the steps of the contract need to know of a state of the add-on: that calls
\* keep within their limit, that no call references itself twice, and that a deleted
\* call does not reference itself any more.
ContractInv ==
  /\ LimitInv
  /\ \A c \in Calls : refs[c] <= 1 /\ (life[c] = "collected" => refs[c] = 0)

\* The contract has no calls without a handle.
Environment == Obeyed /\ Released /\ "bareCall" \notin Script

\* The refinement mapping, variable by variable.
Phase == [c \in Calls |-> IF life[c] = "unborn" THEN "idle"
                          ELSE IF refs[c] > 0 THEN "open" ELSE "closed"]
Alive == [h \in Handles |-> life[h] # "collected"]
Serving == [h \in Handles |-> fRegisteredMethods[h] > 0]

\* All of it is kept by every step.
LEMMA ContractInvStep == Environment /\ ContractInv /\ [Next]_vars => ContractInv'
<1> SUFFICES ASSUME Environment, ContractInv, [Next]_vars, NEW c \in Calls
             PROVE  refs'[c] <= 1 /\ (life'[c] = "collected" => refs'[c] = 0)
  BY LimitStep DEF ContractInv, Environment
<1>a. /\ TypeOK /\ Linked(c) /\ Pinned(c)
      /\ refs[c] <= 1 /\ (life[c] = "collected" => refs[c] = 0)
  BY DEF ContractInv, LimitInv, LinkInv, PinInv, RefInv
<1>b. /\ refs \in [Objects -> Nat] /\ life \in [Objects -> Lives] /\ c \in Objects
      /\ callHandle \in [Calls -> Handles \cup {NoObj}] /\ c \notin Handles
  BY <1>a, ObjectsAssumption DEF TypeOK, WrapTypeOK, CallTypeOK, Objects
<1>1. CASE Untouched(c)
  BY <1>1, <1>a DEF Untouched
<1>2. CASE Made(c)
  <2>1. refs[c] = 0 /\ life'[c] = "live"
    BY <1>2, <1>a DEF Made, Pinned
  <2>2. refs'[c] = refs[c] \/ refs'[c] = refs[c] + 1
    BY <1>2 DEF Made
  <2>. QED
    BY <2>1, <2>2
<1>3. CASE CancelCall(c) \/ EndResponse(c)
  <2>1. Live(c) /\ life' = life /\ (refs' = refs \/ refs' = Unref(refs, c))
    BY <1>3, <1>a DEF CancelCall, EndResponse, Usable, Linked
  <2>2. Unref(refs, c)[c] \in {0, refs[c] - 1}
    BY <1>b DEF Unref
  <2>3. refs[c] \in Nat
    BY <1>b
  <2>. QED
    BY <2>1, <2>2, <2>3, <1>a DEF Live
<1>4. CASE CollectCall(c)
  BY <1>4, <1>b DEF CollectCall, Collectable, RefsAfterDestruction, Unref
<1>5. ASSUME NEW error \in BOOLEAN, ResponseArrived(c, error)
      PROVE  UNCHANGED <<life, refs>>
  BY <1>5 DEF ResponseArrived, EmitMessage
<1>6. ASSUME NEW h \in Handles, CancelToken(h, c) PROVE FALSE
  BY <1>6 DEF CancelToken, Environment, Obeyed, Unnumbered
<1>. QED
  BY <1>1, <1>2, <1>3, <1>4, <1>5, <1>6, <1>a, CallView

-----------------------------------------------------------------------------
(* Steps of the contract *)

\* A step that changes nothing the contract speaks of.
LEMMA ContractStutter ==
  ASSUME UNCHANGED <<callHandle, fResponseLimit, fResponseCount>>,
         \A c \in Calls : /\ life'[c] = "unborn" <=> life[c] = "unborn"
                          /\ refs'[c] > 0 <=> refs[c] > 0,
         \A h \in Handles : /\ life'[h] = "collected" <=> life[h] = "collected"
                            /\ fRegisteredMethods'[h] > 0 <=> fRegisteredMethods[h] > 0
  PROVE  UNCHANGED Contract!vars
<1>1. Phase' = Phase
  BY DEF Phase
<1>2. Alive' = Alive
  BY DEF Alive
<1>3. Serving' = Serving
  BY DEF Serving
<1>. QED
  BY <1>1, <1>2, <1>3 DEF Contract!vars, Phase, Alive, Serving

\* A handle that is created or deleted without methods and live calls.
LEMMA ContractCollect ==
  ASSUME ContractInv, NEW h \in Handles,
         life[h] = "unborn" \/ (life[h] = "live" /\ refs[h] = 0),
         life' = [life EXCEPT ![h] = "collected"],
         UNCHANGED <<refs, callHandle, fResponseLimit, fResponseCount, fRegisteredMethods>>
  PROVE  Contract!CollectUnused(h)
<1>a. /\ RefInv /\ TypeOK
      /\ life \in [Objects -> Lives] /\ refs \in [Objects -> Nat]
      /\ fRegisteredMethods \in [Handles -> Nat]
      /\ Handles \subseteq Objects /\ Calls \subseteq Objects
      /\ \A c \in Calls, g \in Handles : c # g
  BY ObjectsAssumption
     DEF ContractInv, LimitInv, LinkInv, PinInv, RefInv, TypeOK, WrapTypeOK, HandleTypeOK, Objects
<1>1. fRegisteredMethods[h] = 0
  <2>1. CASE life[h] = "unborn"
    BY <2>1, <1>a DEF RefInv, MethodsKeepHandle, Live
  <2>2. CASE life[h] = "live"
    BY <2>2, <1>a, LiveCallsFinite DEF RefInv, HandleRefsExact, MethodRef, Live
  <2>. QED
    BY <2>1, <2>2
<1>2. ASSUME NEW c \in Calls, callHandle[c] = h PROVE refs[c] = 0
  <2>1. CASE Live(c)
    <3>1. Live(h) /\ h # NoObj
      BY <1>2, <1>a, <2>1, ObjectsAssumption DEF RefInv, CallHandleAlive, Objects
    <3>2. c \in LiveCallsOf(h)
      BY <1>2, <2>1 DEF LiveCallsOf
    <3>3. refs[h] # 0
      BY <3>1, <3>2, <1>a, LiveCallsFinite DEF RefInv, HandleRefsExact, MethodRef
    <3>. QED
      BY <3>1, <3>3 DEF Live
  <2>2. CASE ~Live(c)
    <3>1. life[c] = "unborn" \/ life[c] = "collected"
      BY <2>2, <1>a DEF Live, Lives
    <3>. QED
      BY <3>1 DEF ContractInv, LimitInv, LinkInv, PinInv, Pinned
  <2>. QED
    BY <2>1, <2>2
<1>3. ~(\E c \in Calls : Phase[c] = "open" /\ callHandle[c] = h)
  BY <1>2, <1>a DEF Phase
<1>4. ~Contract!InUse(h)
  <2>1. ~Serving[h]
    <3>1. ~(fRegisteredMethods[h] > 0)
      BY <1>1
    <3>. QED
      BY <3>1, Zenon DEF Serving
  <2>2. Contract!InUse(h) <=>
          Serving[h] \/ \E c \in Calls : Phase[c] = "open" /\ callHandle[c] = h
    BY DEF Contract!InUse, Phase, Serving
  <2>. QED
    BY <1>3, <2>1, <2>2
<1>5. Alive[h] /\ Alive' = [Alive EXCEPT ![h] = FALSE]
  BY <1>a DEF Alive
<1>6. Phase' = Phase /\ Serving' = Serving
  BY <1>a DEF Phase, Serving
<1>. QED
  BY <1>4, <1>5, <1>6 DEF Contract!CollectUnused, Phase, Alive, Serving

\* A call is made, open or refused.
LEMMA ContractMake ==
  ASSUME ContractInv, NEW h \in Handles, NEW c \in Calls, NEW limit \in ResponseLimits,
         CallInternal(h, c, limit) \/ CallInternalThrows(h, c, limit)
           \/ CallSessionStub(h, c, limit)
  PROVE  \E p \in {"open", "closed"} : Contract!Make(c, h, limit, p)
<1>a. /\ TypeOK /\ life \in [Objects -> Lives] /\ refs \in [Objects -> Nat]
      /\ callHandle \in [Calls -> Handles \cup {NoObj}]
      /\ Handles \subseteq Objects /\ Calls \subseteq Objects
      /\ \A d \in Calls, g \in Handles : d # g
  BY ObjectsAssumption
     DEF ContractInv, LimitInv, LinkInv, PinInv, RefInv, TypeOK, WrapTypeOK, CallTypeOK, Objects
<1>1. /\ SetHandleAndCall(h, c, limit)
      /\ refs' = Ref(Ref(refs, h), c) \/ refs' = Ref(refs, h)
  BY DEF CallInternal, CallInternalThrows, CallSessionStub
<1>2. /\ life[c] = "unborn" /\ life' = [life EXCEPT ![c] = "live"] /\ life[h] = "live"
      /\ callHandle' = [callHandle EXCEPT ![c] = h]
      /\ fResponseLimit' = [fResponseLimit EXCEPT ![c] = limit]
      /\ fResponseCount' = fResponseCount /\ fRegisteredMethods' = fRegisteredMethods
  BY <1>1 DEF SetHandleAndCall, Usable, Live, handleVars
<1>3. PICK p \in {"open", "closed"} : p = IF refs'[c] > 0 THEN "open" ELSE "closed"
  OBVIOUS
<1>4. \A d \in Calls : d # c => refs'[d] = refs[d] /\ life'[d] = life[d]
  BY <1>a, <1>1, <1>2 DEF Ref
<1>5. Phase[c] = "idle" /\ Phase' = [Phase EXCEPT ![c] = p]
  <2>1. life'[c] = "live" /\ Phase[c] = "idle"
    BY <1>a, <1>2 DEF Phase
  <2>. QED
    BY <1>3, <1>4, <2>1 DEF Phase
<1>6. Alive[h] /\ Alive' = Alive
  BY <1>a, <1>2 DEF Alive
<1>7. Serving' = Serving
  BY <1>2 DEF Serving
<1>. QED
  BY <1>2, <1>5, <1>6, <1>7 DEF Contract!Make, Phase, Alive, Serving

\* A call gives its self-reference back.
LEMMA ContractClose ==
  ASSUME ContractInv, NEW c \in Calls, Live(c), refs[c] = 1, refs' = Unref(refs, c),
         UNCHANGED <<life, callHandle, fResponseLimit, fResponseCount, fRegisteredMethods>>
  PROVE  Contract!Close(c)
<1>a. /\ refs \in [Objects -> Nat] /\ Calls \subseteq Objects
  BY DEF ContractInv, LimitInv, LinkInv, PinInv, RefInv, TypeOK, WrapTypeOK, Objects
<1>1. refs'[c] = 0 /\ \A d \in Calls : d # c => refs'[d] = refs[d]
  BY <1>a DEF Unref
<1>2. Phase[c] = "open" /\ Phase' = [Phase EXCEPT ![c] = "closed"]
  <2>1. life[c] # "unborn" /\ refs[c] > 0 /\ ~(refs'[c] > 0)
    BY <1>1 DEF Live
  <2>. QED
    BY <1>1, <2>1 DEF Phase
<1>3. Alive' = Alive /\ Serving' = Serving
  BY DEF Alive, Serving
<1>. QED
  BY <1>2, <1>3 DEF Contract!Close, Phase, Alive, Serving

\* A response is emitted.
LEMMA ContractReply ==
  ASSUME ContractInv, NEW c \in Calls, NEW error \in BOOLEAN, ResponseArrived(c, error)
  PROVE  Contract!Reply(c)
<1>1. /\ emitting = NoObj /\ Outstanding(c) /\ c # NoObj
      /\ UNCHANGED <<life, refs, callHandle, fResponseLimit, fRegisteredMethods>>
      /\ fResponseCount' = [fResponseCount EXCEPT ![c] = IF @ < CountCap THEN @ + 1 ELSE @]
  BY ObjectsAssumption DEF ResponseArrived, EmitMessage, Idle, handleVars, Objects
<1>2. Live(c) /\ refs[c] = 1
  BY <1>1 DEF ContractInv, LimitInv, LinkInv, PinInv, Pinned
<1>3. fResponseLimit[c] # kUnlimitedResponses => fResponseCount[c] < fResponseLimit[c]
  BY <1>1 DEF ContractInv, LimitInv, WithinLimit
<1>4. Phase[c] = "open" /\ Phase' = Phase
  BY <1>1, <1>2 DEF Phase, Live
<1>5. Alive' = Alive /\ Serving' = Serving
  BY <1>1 DEF Alive, Serving
<1>. QED
  BY <1>1, <1>3, <1>4, <1>5 DEF Contract!Reply, Phase, Alive, Serving

\* Methods are registered or given up on a live handle.
LEMMA ContractServe ==
  ASSUME NEW h \in Handles, life[h] = "live", fRegisteredMethods \in [Handles -> Nat],
         NEW n \in Nat, fRegisteredMethods' = [fRegisteredMethods EXCEPT ![h] = n],
         \A c \in Calls : refs'[c] = refs[c],
         UNCHANGED <<life, callHandle, fResponseLimit, fResponseCount>>
  PROVE  \E s \in BOOLEAN : Contract!Serve(h, s)
<1>1. Phase' = Phase /\ Alive' = Alive /\ Alive[h]
  BY DEF Phase, Alive
<1>2. \A g \in Handles : fRegisteredMethods'[g] = IF g = h THEN n ELSE fRegisteredMethods[g]
  OBVIOUS
<1>3. Serving' = [Serving EXCEPT ![h] = (n > 0)]
  BY <1>2 DEF Serving
<1>4. Contract!Serve(h, n > 0)
  BY <1>1, <1>3 DEF Contract!Serve, Phase, Alive, Serving
<1>5. (n > 0) \in BOOLEAN
  OBVIOUS
<1>. QED
  BY <1>4, <1>5

-----------------------------------------------------------------------------
(* The theorem *)

\* Every step of the add-on is a step of the contract or leaves it alone.
LEMMA ContractStep ==
  Environment /\ ContractInv /\ [Next]_vars => [Contract!CNext]_(Contract!vars)
<1> SUFFICES ASSUME Environment, ContractInv, [Next]_vars
             PROVE  Contract!CNext \/ UNCHANGED Contract!vars
  BY DEF Contract!vars
<1>a. /\ TypeOK /\ life \in [Objects -> Lives] /\ refs \in [Objects -> Nat]
      /\ fRegisteredMethods \in [Handles -> Nat]
      /\ callHandle \in [Calls -> Handles \cup {NoObj}]
      /\ Handles \subseteq Objects /\ Calls \subseteq Objects
      /\ \A c \in Calls, h \in Handles : c # h
      /\ \A c \in Calls : Linked(c) /\ (refs[c] = 0 \/ refs[c] = 1)
  BY ObjectsAssumption
     DEF ContractInv, LimitInv, LinkInv, PinInv, RefInv, TypeOK, WrapTypeOK, HandleTypeOK,
         CallTypeOK, Objects
<1>1. ASSUME NEW o \in Objects, Drop(o) \/ Keep(o), UNCHANGED <<busVars, handleVars, callVars>>
      PROVE  UNCHANGED Contract!vars
  BY <1>1, ContractStutter DEF Drop, Keep, handleVars, callVars
<1>2. ASSUME NEW h \in Handles, NewHandle(h), UNCHANGED callVars
      PROVE  UNCHANGED Contract!vars
  BY <1>2, <1>a, ContractStutter DEF NewHandle, callVars
<1>3. ASSUME NEW h \in Handles, NewHandleThrows(h), UNCHANGED callVars
      PROVE  Contract!CollectUnused(h)
  BY <1>3, ContractCollect DEF NewHandleThrows, handleVars, callVars
<1>4. ASSUME NEW h \in Handles, NEW k \in Categories, RegisterMethod(h, k), UNCHANGED callVars
      PROVE  \E s \in BOOLEAN : Contract!Serve(h, s)
  <2>1. /\ life[h] = "live"
        /\ fRegisteredMethods' = [fRegisteredMethods EXCEPT ![h] = fRegisteredMethods[h] + 1]
        /\ UNCHANGED <<life, callHandle, fResponseLimit, fResponseCount>>
    BY <1>4 DEF RegisterMethod, Usable, Live, callVars
  <2>2. \A c \in Calls : refs'[c] = refs[c]
    BY <1>4, <1>a DEF RegisterMethod, RefsAfterRegister, Ref
  <2>3. fRegisteredMethods[h] + 1 \in Nat
    BY <1>a
  <2>. QED
    BY <1>a, <2>1, <2>2, <2>3, ContractServe
<1>5. ASSUME NEW h \in Handles, Unregister(h), UNCHANGED callVars
      PROVE  \E s \in BOOLEAN : Contract!Serve(h, s)
  <2>1. /\ life[h] = "live"
        /\ fRegisteredMethods' = [fRegisteredMethods EXCEPT ![h] = 0]
        /\ UNCHANGED <<life, callHandle, fResponseLimit, fResponseCount>>
    BY <1>5 DEF Unregister, Usable, Live, callVars
  <2>2. \A c \in Calls : refs'[c] = refs[c]
    BY <1>5, <1>a DEF Unregister, RefsAfterUnregister, Unref
  <2>. QED
    BY <1>a, <2>1, <2>2, ContractServe
<1>6. ASSUME NEW h \in Handles, SubscriptionAdd(h)
      PROVE  UNCHANGED Contract!vars
  BY <1>6, ContractStutter DEF SubscriptionAdd, wrapVars, handleVars, callVars
<1>7. ASSUME NEW h \in Handles, NEW c \in Calls, NEW limit \in ResponseLimits,
             CallInternal(h, c, limit) \/ CallInternalThrows(h, c, limit)
               \/ CallSessionStub(h, c, limit)
      PROVE  Contract!CNext
  BY <1>7, ContractMake DEF Contract!CNext
<1>8. ASSUME NEW c \in Calls, NewCall(c) PROVE FALSE
  BY <1>8 DEF NewCall, Environment
<1>r. ASSUME NEW c \in Calls, Live(c), refs' = Unref(refs, c),
             UNCHANGED <<life, callHandle, fResponseLimit, fResponseCount, fRegisteredMethods>>
      PROVE  Contract!Close(c) \/ UNCHANGED Contract!vars
  <2>1. CASE refs[c] = 1
    BY <1>r, <2>1, ContractClose
  <2>2. CASE refs[c] = 0
    <3>1. \A d \in Calls : refs'[d] = refs[d]
      BY <1>r, <2>2, <1>a DEF Unref
    <3>. QED
      BY <1>r, <3>1, ContractStutter
  <2>. QED
    BY <2>1, <2>2, <1>a
<1>9. ASSUME NEW c \in Calls, CancelCall(c) PROVE Contract!Close(c) \/ UNCHANGED Contract!vars
  BY <1>9, <1>r DEF CancelCall, Usable, handleVars
<1>10. ASSUME NEW c \in Calls, SetResponseTimeout(c) PROVE UNCHANGED Contract!vars
  BY <1>10, ContractStutter DEF SetResponseTimeout, handleVars, callVars
<1>11. ASSUME NEW h \in Handles, NEW c \in Calls, CancelToken(h, c) PROVE FALSE
  BY <1>11 DEF CancelToken, Environment, Obeyed, Unnumbered
<1>12. ASSUME NEW h \in Handles, NEW k \in Categories, RequestArrived(h, k), UNCHANGED callVars
       PROVE  UNCHANGED Contract!vars
  BY <1>12, ContractStutter DEF RequestArrived, EmitMessage, handleVars, callVars
<1>13. ASSUME NEW h \in Handles, CancelArrived(h), UNCHANGED callVars
       PROVE  UNCHANGED Contract!vars
  BY <1>13, ContractStutter DEF CancelArrived, EmitMessage, handleVars, callVars
<1>14. ASSUME NEW c \in Calls, NEW error \in BOOLEAN, ResponseArrived(c, error)
       PROVE  Contract!Reply(c)
  BY <1>14, ContractReply
<1>15. ASSUME EndHandleEvent, UNCHANGED callVars PROVE UNCHANGED Contract!vars
  BY <1>15, ContractStutter DEF EndHandleEvent, handleVars, callVars
<1>16. ASSUME NEW c \in Calls, EndResponse(c)
       PROVE  Contract!Close(c) \/ UNCHANGED Contract!vars
  <2>1. /\ Live(c)
        /\ UNCHANGED <<life, callHandle, fResponseLimit, fResponseCount, fRegisteredMethods>>
    BY <1>16, <1>a DEF EndResponse, Linked, handleVars
  <2>2. CASE LastResponse(c) /\ CancelProceeds(c)
    <3>1. refs' = Unref(refs, c)
      BY <1>16, <2>2 DEF EndResponse
    <3>. QED
      BY <2>1, <3>1, <1>r
  <2>3. CASE ~(LastResponse(c) /\ CancelProceeds(c))
    <3>1. refs' = refs
      BY <1>16, <2>3 DEF EndResponse
    <3>. QED
      BY <2>1, <3>1, ContractStutter
  <2>. QED
    BY <2>2, <2>3
<1>17. ASSUME NEW h \in Handles, CollectHandle(h), UNCHANGED callVars
       PROVE  Contract!CollectUnused(h)
  BY <1>17, ContractCollect DEF CollectHandle, Collectable, Live, handleVars, callVars
<1>18. ASSUME NEW c \in Calls, CollectCall(c) PROVE UNCHANGED Contract!vars
  <2>1. /\ life[c] = "live" /\ life' = [life EXCEPT ![c] = "collected"]
        /\ refs' = RefsAfterDestruction(c)
        /\ UNCHANGED <<callHandle, fResponseLimit, fResponseCount, fRegisteredMethods>>
    BY <1>18 DEF CollectCall, Collectable, Live, handleVars, callVars
  <2>2. \A d \in Calls : refs'[d] = refs[d]
    BY <2>1, <1>a DEF RefsAfterDestruction, Unref
  <2>3. \A h \in Handles : life'[h] = life[h]
    BY <2>1, <1>a
  <2>4. \A d \in Calls : life'[d] = "unborn" <=> life[d] = "unborn"
    BY <2>1, <1>a
  <2>. QED
    BY <2>1, <2>2, <2>3, <2>4, ContractStutter
<1>19. CASE UNCHANGED vars
  BY <1>19, ContractStutter DEF vars, wrapVars, handleVars, callVars
<1>. QED
  BY <1>1, <1>2, <1>3, <1>4, <1>5, <1>6, <1>7, <1>8, <1>9, <1>10, <1>11, <1>12, <1>13, <1>14,
     <1>15, <1>16, <1>17, <1>18, <1>19
     DEF Next, ScriptStep, BusStep, ListenersReturn, CollectorStep, Contract!CNext

\* With a library that cancels and unregisters when it is asked to, and a script that
\* neither cancels by number nor makes bare calls, the reference counting of the
\* add-on implements the contract on calls and handles: responses come to open calls
\* only and within their limit, and no handle is collected that an open call or a
\* method uses.
THEOREM ContractImplemented ==
  ASSUME Obeyed, Released, "bareCall" \notin Script PROVE Spec => ImplementsContract
<1>. Environment
  BY DEF Environment
<1>1. Init => Contract!CInit
  <2>. SUFFICES ASSUME Init PROVE Contract!CInit
    OBVIOUS
  <2>1. /\ Phase = [c \in Calls |-> "idle"] /\ Alive = [h \in Handles |-> TRUE]
        /\ Serving = [h \in Handles |-> FALSE]
    <3>1. \A o \in Objects : life[o] = "unborn"
      BY DEF Init, WrapInit
    <3>2. \A h \in Handles : (fRegisteredMethods[h] > 0) = FALSE
      BY DEF Init, HandleInit
    <3>3. Phase = [c \in Calls |-> "idle"]
      BY <3>1 DEF Phase, Objects
    <3>4. Alive = [h \in Handles |-> TRUE]
      BY <3>1 DEF Alive, Objects
    <3>5. Serving = [h \in Handles |-> FALSE]
      BY <3>2 DEF Serving
    <3>. QED
      BY <3>3, <3>4, <3>5
  <2>2. fResponseLimit \in [Calls -> ResponseLimits]
    BY DEF Init, CallInit, ResponseLimits
  <2>. QED
    BY <2>1, <2>2 DEF Init, CallInit, Contract!CInit, Phase, Alive, Serving
<1>2. Init /\ LimitInv => ContractInv
  BY DEF Init, WrapInit, Objects, ContractInv
<1>3. ContractInv /\ [Next]_vars => ContractInv'
  BY ContractInvStep
<1>4. ContractInv /\ [Next]_vars => [Contract!CNext]_(Contract!vars)
  BY ContractStep
<1>. QED
  BY <1>1, <1>2, <1>3, <1>4, LimitInvariant, PTL
     DEF Spec, ImplementsContract, Contract!CSpec

=============================================================================
