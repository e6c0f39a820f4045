---------------------------- MODULE SysbusProofs ----------------------------
(***************************************************************************)
(* What holds of the add-on for every set of handles, calls and categories *)
(* and in every environment: type correctness and the exactness of the     *)
(* reference counts of handles.                                            *)
(***************************************************************************)
EXTENDS Sysbus, FiniteSetTheorems, TLAPS

-----------------------------------------------------------------------------
(* Types *)

\* Ref() and Unref() keep the counts natural numbers, Unref() even at zero.
LEMMA RefType ==
  ASSUME NEW r \in [Objects -> Nat], NEW o \in Objects
  PROVE  Ref(r, o) \in [Objects -> Nat] /\ Unref(r, o) \in [Objects -> Nat]
BY DEF Ref, Unref

\* Every action of the add-on keeps every variable within its type.
LEMMA TypeStep == TypeOK /\ [Next]_vars => TypeOK'
<1> SUFFICES ASSUME TypeOK, [Next]_vars PROVE TypeOK'
  OBVIOUS
<1> USE DEF TypeOK, WrapTypeOK, BusTypeOK, HandleTypeOK, CallTypeOK, Objects, Lives, Crashes,
            wrapVars, busVars, handleVars, callVars, Forget
<1> USE RefType
<1>1. ASSUME NEW o \in Objects, Drop(o) \/ Keep(o), UNCHANGED <<busVars, handleVars, callVars>>
      PROVE  TypeOK'
  BY <1>1 DEF Drop, Keep
<1>2. ASSUME NEW h \in Handles, NewHandle(h), UNCHANGED callVars PROVE TypeOK'
  BY <1>2 DEF NewHandle
<1>3. ASSUME NEW h \in Handles, NewHandleThrows(h), UNCHANGED callVars PROVE TypeOK'
  BY <1>3 DEF NewHandleThrows
<1>4. ASSUME NEW h \in Handles, NEW k \in Categories, RegisterMethod(h, k), UNCHANGED callVars
      PROVE  TypeOK'
  <2>1. \A s \in CategoryAfter(h, k) : s \in {"none", "nodata", "data"}
    BY DEF CategoryAfter
  <2>2. refs' \in [Objects -> Nat]
    BY <1>4 DEF RegisterMethod, RefsAfterRegister
  <2>3. PICK s \in {"none", "nodata", "data"} : category' = [category EXCEPT ![h][k] = s]
    BY <1>4, <2>1 DEF RegisterMethod
  <2>4. category' \in [Handles -> [Categories -> {"none", "nodata", "data"}]]
    BY <2>3
  <2>5. fRegisteredMethods' \in [Handles -> Nat]
    BY <1>4 DEF RegisterMethod
  <2>. QED
    BY <1>4, <2>2, <2>4, <2>5 DEF RegisterMethod
<1>5. ASSUME NEW h \in Handles, Unregister(h), UNCHANGED callVars PROVE TypeOK'
  <2>1. refs' \in [Objects -> Nat] /\ crash' \in Crashes
    BY <1>5 DEF Unregister, RefsAfterUnregister
  <2>2. PICK ok \in BOOLEAN :
          /\ service' = [service EXCEPT ![h] = IF ok THEN "down" ELSE @]
          /\ callMap' = CallMapAfterUnregister(h, ok)
          /\ timed' = {c \in timed : callMap'[c] # NoObj}
          /\ subscribers' = [subscribers EXCEPT ![h] = IF ok THEN 0 ELSE @]
    BY <1>5 DEF Unregister, Outcomes
  <2>3. callMap' \in [Calls -> Handles \cup {NoObj}]
    BY <2>2 DEF CallMapAfterUnregister
  <2>4. service' \in [Handles -> {"none", "up", "down"}] /\ subscribers' \in [Handles -> Nat]
    BY <2>2
  <2>5. timed' \in SUBSET Calls
    BY <2>2
  <2>. QED
    BY <1>5, <2>1, <2>3, <2>4, <2>5 DEF Unregister
<1>6. ASSUME NEW h \in Handles, SubscriptionAdd(h) PROVE TypeOK'
  BY <1>6 DEF SubscriptionAdd
<1>7. ASSUME NEW h \in Handles, NEW c \in Calls, NEW limit \in ResponseLimits,
             CallInternal(h, c, limit)
      PROVE  TypeOK'
  BY <1>7 DEF CallInternal, SetHandleAndCall
<1>8. ASSUME NEW h \in Handles, NEW c \in Calls, NEW limit \in ResponseLimits,
             CallInternalThrows(h, c, limit)
      PROVE  TypeOK'
  BY <1>8 DEF CallInternalThrows, SetHandleAndCall
<1>9. ASSUME NEW h \in Handles, NEW c \in Calls, NEW limit \in ResponseLimits,
             CallSessionStub(h, c, limit)
      PROVE  TypeOK'
  BY <1>9 DEF CallSessionStub, SetHandleAndCall
<1>10. ASSUME NEW c \in Calls, NewCall(c) PROVE TypeOK'
  BY <1>10 DEF NewCall
<1>11. ASSUME NEW c \in Calls, CancelCall(c) PROVE TypeOK'
  <2>1. refs' \in [Objects -> Nat] /\ crash' \in Crashes
    BY <1>11 DEF CancelCall
  <2>2. PICK ok \in BOOLEAN :
          /\ callMap' = IF ok /\ MustCancel(c) THEN Forget(c) ELSE callMap
          /\ timed' = IF ok /\ MustCancel(c) THEN timed \ {c} ELSE timed
          /\ fToken' = [fToken EXCEPT ![c] = ~ok]
    BY <1>11 DEF CancelCall, CancelOutcomes, Outcomes
  <2>3. /\ callMap' \in [Calls -> Handles \cup {NoObj}]
        /\ timed' \in SUBSET Calls
        /\ fToken' \in [Calls -> BOOLEAN]
    BY <2>2
  <2>. QED
    BY <1>11, <2>1, <2>3 DEF CancelCall
<1>12. ASSUME NEW c \in Calls, SetResponseTimeout(c) PROVE TypeOK'
  BY <1>12 DEF SetResponseTimeout
<1>13. ASSUME NEW h \in Handles, NEW c \in Calls, CancelToken(h, c) PROVE TypeOK'
  BY <1>13 DEF CancelToken
<1>14. ASSUME NEW h \in Handles, NEW k \in Categories, RequestArrived(h, k), UNCHANGED callVars
       PROVE  TypeOK'
  BY <1>14 DEF RequestArrived, EmitMessage
<1>15. ASSUME NEW h \in Handles, CancelArrived(h), UNCHANGED callVars PROVE TypeOK'
  BY <1>15 DEF CancelArrived, EmitMessage
<1>16. ASSUME NEW c \in Calls, NEW error \in BOOLEAN, ResponseArrived(c, error) PROVE TypeOK'
  BY <1>16 DEF ResponseArrived, EmitMessage, CountCap
<1>17. ASSUME EndHandleEvent, UNCHANGED callVars PROVE TypeOK'
  BY <1>17 DEF EndHandleEvent
<1>18. ASSUME NEW c \in Calls, EndResponse(c) PROVE TypeOK'
  <2>1. TokenAfterResponse(c) \in BOOLEAN
    BY DEF TokenAfterResponse
  <2>2. refs' \in [Objects -> Nat] /\ crash' \in Crashes
    BY <1>18 DEF EndResponse
  <2>3. callMap' \in [Calls -> Handles \cup {NoObj}]
    BY <1>18 DEF EndResponse
  <2>4. timed' \in SUBSET Calls
    BY <1>18 DEF EndResponse
  <2>5. fToken' \in [Calls -> BOOLEAN] /\ errorReply' \in BOOLEAN
    BY <1>18, <2>1 DEF EndResponse
  <2>6. emitting' = NoObj
    BY <1>18 DEF EndResponse
  <2>. QED
    BY <1>18, <2>2, <2>3, <2>4, <2>5, <2>6 DEF EndResponse
<1>19. ASSUME NEW h \in Handles, CollectHandle(h), UNCHANGED callVars PROVE TypeOK'
  BY <1>19 DEF CollectHandle
<1>20. ASSUME NEW c \in Calls, CollectCall(c) PROVE TypeOK'
  <2>1. refs' \in [Objects -> Nat]
    BY <1>20 DEF CollectCall, RefsAfterDestruction
  <2>2. crash' \in Crashes /\ life' \in [Objects -> Lives]
    BY <1>20 DEF CollectCall
  <2>. QED
    BY <1>20, <2>1, <2>2 DEF CollectCall
<1>21. CASE UNCHANGED vars
  BY <1>21 DEF vars
<1>. QED
  BY <1>1, <1>2, <1>3, <1>4, <1>5, <1>6, <1>7, <1>8, <1>9, <1>10, <1>11, <1>12, <1>13, <1>14,
     <1>15, <1>16, <1>17, <1>18, <1>19, <1>20, <1>21
     DEF Next, ScriptStep, BusStep, ListenersReturn, CollectorStep

\* The variables start within their types.
LEMMA InitType == Init => TypeOK
<1>. SUFFICES ASSUME Init PROVE TypeOK
  OBVIOUS
<1>. USE DEF Init
<1>1. WrapTypeOK
  BY DEF WrapInit, WrapTypeOK, Lives, Crashes
<1>2. BusTypeOK
  BY DEF BusInit, BusTypeOK
<1>3. HandleTypeOK
  BY DEF HandleInit, HandleTypeOK
<1>4. CallTypeOK
  <2>1. fResponseLimit \in [Calls -> ResponseLimits]
    BY DEF CallInit, ResponseLimits
  <2>2. fResponseCount \in [Calls -> 0..CountCap]
    BY DEF CallInit, CountCap
  <2>. QED
    BY <2>1, <2>2 DEF CallInit, CallTypeOK
<1>. QED
  BY <1>1, <1>2, <1>3, <1>4 DEF TypeOK

\* In every run of the add-on, whatever fails and whatever the script does, the
\* variables stay within their types.
THEOREM TypeCorrect == Spec => []TypeOK
BY InitType, TypeStep, PTL DEF Spec

-----------------------------------------------------------------------------
(* Reference counts of handles *)

\* The calls bound to a handle are finitely many: their number is a natural
\* number, zero only when there is none.
LEMMA LiveCallsFinite ==
  ASSUME NEW h \in Handles
  PROVE  /\ IsFiniteSet(LiveCallsOf(h))
         /\ Cardinality(LiveCallsOf(h)) \in Nat
         /\ Cardinality(LiveCallsOf(h)) = 0 => LiveCallsOf(h) = {}
<1>1. IsFiniteSet(Calls)
  BY ObjectsAssumption
<1>2. LiveCallsOf(h) \subseteq Calls
  BY DEF LiveCallsOf
<1>3. IsFiniteSet(LiveCallsOf(h))
  BY <1>1, <1>2, FS_Subset
<1>. QED
  BY <1>3, FS_CardinalityType, FS_EmptySet

\* A step that neither creates nor deletes an object, binds a call, registers or
\* unregisters, and leaves the counts of handles alone: script, bus and listeners
\* do most of their work in such steps.
LEMMA RefFrame ==
  ASSUME RefInv, TypeOK',
         UNCHANGED <<life, callHandle, fRegisteredMethods>>,
         \A h \in Handles : refs'[h] = refs[h]
  PROVE  RefInv'
<1>1. \A h \in Handles : LiveCallsOf(h)' = LiveCallsOf(h) /\ MethodRef(h)' = MethodRef(h)
  BY DEF LiveCallsOf, MethodRef, Live
<1>2. HandleRefsExact'
  BY <1>1 DEF RefInv, HandleRefsExact, Live
<1>3. CallHandleAlive' /\ MethodsKeepHandle' /\ UnbornUntouched'
  BY DEF RefInv, CallHandleAlive, MethodsKeepHandle, UnbornUntouched, Live
<1>. QED
  BY <1>2, <1>3 DEF RefInv

\* A new call bound to a live handle is paid for by one reference.
LEMMA RefBind ==
  ASSUME RefInv, TypeOK',
         NEW h \in Handles, NEW c \in Calls, NEW limit, SetHandleAndCall(h, c, limit),
         refs'[h] = refs[h] + 1,
         \A g \in Handles \ {h} : refs'[g] = refs[g]
  PROVE  RefInv'
<1>. USE DEF RefInv
<1>1. /\ Live(h) /\ life[c] = "unborn"
      /\ life' = [life EXCEPT ![c] = "live"]
      /\ callHandle' = [callHandle EXCEPT ![c] = h]
      /\ fRegisteredMethods' = fRegisteredMethods
  BY DEF SetHandleAndCall, Usable, handleVars
<1>2. c \notin Handles /\ c \in Objects /\ h \in Objects /\ Handles \subseteq Objects
  BY ObjectsAssumption DEF Objects
<1>3. life \in [Objects -> Lives] /\ callHandle \in [Calls -> Handles \cup {NoObj}]
  BY DEF TypeOK, WrapTypeOK, CallTypeOK
<1>4. life'[c] = "live" /\ \A o \in Objects \ {c} : life'[o] = life[o]
  BY <1>1, <1>2, <1>3
<1>5. callHandle'[c] = h /\ \A d \in Calls \ {c} : callHandle'[d] = callHandle[d]
  BY <1>1, <1>3
<1>6. LiveCallsOf(h)' = LiveCallsOf(h) \cup {c} /\ c \notin LiveCallsOf(h)
  BY <1>1, <1>4, <1>5 DEF LiveCallsOf, Live, Objects
<1>7. \A g \in Handles \ {h} : LiveCallsOf(g)' = LiveCallsOf(g)
  <2>. SUFFICES ASSUME NEW g \in Handles \ {h} PROVE LiveCallsOf(g)' = LiveCallsOf(g)
    OBVIOUS
  <2>1. \A d \in Calls : (life'[d] = "live" /\ callHandle'[d] = g)
                          <=> (life[d] = "live" /\ callHandle[d] = g)
    BY <1>1, <1>4, <1>5 DEF Objects
  <2>. QED
    BY <2>1 DEF LiveCallsOf, Live
<1>8. Cardinality(LiveCallsOf(h)') = Cardinality(LiveCallsOf(h)) + 1
  BY <1>6, LiveCallsFinite, FS_AddElement
<1>9. HandleRefsExact'
  <2>. SUFFICES ASSUME NEW g \in Handles, Live(g)'
                PROVE  refs'[g] = Cardinality(LiveCallsOf(g)') + MethodRef(g)'
    BY DEF HandleRefsExact
  <2>1. MethodRef(g)' = MethodRef(g) /\ MethodRef(g) \in Nat
    BY <1>1 DEF MethodRef
  <2>2. Live(g)
    BY <1>2, <1>4 DEF Live
  <2>3. refs[g] = Cardinality(LiveCallsOf(g)) + MethodRef(g)
    BY <2>2 DEF HandleRefsExact
  <2>4. CASE g = h
    BY <2>1, <2>3, <2>4, <1>8, LiveCallsFinite
  <2>5. CASE g # h
    BY <2>1, <2>3, <2>5, <1>7
  <2>. QED
    BY <2>4, <2>5
<1>10. CallHandleAlive'
  <2>. SUFFICES ASSUME NEW d \in Calls, Live(d)', callHandle'[d] # NoObj
                PROVE  life'[callHandle'[d]] = "live"
    BY DEF CallHandleAlive, Live
  <2>1. CASE d = c
    BY <2>1, <1>1, <1>2, <1>4, <1>5 DEF Live
  <2>2. CASE d # c
    <3>1. Live(d) /\ callHandle[d] # NoObj /\ callHandle[d] \in Handles
      BY <2>2, <1>3, <1>4, <1>5 DEF Live, Objects
    <3>2. life[callHandle[d]] = "live"
      BY <3>1 DEF CallHandleAlive, Live
    <3>. QED
      BY <3>1, <3>2, <2>2, <1>2, <1>4, <1>5
  <2>. QED
    BY <2>1, <2>2
<1>11. MethodsKeepHandle'
  BY <1>1, <1>2, <1>4 DEF MethodsKeepHandle, Live
<1>12. UnbornUntouched'
  <2>1. \A g \in Handles : life'[g] = "unborn" => refs'[g] = 0
    BY <1>1, <1>2, <1>4 DEF UnbornUntouched, Live
  <2>2. \A d \in Calls : life'[d] = "unborn" => callHandle'[d] = NoObj
    BY <1>4, <1>5 DEF UnbornUntouched, Objects
  <2>. QED
    BY <2>1, <2>2 DEF UnbornUntouched
<1>. QED
  BY <1>9, <1>10, <1>11, <1>12

\* A handle that no live call and no method uses may be created or deleted.
LEMMA RefLifeOfHandle ==
  ASSUME RefInv, TypeOK',
         NEW h \in Handles, NEW l \in Lives,
         life[h] = "unborn" \/ refs[h] = 0,
         life' = [life EXCEPT ![h] = l], l # "unborn",
         UNCHANGED <<refs, callHandle, fRegisteredMethods>>
  PROVE  RefInv'
<1>. USE DEF RefInv
<1>1. h \in Objects /\ Calls \subseteq Objects /\ Handles \subseteq Objects
      /\ h \notin Calls /\ NoObj \notin Handles
  BY ObjectsAssumption DEF Objects
<1>2. /\ life \in [Objects -> Lives] /\ refs \in [Objects -> Nat]
      /\ callHandle \in [Calls -> Handles \cup {NoObj}]
      /\ fRegisteredMethods \in [Handles -> Nat]
  BY DEF TypeOK, WrapTypeOK, CallTypeOK, HandleTypeOK
<1>3. life'[h] = l /\ \A o \in Objects \ {h} : life'[o] = life[o]
  BY <1>1, <1>2
<1>4. LiveCallsOf(h) = {} /\ fRegisteredMethods[h] = 0 /\ refs[h] = 0
  <2>1. CASE Live(h)
    <3>1. refs[h] = 0
      BY <2>1 DEF Live
    <3>2. refs[h] = Cardinality(LiveCallsOf(h)) + MethodRef(h)
      BY <2>1 DEF HandleRefsExact
    <3>3. MethodRef(h) = 0 /\ Cardinality(LiveCallsOf(h)) = 0
      BY <3>1, <3>2, LiveCallsFinite DEF MethodRef
    <3>. QED
      BY <3>1, <3>3, <1>2, LiveCallsFinite DEF MethodRef
  <2>2. CASE ~Live(h)
    <3>1. LiveCallsOf(h) = {}
      BY <2>2, <1>1 DEF LiveCallsOf, CallHandleAlive
    <3>2. fRegisteredMethods[h] = 0
      BY <2>2, <1>2 DEF MethodsKeepHandle
    <3>3. refs[h] = 0
      BY DEF UnbornUntouched
    <3>. QED
      BY <3>1, <3>2, <3>3
  <2>. QED
    BY <2>1, <2>2
<1>5. \A g \in Handles : LiveCallsOf(g)' = LiveCallsOf(g) /\ MethodRef(g)' = MethodRef(g)
  BY <1>1, <1>3 DEF LiveCallsOf, Live, MethodRef
<1>6. HandleRefsExact'
  <2>. SUFFICES ASSUME NEW g \in Handles, life'[g] = "live"
                PROVE  refs[g] = Cardinality(LiveCallsOf(g)) + MethodRef(g)
    BY <1>5 DEF HandleRefsExact, Live
  <2>1. CASE g = h
    BY <2>1, <1>4, FS_EmptySet DEF MethodRef
  <2>2. CASE g # h
    BY <2>2, <1>1, <1>3 DEF HandleRefsExact, Live
  <2>. QED
    BY <2>1, <2>2
<1>7. CallHandleAlive'
  <2>. SUFFICES ASSUME NEW c \in Calls, life'[c] = "live", callHandle[c] # NoObj
                PROVE  life'[callHandle[c]] = "live"
    BY DEF CallHandleAlive, Live
  <2>1. Live(c) /\ callHandle[c] \in Handles
    BY <1>1, <1>2, <1>3 DEF Live
  <2>2. callHandle[c] # h
    BY <1>4, <2>1 DEF LiveCallsOf
  <2>3. life[callHandle[c]] = "live"
    BY <2>1 DEF CallHandleAlive, Live
  <2>. QED
    BY <1>1, <1>3, <2>1, <2>2, <2>3
<1>8. MethodsKeepHandle'
  BY <1>1, <1>3, <1>4 DEF MethodsKeepHandle, Live
<1>9. UnbornUntouched'
  BY <1>1, <1>3 DEF UnbornUntouched
<1>. QED
  BY <1>6, <1>7, <1>8, <1>9

\* The destructor of a call gives back the reference it had taken on its handle.
LEMMA RefCollectCall ==
  ASSUME RefInv, TypeOK', NEW c \in Calls, CollectCall(c)
  PROVE  RefInv'
<1>. USE DEF RefInv
<1>1. /\ Live(c)
      /\ life' = [life EXCEPT ![c] = "collected"]
      /\ refs' = RefsAfterDestruction(c)
      /\ callHandle' = callHandle /\ fRegisteredMethods' = fRegisteredMethods
  BY DEF CollectCall, Collectable, callVars, handleVars
<1>2. c \in Objects /\ Calls \subseteq Objects /\ Handles \subseteq Objects
      /\ c \notin Handles /\ NoObj \notin Handles
  BY ObjectsAssumption DEF Objects
<1>3. /\ life \in [Objects -> Lives] /\ refs \in [Objects -> Nat]
      /\ callHandle \in [Calls -> Handles \cup {NoObj}]
  BY DEF TypeOK, WrapTypeOK, CallTypeOK
<1>4. life'[c] = "collected" /\ \A o \in Objects \ {c} : life'[o] = life[o]
  BY <1>1, <1>2, <1>3
<1>5. \A h \in Handles : LiveCallsOf(h)' = LiveCallsOf(h) \ {c}
  BY <1>1, <1>2, <1>4 DEF LiveCallsOf, Live
<1>6. HandleRefsExact'
  <2>. SUFFICES ASSUME NEW h \in Handles, Live(h)'
                PROVE  refs'[h] = Cardinality(LiveCallsOf(h)') + MethodRef(h)'
    BY DEF HandleRefsExact
  <2>1. MethodRef(h)' = MethodRef(h) /\ MethodRef(h) \in Nat
    BY <1>1 DEF MethodRef
  <2>2. refs[h] = Cardinality(LiveCallsOf(h)) + MethodRef(h)
    BY <1>2, <1>4 DEF HandleRefsExact, Live
  <2>3. CASE callHandle[c] = h
    <3>1. c \in LiveCallsOf(h)
      BY <1>1, <2>3 DEF LiveCallsOf
    <3>2. Cardinality(LiveCallsOf(h)') = Cardinality(LiveCallsOf(h)) - 1
      BY <3>1, <1>5, LiveCallsFinite, FS_RemoveElement
    <3>3. Cardinality(LiveCallsOf(h)) # 0
      BY <3>1, LiveCallsFinite
    <3>4. refs'[h] = refs[h] - 1
      BY <1>1, <1>2, <1>3, <2>1, <2>2, <2>3, <3>3, LiveCallsFinite
         DEF RefsAfterDestruction, Unref
    <3>. QED
      BY <2>1, <2>2, <3>2, <3>4, LiveCallsFinite
  <2>4. CASE callHandle[c] # h
    <3>1. LiveCallsOf(h)' = LiveCallsOf(h)
      BY <1>5, <2>4 DEF LiveCallsOf
    <3>2. refs'[h] = refs[h]
      BY <1>1, <1>2, <1>3, <2>4 DEF RefsAfterDestruction, Unref
    <3>. QED
      BY <2>1, <2>2, <3>1, <3>2
  <2>. QED
    BY <2>3, <2>4
<1>7. CallHandleAlive'
  <2>. SUFFICES ASSUME NEW d \in Calls, life'[d] = "live", callHandle[d] # NoObj
                PROVE  life'[callHandle[d]] = "live"
    BY <1>1 DEF CallHandleAlive, Live
  <2>1. Live(d) /\ callHandle[d] \in Handles
    BY <1>2, <1>3, <1>4 DEF Live
  <2>2. life[callHandle[d]] = "live"
    BY <2>1 DEF CallHandleAlive, Live
  <2>. QED
    BY <1>2, <1>4, <2>1, <2>2
<1>8. MethodsKeepHandle'
  BY <1>1, <1>2, <1>4 DEF MethodsKeepHandle, Live
<1>9. UnbornUntouched'
  <2>1. \A h \in Handles : life'[h] = "unborn" => refs'[h] = 0
    BY <1>1, <1>2, <1>3, <1>4 DEF UnbornUntouched, RefsAfterDestruction, Unref
  <2>2. \A d \in Calls : life'[d] = "unborn" => callHandle'[d] = NoObj
    BY <1>1, <1>2, <1>4 DEF UnbornUntouched
  <2>. QED
    BY <2>1, <2>2 DEF UnbornUntouched
<1>. QED
  BY <1>6, <1>7, <1>8, <1>9

\* Registering a method or unregistering moves the one reference for the methods
\* together with the methods themselves.
LEMMA RefMethods ==
  ASSUME RefInv, TypeOK', NEW h \in Handles, Live(h),
         UNCHANGED <<life, callHandle>>,
         refs'[h] = refs[h] - MethodRef(h) + MethodRef(h)',
         \A g \in Handles \ {h} :
           refs'[g] = refs[g] /\ fRegisteredMethods'[g] = fRegisteredMethods[g]
  PROVE  RefInv'
<1>. USE DEF RefInv
<1>1. h \in Objects /\ Handles \subseteq Objects /\ refs \in [Objects -> Nat]
  BY DEF TypeOK, WrapTypeOK, Objects
<1>2. \A g \in Handles : LiveCallsOf(g)' = LiveCallsOf(g)
  BY DEF LiveCallsOf, Live
<1>3. HandleRefsExact'
  <2>. SUFFICES ASSUME NEW g \in Handles, Live(g)
                PROVE  refs'[g] = Cardinality(LiveCallsOf(g)) + MethodRef(g)'
    BY <1>2 DEF HandleRefsExact, Live
  <2>1. refs[g] = Cardinality(LiveCallsOf(g)) + MethodRef(g)
    BY DEF HandleRefsExact
  <2>2. CASE g = h
    <3>1. MethodRef(h) \in Nat /\ MethodRef(h)' \in Nat
      BY DEF MethodRef
    <3>. QED
      BY <2>1, <2>2, <3>1, LiveCallsFinite
  <2>3. CASE g # h
    <3>1. MethodRef(g)' = MethodRef(g) /\ refs'[g] = refs[g]
      BY <1>1, <2>3 DEF MethodRef
    <3>. QED
      BY <2>1, <3>1
  <2>. QED
    BY <2>2, <2>3
<1>4. CallHandleAlive'
  BY DEF CallHandleAlive, Live
<1>5. MethodsKeepHandle'
  BY DEF MethodsKeepHandle, Live
<1>6. UnbornUntouched'
  BY <1>1 DEF UnbornUntouched, Live
<1>. QED
  BY <1>3, <1>4, <1>5, <1>6

\* Every action keeps the reference counts of handles exact.
LEMMA RefStep == RefInv /\ [Next]_vars => RefInv'
<1>. SUFFICES ASSUME RefInv, [Next]_vars PROVE RefInv'
  OBVIOUS
<1>a. TypeOK /\ TypeOK'
  BY TypeStep DEF RefInv
<1>b. refs \in [Objects -> Nat] /\ fRegisteredMethods \in [Handles -> Nat]
  BY <1>a DEF TypeOK, WrapTypeOK, HandleTypeOK
<1>c. /\ Calls \subseteq Objects /\ Handles \subseteq Objects
      /\ \A c \in Calls, h \in Handles : c # h
  BY ObjectsAssumption DEF Objects
<1>1. ASSUME NEW o \in Objects, Drop(o) \/ Keep(o), UNCHANGED <<busVars, handleVars, callVars>>
      PROVE  RefInv'
  BY <1>1, <1>a, RefFrame DEF Drop, Keep, handleVars, callVars
<1>2. ASSUME NEW h \in Handles, NewHandle(h), UNCHANGED callVars PROVE RefInv'
  BY <1>2, <1>a, RefLifeOfHandle DEF NewHandle, callVars, Lives
<1>3. ASSUME NEW h \in Handles, NewHandleThrows(h), UNCHANGED callVars PROVE RefInv'
  BY <1>3, <1>a, RefLifeOfHandle DEF NewHandleThrows, handleVars, callVars, Lives
<1>4. ASSUME NEW h \in Handles, NEW k \in Categories, RegisterMethod(h, k), UNCHANGED callVars
      PROVE  RefInv'
  <2>1. /\ Live(h) /\ life' = life /\ callHandle' = callHandle
        /\ fRegisteredMethods' = [fRegisteredMethods EXCEPT ![h] = @ + 1]
        /\ refs' = RefsAfterRegister(h)
    BY <1>4 DEF RegisterMethod, Usable, callVars
  <2>2. fRegisteredMethods'[h] = fRegisteredMethods[h] + 1
    BY <2>1, <1>b
  <2>3. MethodRef(h)' = 1
    BY <2>2, <1>b DEF MethodRef
  <2>4. refs'[h] = refs[h] - MethodRef(h) + MethodRef(h)'
    BY <2>1, <2>3, <1>b, <1>c DEF RefsAfterRegister, Ref, MethodRef
  <2>5. \A g \in Handles \ {h} :
          refs'[g] = refs[g] /\ fRegisteredMethods'[g] = fRegisteredMethods[g]
    BY <2>1, <1>b, <1>c DEF RefsAfterRegister, Ref
  <2>. QED
    BY <1>a, <2>1, <2>4, <2>5, RefMethods
<1>5. ASSUME NEW h \in Handles, Unregister(h), UNCHANGED callVars PROVE RefInv'
  <2>1. /\ Live(h) /\ life' = life /\ callHandle' = callHandle
        /\ fRegisteredMethods' = [fRegisteredMethods EXCEPT ![h] = 0]
        /\ refs' = RefsAfterUnregister(h)
    BY <1>5 DEF Unregister, Usable, callVars
  <2>2. MethodRef(h)' = 0
    BY <2>1, <1>b DEF MethodRef
  <2>3. refs[h] >= MethodRef(h)
    BY <2>1, <1>b, LiveCallsFinite DEF RefInv, HandleRefsExact, MethodRef
  <2>4. refs'[h] = refs[h] - MethodRef(h) + MethodRef(h)'
    BY <2>1, <2>2, <2>3, <1>b, <1>c DEF RefsAfterUnregister, Unref, MethodRef
  <2>5. \A g \in Handles \ {h} :
          refs'[g] = refs[g] /\ fRegisteredMethods'[g] = fRegisteredMethods[g]
    BY <2>1, <1>b, <1>c DEF RefsAfterUnregister, Unref
  <2>. QED
    BY <1>a, <2>1, <2>4, <2>5, RefMethods
<1>6. ASSUME NEW h \in Handles, SubscriptionAdd(h) PROVE RefInv'
  BY <1>6, <1>a, RefFrame DEF SubscriptionAdd, wrapVars, handleVars, callVars
<1>7. ASSUME NEW h \in Handles, NEW c \in Calls, NEW limit \in ResponseLimits,
             CallInternal(h, c, limit) \/ CallInternalThrows(h, c, limit)
               \/ CallSessionStub(h, c, limit)
      PROVE  RefInv'
  <2>1. SetHandleAndCall(h, c, limit)
    BY <1>7 DEF CallInternal, CallInternalThrows, CallSessionStub
  <2>2. refs' = Ref(Ref(refs, h), c) \/ refs' = Ref(refs, h)
    BY <1>7 DEF CallInternal, CallInternalThrows, CallSessionStub
  <2>3. refs'[h] = refs[h] + 1 /\ \A g \in Handles \ {h} : refs'[g] = refs[g]
    BY <2>2, <1>b, <1>c DEF Ref
  <2>. QED
    BY <1>a, <2>1, <2>3, RefBind
<1>8. ASSUME NEW c \in Calls, NewCall(c) PROVE RefInv'
  <2>1. /\ life[c] = "unborn" /\ life' = [life EXCEPT ![c] = "live"]
        /\ UNCHANGED <<refs, callHandle, fRegisteredMethods>>
    BY <1>8 DEF NewCall, handleVars, callVars
  <2>2. life'[c] = "live" /\ \A o \in Objects \ {c} : life'[o] = life[o]
    BY <2>1, <1>a, <1>c DEF TypeOK, WrapTypeOK
  <2>3. callHandle[c] = NoObj /\ NoObj \notin Handles /\ callHandle \in [Calls -> Handles \cup {NoObj}]
    BY <2>1, <1>a, ObjectsAssumption DEF RefInv, UnbornUntouched, TypeOK, CallTypeOK, Objects
  <2>4. \A h \in Handles : LiveCallsOf(h)' = LiveCallsOf(h) /\ MethodRef(h)' = MethodRef(h)
    BY <2>1, <2>2, <2>3, <1>c DEF LiveCallsOf, Live, MethodRef
  <2>5. \A h \in Handles : life'[h] = life[h]
    BY <2>2, <1>c
  <2>6. HandleRefsExact'
    BY <2>1, <2>4, <2>5 DEF RefInv, HandleRefsExact, Live
  <2>7. CallHandleAlive'
    BY <2>1, <2>2, <2>3, <2>5, <1>c DEF RefInv, CallHandleAlive, Live
  <2>8. MethodsKeepHandle' /\ UnbornUntouched'
    BY <2>1, <2>2, <2>3, <2>5, <1>c DEF RefInv, MethodsKeepHandle, UnbornUntouched, Live
  <2>. QED
    BY <1>a, <2>6, <2>7, <2>8 DEF RefInv
<1>9. ASSUME NEW c \in Calls, CancelCall(c) PROVE RefInv'
  <2>1. refs' = Unref(refs, c) /\ UNCHANGED <<life, callHandle, fRegisteredMethods>>
    BY <1>9 DEF CancelCall, handleVars
  <2>2. \A h \in Handles : refs'[h] = refs[h]
    BY <2>1, <1>b, <1>c DEF Unref
  <2>. QED
    BY <1>a, <2>1, <2>2, RefFrame
<1>10. ASSUME NEW c \in Calls, SetResponseTimeout(c) PROVE RefInv'
  BY <1>10, <1>a, RefFrame DEF SetResponseTimeout, handleVars, callVars
<1>11. ASSUME NEW h \in Handles, NEW c \in Calls, CancelToken(h, c) PROVE RefInv'
  BY <1>11, <1>a, RefFrame DEF CancelToken, wrapVars, handleVars, callVars
<1>12. ASSUME NEW h \in Handles, NEW k \in Categories, RequestArrived(h, k), UNCHANGED callVars
       PROVE  RefInv'
  BY <1>12, <1>a, RefFrame DEF RequestArrived, EmitMessage, handleVars, callVars
<1>13. ASSUME NEW h \in Handles, CancelArrived(h), UNCHANGED callVars PROVE RefInv'
  BY <1>13, <1>a, RefFrame DEF CancelArrived, EmitMessage, handleVars, callVars
<1>14. ASSUME NEW c \in Calls, NEW error \in BOOLEAN, ResponseArrived(c, error) PROVE RefInv'
  BY <1>14, <1>a, RefFrame DEF ResponseArrived, EmitMessage, handleVars
<1>15. ASSUME EndHandleEvent, UNCHANGED callVars PROVE RefInv'
  BY <1>15, <1>a, RefFrame DEF EndHandleEvent, handleVars, callVars
<1>16. ASSUME NEW c \in Calls, EndResponse(c) PROVE RefInv'
  <2>1. /\ refs' = Unref(refs, c) \/ refs' = refs
        /\ UNCHANGED <<life, callHandle, fRegisteredMethods>>
    BY <1>16 DEF EndResponse, handleVars
  <2>2. \A h \in Handles : refs'[h] = refs[h]
    BY <2>1, <1>b, <1>c DEF Unref
  <2>. QED
    BY <1>a, <2>1, <2>2, RefFrame
<1>17. ASSUME NEW h \in Handles, CollectHandle(h), UNCHANGED callVars PROVE RefInv'
  BY <1>17, <1>a, RefLifeOfHandle DEF CollectHandle, Collectable, handleVars, callVars, Lives
<1>18. ASSUME NEW c \in Calls, CollectCall(c) PROVE RefInv'
  BY <1>18, <1>a, RefCollectCall
<1>19. CASE UNCHANGED vars
  BY <1>19, <1>a, RefFrame DEF vars, wrapVars, handleVars, callVars
<1>. QED
  BY <1>1, <1>2, <1>3, <1>4, <1>5, <1>6, <1>7, <1>8, <1>9, <1>10, <1>11, <1>12, <1>13, <1>14,
     <1>15, <1>16, <1>17, <1>18, <1>19
     DEF Next, ScriptStep, BusStep, ListenersReturn, CollectorStep

\* The reference counting invariant holds from the first step on.
LEMMA RefInvariant == Spec => []RefInv
<1>1. Init => RefInv
  <2>. SUFFICES ASSUME Init PROVE RefInv
    OBVIOUS
  <2>1. TypeOK
    BY InitType
  <2>2. \A o \in Objects : life[o] = "unborn" /\ refs[o] = 0
    BY DEF Init, WrapInit
  <2>3. \A c \in Calls : callHandle[c] = NoObj
    BY DEF Init, CallInit
  <2>4. \A h \in Handles : fRegisteredMethods[h] = 0
    BY DEF Init, HandleInit
  <2>. QED
    BY <2>1, <2>2, <2>3, <2>4
       DEF RefInv, HandleRefsExact, CallHandleAlive, MethodsKeepHandle, UnbornUntouched, Live,
           Objects
<1>. QED
  BY <1>1, RefStep, PTL DEF Spec

\* Whatever fails and whatever the script does, the count of a live handle is
\* exactly one per live call on it plus one when methods are registered: the Ref()
\* and Unref() of LS2Handle and LS2Call are balanced.
THEOREM HandleRefsCorrect == Spec => []HandleRefsExact
<1>1. RefInv => HandleRefsExact
  BY DEF RefInv
<1>. QED
  BY <1>1, RefInvariant, PTL

\* In every environment the handle a live call points to is not deleted, so the
\* unchecked fHandle-> of CancelInternal and setResponseTimeout is safe.
THEOREM CallHandleCorrect == Spec => []CallHandleAlive
<1>1. RefInv => CallHandleAlive
  BY DEF RefInv
<1>. QED
  BY <1>1, RefInvariant, PTL

\* In every environment a handle with methods is not deleted: the branch of
\* ~LS2Handle commented "This should never happen" never runs.
THEOREM MethodsCorrect == Spec => []MethodsKeepHandle
<1>1. RefInv => MethodsKeepHandle
  BY DEF RefInv
<1>. QED
  BY <1>1, RefInvariant, PTL

=============================================================================
