----------------------------- MODULE LS2Handle ------------------------------
(***************************************************************************)
(* LS2Handle: a service handle of the bus.  Its constructor registers the  *)
(* service, registerMethod exports methods, unregister gives the service   *)
(* up, and requests and cancellations of subscriptions arrive as 'request' *)
(* and 'cancel' events.                                                    *)
(*                                                                         *)
(* A method of the API that throws before it changes anything is a         *)
(* stuttering step and has no action: a wrong number of arguments, a null  *)
(* native object, a handle after unregister (RequireHandle).               *)
(***************************************************************************)
EXTENDS LunaBus

CONSTANT MaxMethods     \* bound on the methods registered on one handle

ASSUME MaxMethodsAssumption == MaxMethods \in Nat

VARIABLES
  fHandle,            \* per handle, whether LS2Handle::fHandle is not null
  fRegisteredMethods  \* per handle, the size of that vector

handleVars == <<fHandle, fRegisteredMethods>>

HandleTypeOK ==
  /\ fHandle \in [Handles -> BOOLEAN]
  /\ fRegisteredMethods \in [Handles -> Nat]

HandleInit ==
  /\ fHandle = [h \in Handles |-> FALSE]
  /\ fRegisteredMethods = [h \in Handles |-> 0]

IsValid(h) == fHandle[h]

-----------------------------------------------------------------------------
(* Construction *)

\* New: the service is registered, the loop attached and the cancel function set.
NewHandle(h) ==
  /\ Running
  /\ life[h] = "unborn"
  /\ life' = [life EXCEPT ![h] = "live"]
  /\ held' = held \cup {h}
  /\ service' = [service EXCEPT ![h] = "up"]
  /\ fHandle' = [fHandle EXCEPT ![h] = TRUE]
  /\ UNCHANGED <<refs, emitting, crash, fRegisteredMethods>>
  /\ UNCHANGED <<category, received, subscribers, callMap, single, timed>>

\* New: the service is registered, then the constructor throws.  The C++ object
\* is deleted by the unwinding and nobody unregisters the service.
NewHandleThrows(h) ==
  /\ Running
  /\ life[h] = "unborn"
  /\ FALSE \in Outcomes("LSGmainAttach") \cup Outcomes("LSSubscriptionSetCancelFunction")
  /\ life' = [life EXCEPT ![h] = "collected"]
  /\ service' = [service EXCEPT ![h] = "up"]
  /\ UNCHANGED <<refs, held, emitting, crash>>
  /\ UNCHANGED <<category, received, subscribers, callMap, single, timed>>
  /\ UNCHANGED handleVars

-----------------------------------------------------------------------------
(* Methods *)

\* The self-reference of a handle: one Ref() for all its registered methods.
MethodRef(h) == IF fRegisteredMethods[h] > 0 THEN 1 ELSE 0

\* RegisterCategory, by how far it gets: what becomes of the category.
CategoryAfter(h, k) ==
  {IF appended
     THEN IF dataSet \/ category[h][k] = "data" THEN "data" ELSE "nodata"
     ELSE category[h][k] :
   appended \in Outcomes("LSRegisterCategoryAppend"),
   dataSet \in Outcomes("LSCategorySetData")}

\* Ref() before the first method is stored.
RefsAfterRegister_EveryTime(h) == Ref(refs, h)
RefsAfterRegister_CheckedAfterPush(h) ==
  IF fRegisteredMethods[h] + 1 = 0 THEN Ref(refs, h) ELSE refs
RefsAfterRegister(h) == IF fRegisteredMethods[h] = 0 THEN Ref(refs, h) ELSE refs

\* RegisterMethod.  The method is stored and the handle referenced before the
\* bus is asked, and stay so when the bus refuses and the call throws.
RegisterMethod(h, k) ==
  /\ Usable(h)
  /\ IsValid(h)
  /\ fRegisteredMethods[h] < MaxMethods
  /\ refs' = RefsAfterRegister(h)
  /\ fRegisteredMethods' = [fRegisteredMethods EXCEPT ![h] = @ + 1]
  /\ \E s \in CategoryAfter(h, k) : category' = [category EXCEPT ![h][k] = s]
  /\ UNCHANGED <<life, held, emitting, crash, fHandle>>
  /\ UNCHANGED <<service, received, subscribers, callMap, single, timed>>

\* Unref() only when methods were registered.
RefsAfterUnregister_Always(h) == Unref(refs, h)
RefsAfterUnregister(h) == IF fRegisteredMethods[h] > 0 THEN Unref(refs, h) ELSE refs

\* Whether Unregister aborts on a handle whose count is n.
UnregisterAborts(h, n) == fRegisteredMethods[h] > 0 /\ n = 0

\* Unregister.  fHandle is dropped whether or not LSUnregister succeeded.
Unregister(h) ==
  /\ Usable(h)
  /\ IsValid(h) \/ fRegisteredMethods[h] > 0
  /\ \E ok \in IF IsValid(h) THEN Outcomes("LSUnregister") ELSE {FALSE} :
       /\ service' = [service EXCEPT ![h] = IF ok THEN "down" ELSE @]
       /\ callMap' = CallMapAfterUnregister(h, ok)
       /\ timed' = {c \in timed : callMap'[c] # NoObj}
       /\ subscribers' = [subscribers EXCEPT ![h] = IF ok THEN 0 ELSE @]
  /\ fHandle' = [fHandle EXCEPT ![h] = FALSE]
  /\ refs' = RefsAfterUnregister(h)
  /\ crash' = IF UnregisterAborts(h, refs[h]) THEN "unref" ELSE crash
  /\ fRegisteredMethods' = [fRegisteredMethods EXCEPT ![h] = 0]
  /\ UNCHANGED <<life, held, emitting, category, received, single>>

-----------------------------------------------------------------------------
(* Events *)

\* RequestCallback, RequestArrived: a method of category k is called.  The user
\* data of the category is the handle, or null if it was never set.
RequestArrived(h, k) ==
  /\ Idle
  /\ service[h] = "up"
  /\ category[h][k] # "none"
  /\ received' = received \cup {h}
  /\ \/ /\ category[h][k] = "data"
        /\ EmitMessage(h)
     \/ /\ category[h][k] = "nodata"
        /\ crash' = "null"
        /\ UNCHANGED <<life, refs, held, emitting>>
  /\ UNCHANGED <<service, category, subscribers, callMap, single, timed>>
  /\ UNCHANGED handleVars

\* CancelCallback, CancelArrived: a subscriber of h cancels.
CancelArrived(h) ==
  /\ Idle
  /\ service[h] = "up"
  /\ subscribers[h] > 0
  /\ subscribers' = [subscribers EXCEPT ![h] = @ - 1]
  /\ EmitMessage(h)
  /\ UNCHANGED <<service, category, received, callMap, single, timed>>
  /\ UNCHANGED handleVars

\* The listeners of the event return; RequestArrived and CancelArrived end.
EndHandleEvent ==
  /\ Running
  /\ emitting \in Handles
  /\ emitting' = NoObj
  /\ UNCHANGED <<life, refs, held, crash>>
  /\ UNCHANGED busVars
  /\ UNCHANGED handleVars

-----------------------------------------------------------------------------
(* Destruction *)

\* ~LS2Handle, run by the collector.  With methods left it unregisters, and the
\* Unref() in Unregister aborts on the dead object.  The service itself is not
\* given up.
CollectHandle(h) ==
  /\ Collectable(h)
  /\ life' = [life EXCEPT ![h] = "collected"]
  /\ crash' = IF UnregisterAborts(h, 0) THEN "unref" ELSE crash
  /\ UNCHANGED <<refs, held, emitting>>
  /\ UNCHANGED busVars
  /\ UNCHANGED handleVars

=============================================================================
