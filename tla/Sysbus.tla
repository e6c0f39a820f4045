------------------------------- MODULE Sysbus -------------------------------
(***************************************************************************)
(* The add-on in a process: the script calls the API at any moment, also   *)
(* from inside a listener; the main loop delivers what the bus sends, one  *)
(* callback at a time; and the collector deletes weak unreachable wrapper  *)
(* objects at any moment.                                                  *)
(***************************************************************************)
EXTENDS LS2Call

vars == <<wrapVars, busVars, handleVars, callVars>>

Init ==
  /\ WrapInit
  /\ BusInit
  /\ HandleInit
  /\ CallInit

ScriptStep ==
  \/ \E o \in Objects : (Drop(o) \/ Keep(o)) /\ UNCHANGED <<busVars, handleVars, callVars>>
  \/ \E h \in Handles :
       /\ \/ NewHandle(h)
          \/ NewHandleThrows(h)
          \/ \E k \in Categories : RegisterMethod(h, k)
          \/ Unregister(h)
       /\ UNCHANGED callVars
  \/ \E h \in Handles : SubscriptionAdd(h)
  \/ \E h \in Handles, c \in Calls, limit \in ResponseLimits :
       \/ CallInternal(h, c, limit)
       \/ CallInternalThrows(h, c, limit)
       \/ CallSessionStub(h, c, limit)
  \/ \E c \in Calls : NewCall(c) \/ CancelCall(c) \/ SetResponseTimeout(c)
  \/ \E h \in Handles, c \in Calls : CancelToken(h, c)

BusStep ==
  \/ \E h \in Handles :
       /\ (\E k \in Categories : RequestArrived(h, k)) \/ CancelArrived(h)
       /\ UNCHANGED callVars
  \/ \E c \in Calls, error \in BOOLEAN : ResponseArrived(c, error)

ListenersReturn ==
  \/ EndHandleEvent /\ UNCHANGED callVars
  \/ \E c \in Calls : EndResponse(c)

CollectorStep ==
  \/ \E h \in Handles : CollectHandle(h) /\ UNCHANGED callVars
  \/ \E c \in Calls : CollectCall(c)

Next == ScriptStep \/ BusStep \/ ListenersReturn \/ CollectorStep

Spec == Init /\ [][Next]_vars

(***************************************************************************)
(* Fairness: JavaScript listeners run to completion, after which the       *)
(* callback goes on; and an armed response timeout, a source of the main   *)
(* loop, is dispatched once it has expired and the loop is free.           *)
(***************************************************************************)
Fairness ==
  /\ WF_vars(ListenersReturn)
  /\ \A c \in Calls : SF_vars(c \in timed /\ ResponseArrived(c, TRUE))

FairSpec == Spec /\ Fairness

-----------------------------------------------------------------------------
(* Safety *)

TypeOK ==
  /\ WrapTypeOK
  /\ BusTypeOK
  /\ HandleTypeOK
  /\ CallTypeOK

LiveCallsOf(h) == {c \in Calls : Live(c) /\ callHandle[c] = h}

\* The reference count of a live handle is one per live call bound to it plus
\* one when methods are registered, whatever was refused, cancelled, collected
\* or unregistered on the way: no Ref() of LS2Handle and LS2Call is given back
\* twice or kept.
HandleRefsExact ==
  \A h \in Handles : Live(h) => refs[h] = Cardinality(LiveCallsOf(h)) + MethodRef(h)

\* A live LS2Call never points to a deleted LS2Handle: CancelInternal, Cancel and
\* setResponseTimeout dereference the pointer without further checks.
CallHandleAlive ==
  \A c \in Calls : Live(c) /\ callHandle[c] # NoObj => Live(callHandle[c])

\* "This should never happen" in ~LS2Handle: no handle with registered methods
\* is deleted.
MethodsKeepHandle ==
  \A h \in Handles : fRegisteredMethods[h] > 0 => Live(h)

\* An object that does not exist yet has left no trace.
UnbornUntouched ==
  /\ \A h \in Handles : life[h] = "unborn" => refs[h] = 0
  /\ \A c \in Calls : life[c] = "unborn" => callHandle[c] = NoObj

\* The inductive invariant behind the three properties above, in every
\* environment.
RefInv ==
  /\ TypeOK
  /\ UnbornUntouched
  /\ HandleRefsExact
  /\ CallHandleAlive
  /\ MethodsKeepHandle

\* While the bus still has the last word on a call, that call references itself,
\* so the address the bus calls back with is not collected.  Only during the
\* last callback may the reference be gone already.
CallbackTargetPinned ==
  \A c \in Calls :
    Outstanding(c) => Live(c) /\ (refs[c] = 1 \/ (emitting = c /\ LastReply(c, errorReply)))

\* As long as the script could still cancel a call, the bus knows the call and
\* the self-reference is there to be given back, exactly once.
TokenMeansOutstanding ==
  \A c \in Calls : Live(c) /\ CancelProceeds(c) => Outstanding(c) /\ refs[c] = 1

\* No sequence of API calls, events and collections makes the process fail.
NoCrash == crash = "none"

\* call emits at most one response and watch at most two.
NoMoreThanLimit ==
  \A c \in Calls : fResponseLimit[c] # kUnlimitedResponses =>
                     fResponseCount[c] <= fResponseLimit[c]

\* The converse of CallbackTargetPinned: as long as its handle is valid, a call only
\* references itself while an answer can still come or is being emitted.  Whatever
\* failed, a refused call or cancellation included, nothing is kept alive for good.
NothingLeaks ==
  \A c \in Calls :
    Live(c) /\ refs[c] > 0 /\ HasValidHandle(c) => Outstanding(c) \/ emitting = c

-----------------------------------------------------------------------------
(* What a step may never do *)

\* The callback that delivers the last response, an error included, ends with the
\* self-reference given back, even if a listener cancelled the call before, unless
\* the handle was unregistered.
ReleasedByLastResponse ==
  [][\A c \in Calls :
       emitting = c /\ emitting' # c /\ LastResponse(c) =>
         refs'[c] = 0 \/ ~HasValidHandle(c)]_vars

\* README.md:197, cancel() is there to "prevent any further responses": a response
\* is emitted by a call only that was neither cancelled nor answered for good.
NoResponseAfterCancel ==
  [][\A c \in Calls : emitting # c /\ emitting' = c => fToken[c]]_vars

-----------------------------------------------------------------------------
(* What the README and the comments say, and the code does not do *)

\* README.md:197, cancel() is there to "prevent any further responses and release
\* the resources needed for the call": a call that still references itself is one
\* that cancel() releases.
CancelCanRelease ==
  \A c \in Calls : Live(c) /\ refs[c] > 0 => CancelProceeds(c)

\* README.md:197 again: releasing a call is not what kills the process.
ReleaseNeverAborts == crash # "unref"

\* README.md:176, "The 'cancel' event is emitted from a Handle object when a message
\* sent or received via that Handle is canceled": a cancellation that the bus passes
\* on to a handle is emitted by it.
CancelIsEmitted ==
  [][\A h \in Handles :
       subscribers'[h] < subscribers[h] /\ service'[h] = "up" => emitting' = h]_vars

-----------------------------------------------------------------------------
(* Liveness *)

\* The response that reaches the limit, or an error, releases the call, unless
\* its handle was unregistered meanwhile.
LastResponseReleases ==
  \A c \in Calls :
    emitting = c /\ (errorReply \/ LimitReached(c))
      ~> refs[c] = 0 \/ ~HasValidHandle(c) \/ ~Running

\* A one-reply call with a response timeout is released in the end whether or
\* not anybody answers.
TimeoutReleases ==
  \A c \in Calls :
    c \in timed /\ fResponseLimit[c] = 1
      ~> refs[c] = 0 \/ ~HasValidHandle(c) \/ ~Running

-----------------------------------------------------------------------------
(* Refinement *)

Contract ==
  INSTANCE GcContract WITH
    Limits     <- ResponseLimits,
    Unlimited  <- kUnlimitedResponses,
    MaxReplies <- CountCap,
    phase      <- [c \in Calls |->
                     IF life[c] = "unborn" THEN "idle"
                     ELSE IF refs[c] > 0 THEN "open" ELSE "closed"],
    made       <- callHandle,
    limit      <- fResponseLimit,
    replies    <- fResponseCount,
    alive      <- [h \in Handles |-> life[h] # "collected"],
    serving    <- [h \in Handles |-> fRegisteredMethods[h] > 0]

\* The add-on implements the contract on calls and handles.
ImplementsContract == Contract!CSpec

=============================================================================
