------------------------- MODULE SysbusReleaseProofs -------------------------
(***************************************************************************)
(* The self-reference of a call is given back: by the last response in     *)
(* every environment, and by everything that ends a call unless it is      *)
(* cancelled by its number or never sent.  These are the steps that the    *)
(* liveness properties of Sysbus rest on, for every set of handles, calls  *)
(* and categories.                                                         *)
(***************************************************************************)
EXTENDS SysbusSafetyProofs

-----------------------------------------------------------------------------
(* The last response, in every environment *)

\* Why ReleasedByLastResponse holds: until the self-reference is given back, the
\* token stays valid on a call that the bus may answer, so that CancelInternal gets
\* past its early return; and there is one self-reference at most.
Releasable(c) ==
  /\ life[c] = "unborn" => refs[c] = 0 /\ ~fToken[c] /\ ~Outstanding(c)
  /\ emitting = c => Live(c)
  /\ refs[c] <= 1
  /\ Live(c) /\ (Outstanding(c) \/ emitting = c) /\ refs[c] > 0 /\ HasValidHandle(c)
       => fToken[c]

ReleaseInv == RefInv /\ \A c \in Calls : Releasable(c)

\* What EndResponse does to the reference and to the token.
LEMMA EndResponseReleases ==
  ASSUME ReleaseInv, NEW c \in Calls, EndResponse(c)
  PROVE  /\ refs'[c] <= 1
         /\ refs'[c] > 0 => refs[c] > 0
         /\ LastResponse(c) /\ HasValidHandle(c) => refs'[c] = 0
         /\ ~LastResponse(c) => fToken'[c] = fToken[c]
<1>a. /\ refs \in [Objects -> Nat] /\ c \in Objects /\ fToken \in [Calls -> BOOLEAN]
      /\ emitting = c /\ Live(c) /\ refs[c] <= 1
      /\ refs[c] > 0 /\ HasValidHandle(c) => fToken[c]
  BY DEF ReleaseInv, Releasable, RefInv, TypeOK, WrapTypeOK, CallTypeOK, Objects, EndResponse
<1>1. CASE LastResponse(c) /\ CancelProceeds(c)
  <2>1. refs' = Unref(refs, c)
    BY <1>1 DEF EndResponse
  <2>2. refs'[c] = 0
    BY <1>a, <2>1 DEF Unref
  <2>. QED
    BY <1>1, <2>2
<1>2. CASE ~(LastResponse(c) /\ CancelProceeds(c))
  <2>1. refs' = refs
    BY <1>2 DEF EndResponse
  <2>2. LastResponse(c) /\ HasValidHandle(c) => refs[c] = 0
    BY <1>a, <1>2 DEF CancelProceeds
  <2>3. ~LastResponse(c) => fToken'[c] = fToken[c]
    <3>1. fToken' = [fToken EXCEPT ![c] = TokenAfterResponse(c)]
      BY DEF EndResponse
    <3>2. ~LastResponse(c) => TokenAfterResponse(c) = fToken[c]
      BY <1>a DEF TokenAfterResponse
    <3>. QED
      BY <1>a, <3>1, <3>2
  <2>. QED
    BY <1>a, <2>1, <2>2, <2>3
<1>. QED
  BY <1>1, <1>2

LEMMA ReleaseStep == ReleaseInv /\ [Next]_vars => ReleaseInv'
<1> SUFFICES ASSUME ReleaseInv, [Next]_vars, NEW c \in Calls PROVE Releasable(c)'
  BY RefStep DEF ReleaseInv
<1>a. RefInv /\ TypeOK /\ Releasable(c)
  BY DEF ReleaseInv, RefInv
<1>b. /\ refs \in [Objects -> Nat] /\ life \in [Objects -> Lives] /\ refs[c] \in Nat
      /\ callMap \in [Calls -> Handles \cup {NoObj}] /\ fToken \in [Calls -> BOOLEAN]
      /\ c \in Objects /\ c # NoObj
  BY <1>a, ObjectsAssumption DEF TypeOK, WrapTypeOK, BusTypeOK, CallTypeOK, Objects
<1>1. CASE Untouched(c)
  <2>1. /\ life'[c] = life[c] /\ refs'[c] = refs[c] /\ fToken'[c] = fToken[c]
        /\ callHandle'[c] = callHandle[c] /\ (emitting' = c <=> emitting = c)
        /\ callMap'[c] = callMap[c] \/ callMap'[c] = NoObj
    BY <1>1 DEF Untouched
  <2>2. Live(c)' /\ HasValidHandle(c)' => HasValidHandle(c)
    BY <1>a, <2>1, ValidityStep DEF Live
  <2>. QED
    BY <1>a, <2>1, <2>2 DEF Releasable, Outstanding, Live
<1>2. CASE Made(c)
  BY <1>2, <1>a, <1>b DEF Made, Releasable, Outstanding, Live
<1>3. CASE CancelCall(c)
  <2>1. /\ Live(c) /\ life' = life /\ emitting' = emitting
        /\ refs' = Unref(refs, c)
    BY <1>3 DEF CancelCall, Usable
  <2>2. refs'[c] = 0
    BY <1>a, <1>b, <2>1 DEF Unref, Releasable
  <2>. QED
    BY <1>a, <2>1, <2>2 DEF Releasable, Live
<1>4. CASE EndResponse(c)
  <2>1. /\ emitting = c /\ emitting' = NoObj
        /\ UNCHANGED <<life, callHandle, fHandle>>
        /\ callMap' = callMap \/ callMap' = Forget(c)
    BY <1>4 DEF EndResponse, handleVars
  <2>2. /\ refs'[c] <= 1
        /\ refs'[c] > 0 => refs[c] > 0
        /\ LastResponse(c) /\ HasValidHandle(c) => refs'[c] = 0
        /\ ~LastResponse(c) => fToken'[c] = fToken[c]
    BY <1>4, EndResponseReleases
  <2>3. HasValidHandle(c)' => HasValidHandle(c)
    BY <2>1 DEF HasValidHandle, IsValid
  <2>4. Live(c) /\ Live(c)'
    BY <1>a, <2>1 DEF Releasable, Live
  <2>5. refs'[c] > 0 /\ HasValidHandle(c)' => fToken'[c]
    <3>. SUFFICES ASSUME refs'[c] > 0, HasValidHandle(c)' PROVE fToken'[c]
      OBVIOUS
    <3>1. refs[c] > 0 /\ HasValidHandle(c) /\ refs'[c] # 0
      BY <2>2, <2>3
    <3>2. fToken[c]
      BY <1>a, <2>1, <2>4, <3>1 DEF Releasable
    <3>3. fToken'[c] = fToken[c]
      BY <2>2, <3>1
    <3>. QED
      BY <3>2, <3>3
  <2>. QED
    BY <1>b, <2>1, <2>2, <2>4, <2>5 DEF Releasable, Live
<1>5. CASE CollectCall(c)
  <2>1. refs[c] = 0 /\ emitting # c /\ emitting' = emitting /\ life'[c] = "collected"
    BY <1>5, <1>b DEF CollectCall, Collectable
  <2>2. refs'[c] = 0
    BY <1>5, <1>b, <2>1, <1>a, ObjectsAssumption
       DEF CollectCall, RefsAfterDestruction, Unref, TypeOK, CallTypeOK, Objects
  <2>. QED
    BY <2>1, <2>2 DEF Releasable
<1>6. ASSUME NEW error \in BOOLEAN, ResponseArrived(c, error) PROVE Releasable(c)'
  <2>1. /\ Outstanding(c) /\ emitting' = (IF Live(c) THEN c ELSE emitting) /\ emitting = NoObj
        /\ UNCHANGED <<life, refs, fToken, callHandle, fHandle>>
    BY <1>6 DEF ResponseArrived, EmitMessage, Idle, handleVars
  <2>2. (Outstanding(c) \/ emitting = c)' => Outstanding(c)
    BY <2>1
  <2>3. HasValidHandle(c)' <=> HasValidHandle(c)
    BY <2>1 DEF HasValidHandle, IsValid
  <2>. QED
    BY <1>a, <1>b, <2>1, <2>2, <2>3 DEF Releasable, Live
<1>7. ASSUME NEW h \in Handles, CancelToken(h, c) PROVE Releasable(c)'
  <2>1. /\ UNCHANGED <<life, refs, fToken, callHandle, fHandle, emitting>>
        /\ callMap' = Forget(c)
    BY <1>7 DEF CancelToken, wrapVars, handleVars, callVars
  <2>2. HasValidHandle(c)' <=> HasValidHandle(c)
    BY <2>1 DEF HasValidHandle, IsValid
  <2>3. ~Outstanding(c)'
    BY <1>b, <2>1 DEF Outstanding, Forget
  <2>. QED
    BY <1>a, <2>1, <2>2, <2>3 DEF Releasable, Live
<1>. QED
  BY <1>1, <1>2, <1>3, <1>4, <1>5, <1>6, <1>7, <1>a, CallView

LEMMA ReleaseInvariant == Spec => []ReleaseInv
<1>1. Init /\ RefInv => ReleaseInv
  <2>. SUFFICES ASSUME Init, RefInv, NEW c \in Calls PROVE Releasable(c)
    BY DEF ReleaseInv
  <2>1. /\ life[c] = "unborn" /\ refs[c] = 0 /\ ~fToken[c] /\ callMap[c] = NoObj
        /\ emitting = NoObj /\ c # NoObj
    BY ObjectsAssumption DEF Init, WrapInit, BusInit, CallInit, Objects
  <2>. QED
    BY <2>1 DEF Releasable, Outstanding, Live
<1>. QED
  BY <1>1, RefInvariant, ReleaseStep, PTL DEF Spec

\* A step after which c is no longer emitting is the end of its callback.
LEMMA EmittingEnds ==
  ASSUME ReleaseInv, [Next]_vars, NEW c \in Calls, emitting = c, emitting' # c
  PROVE  EndResponse(c)
<1>a. TypeOK /\ Live(c) /\ c # NoObj /\ c \notin Handles
  BY ObjectsAssumption DEF ReleaseInv, Releasable, RefInv, Objects
<1>1. ~Untouched(c)
  BY DEF Untouched
<1>2. ~Made(c)
  BY DEF Made
<1>3. ~CancelCall(c) /\ ~CollectCall(c)
  BY DEF CancelCall, CollectCall, Collectable
<1>4. ASSUME NEW error \in BOOLEAN PROVE ~ResponseArrived(c, error)
  BY <1>a DEF ResponseArrived, Idle
<1>5. ASSUME NEW h \in Handles PROVE ~CancelToken(h, c)
  BY DEF CancelToken, wrapVars
<1>. QED
  BY <1>1, <1>2, <1>3, <1>4, <1>5, <1>a, CallView

\* In every environment, whatever fails and whatever the listeners do: the callback
\* of the last response leaves the call without a self-reference, unless its handle
\* was unregistered.
THEOREM LastResponseCorrect == Spec => ReleasedByLastResponse
<1>1. ReleaseInv /\ [Next]_vars =>
        [\A c \in Calls : emitting = c /\ emitting' # c /\ LastResponse(c) =>
           refs'[c] = 0 \/ ~HasValidHandle(c)]_vars
  BY EmittingEnds, EndResponseReleases
<1>. QED
  BY <1>1, ReleaseInvariant, PTL DEF Spec, ReleasedByLastResponse

-----------------------------------------------------------------------------
(* No self-reference for nothing *)

\* Why NothingLeaks holds: the library forgets a call only when its handle is given
\* up, when CancelInternal has taken the reference back, or with the last reply,
\* whose callback takes it back.
Kept(c) ==
  /\ emitting = c => fResponseCount[c] > 0
  /\ c \in single => fResponseLimit[c] = 1 /\ life[c] # "unborn"
  /\ Outstanding(c) => callMap[c] = callHandle[c]
  /\ Live(c) /\ refs[c] > 0 /\ HasValidHandle(c) =>
       Outstanding(c) \/ (emitting = c /\ LastReply(c, errorReply))

KeptInv == ReleaseInv /\ \A c \in Calls : Kept(c)

LEMMA KeptStep == Unnumbered /\ SessionsSent /\ KeptInv /\ [Next]_vars => KeptInv'
<1> SUFFICES ASSUME Unnumbered, SessionsSent, KeptInv, [Next]_vars, NEW c \in Calls
             PROVE  Kept(c)'
  BY ReleaseStep DEF KeptInv
<1>a. RefInv /\ TypeOK /\ Releasable(c) /\ ReleaseInv /\ Kept(c)
  BY DEF KeptInv, ReleaseInv, RefInv
<1>b. /\ refs \in [Objects -> Nat] /\ life \in [Objects -> Lives] /\ refs[c] \in Nat
      /\ callMap \in [Calls -> Handles \cup {NoObj}]
      /\ callHandle \in [Calls -> Handles \cup {NoObj}]
      /\ fResponseCount \in [Calls -> 0..CountCap] /\ fResponseCount[c] \in Nat
      /\ c \in Objects /\ c # NoObj /\ NoObj \notin Handles
  BY <1>a, ObjectsAssumption
     DEF TypeOK, WrapTypeOK, BusTypeOK, CallTypeOK, Objects, CountCap
<1>1. CASE Untouched(c)
  <2>1. /\ life'[c] = life[c] /\ refs'[c] = refs[c] /\ callHandle'[c] = callHandle[c]
        /\ fResponseLimit'[c] = fResponseLimit[c] /\ fResponseCount'[c] = fResponseCount[c]
        /\ (c \in single' <=> c \in single)
        /\ \/ callMap'[c] = callMap[c]
           \/ callMap'[c] = NoObj /\ ~fHandle'[callMap[c]]
        /\ (emitting' = c <=> emitting = c) /\ (emitting = c => errorReply' = errorReply)
    BY <1>1 DEF Untouched
  <2>2. ASSUME Live(c)', refs'[c] > 0, HasValidHandle(c)'
        PROVE  (Outstanding(c) \/ (emitting = c /\ LastReply(c, errorReply)))'
    <3>1. Live(c) /\ refs[c] > 0 /\ HasValidHandle(c) /\ fHandle'[callHandle[c]]
      BY <1>a, <2>1, <2>2, ValidityStep DEF Live, HasValidHandle, IsValid
    <3>. QED
      BY <1>a, <2>1, <3>1 DEF Kept, Outstanding, LastReply
  <2>. QED
    BY <1>a, <2>1, <2>2 DEF Kept, Outstanding
<1>2. CASE Made(c)
  BY <1>2, <1>a, <1>b DEF Made, Kept, Releasable, Outstanding, Live
<1>3. CASE CancelCall(c)
  <2>1. /\ refs' = Unref(refs, c)
        /\ UNCHANGED <<life, emitting, fResponseCount, fResponseLimit, single, callHandle>>
        /\ callMap' = callMap \/ callMap' = Forget(c)
    BY <1>3 DEF CancelCall
  <2>2. refs'[c] = 0
    BY <1>a, <1>b, <2>1 DEF Unref, Releasable
  <2>. QED
    BY <1>a, <1>b, <2>1, <2>2 DEF Kept, Outstanding, Forget
<1>4. CASE EndResponse(c)
  <2>1. /\ emitting = c /\ emitting' = NoObj
        /\ UNCHANGED <<life, single, fResponseLimit, fResponseCount, callHandle, fHandle>>
        /\ callMap' = callMap \/ callMap' = Forget(c)
    BY <1>4 DEF EndResponse, handleVars
  <2>2. /\ refs'[c] > 0 => refs[c] > 0
        /\ LastResponse(c) /\ HasValidHandle(c) => refs'[c] = 0
    BY <1>4, <1>a, EndResponseReleases
  <2>3. ASSUME Live(c)', refs'[c] > 0, HasValidHandle(c)' PROVE Outstanding(c)'
    <3>1. Live(c) /\ refs[c] > 0 /\ HasValidHandle(c) /\ refs'[c] # 0
      BY <2>1, <2>2, <2>3 DEF Live, HasValidHandle, IsValid
    <3>2. ~LastResponse(c)
      BY <2>2, <3>1
    <3>3. ~LastReply(c, errorReply)
      BY <1>a, <1>b, <2>1, <3>2
         DEF LastReply, LastResponse, LimitReached, kUnlimitedResponses, Kept
    <3>4. callMap' = callMap
      BY <1>4, <3>2, <3>3 DEF EndResponse
    <3>. QED
      BY <1>a, <3>1, <3>3, <3>4 DEF Kept, Outstanding
  <2>. QED
    BY <1>a, <1>b, <2>1, <2>3 DEF Kept, Outstanding, Forget
<1>5. CASE CollectCall(c)
  <2>1. /\ emitting # c /\ emitting' = emitting /\ life'[c] = "collected"
        /\ UNCHANGED <<single, fResponseLimit, fResponseCount, callHandle, callMap>>
    BY <1>5, <1>b DEF CollectCall, Collectable, busVars, callVars
  <2>. QED
    BY <1>a, <2>1 DEF Kept, Outstanding, Live
<1>6. ASSUME NEW error \in BOOLEAN, ResponseArrived(c, error) PROVE Kept(c)'
  <2>1. /\ Outstanding(c) /\ emitting' = (IF Live(c) THEN c ELSE emitting) /\ emitting = NoObj
        /\ errorReply' = error
        /\ UNCHANGED <<life, refs, single, fResponseLimit, callHandle, fHandle>>
        /\ fResponseCount' = [fResponseCount EXCEPT ![c] = IF @ < CountCap THEN @ + 1 ELSE @]
        /\ callMap' = callMap \/ (callMap' = Forget(c) /\ LastReply(c, error))
    BY <1>6 DEF ResponseArrived, EmitMessage, Idle, handleVars
  <2>2. fResponseCount'[c] > 0
    BY <1>b, <2>1 DEF CountCap
  <2>3. Live(c)' => Live(c) /\ emitting' = c
    BY <2>1 DEF Live
  <2>. QED
    BY <1>a, <1>b, <2>1, <2>2, <2>3 DEF Kept, Outstanding, Forget, LastReply
<1>7. ASSUME NEW h \in Handles, CancelToken(h, c) PROVE Kept(c)'
  BY <1>7 DEF CancelToken, Unnumbered
<1>. QED
  BY <1>1, <1>2, <1>3, <1>4, <1>5, <1>6, <1>7, <1>a, CallView

LEMMA KeptInvariant == ASSUME Unnumbered, SessionsSent PROVE Spec => []KeptInv
<1>1. Init /\ ReleaseInv => KeptInv
  <2>. SUFFICES ASSUME Init, ReleaseInv, NEW c \in Calls PROVE Kept(c)
    BY DEF KeptInv
  <2>1. /\ life[c] = "unborn" /\ callMap[c] = NoObj /\ single = {}
        /\ emitting = NoObj /\ c # NoObj
    BY ObjectsAssumption DEF Init, WrapInit, BusInit, CallInit, Objects
  <2>. QED
    BY <2>1 DEF Kept, Outstanding, Live
<1>2. KeptInv /\ [Next]_vars => KeptInv'
  BY KeptStep
<1>. QED
  BY <1>1, <1>2, ReleaseInvariant, PTL DEF Spec

\* Whatever library functions fail, LSCallCancel and LSUnregister included, a call
\* on a valid handle references itself only while an answer may come or is emitted,
\* if no call is cancelled by its number and session calls are sent.
THEOREM NothingLeaksCorrect ==
  ASSUME Unnumbered, SessionsSent PROVE Spec => []NothingLeaks
<1>1. KeptInv => NothingLeaks
  BY DEF KeptInv, Kept, NothingLeaks
<1>. QED
  BY <1>1, KeptInvariant, PTL

-----------------------------------------------------------------------------
(* No response after cancel *)

\* README.md:197: once cancel() has succeeded, or the last response was emitted, no
\* further response is, under the assumptions of LimitCorrect.
THEOREM CancelCorrect ==
  ASSUME Obeyed, Released PROVE Spec => NoResponseAfterCancel
<1>1. ASSUME LimitInv, [Next]_vars, NEW c \in Calls, emitting # c, emitting' = c
      PROVE  fToken[c]
  <2>a. TypeOK /\ (Outstanding(c) /\ emitting # c => fToken[c])
    BY <1>1 DEF LimitInv, WithinLimit, LinkInv, PinInv, RefInv
  <2>b. c # NoObj /\ c \notin Handles
    BY ObjectsAssumption DEF Objects
  <2>1. ~Untouched(c) /\ ~Made(c)
    BY <1>1 DEF Untouched, Made
  <2>2. ~CancelCall(c) /\ ~CollectCall(c) /\ ~EndResponse(c)
    BY <1>1 DEF CancelCall, CollectCall, EndResponse
  <2>3. ASSUME NEW h \in Handles PROVE ~CancelToken(h, c)
    BY <1>1 DEF CancelToken, wrapVars
  <2>4. \E error \in BOOLEAN : ResponseArrived(c, error)
    BY <1>1, <2>a, <2>1, <2>2, <2>3, CallView
  <2>. QED
    BY <1>1, <2>a, <2>4 DEF ResponseArrived
<1>2. LimitInv /\ [Next]_vars =>
        [\A c \in Calls : emitting # c /\ emitting' = c => fToken[c]]_vars
  BY <1>1
<1>. QED
  BY <1>2, LimitInvariant, PTL DEF Spec, NoResponseAfterCancel

=============================================================================
