------------------------------ MODULE Wrappers ------------------------------
(***************************************************************************)
(* The member function wrappers: the template that stands between every    *)
(* method a script calls and the C++ method it names.  It counts and       *)
(* unwraps, converts the arguments one after the other, runs the method    *)
(* and turns C++ exceptions into JavaScript ones.  Converting an argument  *)
(* that is an object runs script, toString() or valueOf(), which may call  *)
(* other methods of the same handle: invocations nest, and a method runs   *)
(* in a state that may differ from the one in which it was called.  Sysbus *)
(* has one atomic action per method; this module shows what that rests on. *)
(*                                                                         *)
(* One LS2Handle stands for all objects, and one method for the methods    *)
(* that have the same list of parameter types: call for watch, subscribe   *)
(* and registerMethod, callSession for subscribeSession, pushRole for      *)
(* respond, unregister for all without parameters.  What these others do   *)
(* to handles and calls is in Sysbus.  What is refused before anything is  *)
(* converted, a wrong number of arguments or a null native object, changes *)
(* nothing and has no action.                                              *)
(***************************************************************************)
EXTENDS Integers, Sequences

CONSTANTS
  JsWidth,    \* bits of the unsigned numbers that tokens become in JavaScript: 32 in the code
  MaxTokens,  \* bound on the calls made
  MaxDepth    \* bound on the nesting of invocations

ASSUME WrappersAssumption ==
  /\ JsWidth \in Nat \ {0}
  /\ 2 ^ JsWidth \in Nat \ {0}
  /\ MaxTokens \in Nat
  /\ MaxDepth \in Nat

Methods ==
  {"call", "callSession", "subscriptionAdd", "pushRole", "setResponseTimeout", "cancel", "unregister"}

\* The types of the parameters of a method.
Parameters(m) ==
  CASE m = "call"               -> <<"string", "string">>
    [] m = "callSession"        -> <<"string", "string", "string">>
    [] m = "subscriptionAdd"    -> <<"string", "message">>
    [] m = "pushRole"           -> <<"string">>
    [] m = "setResponseTimeout" -> <<"int">>
    [] m = "cancel"             -> <<"token">>
    [] m = "unregister"         -> << >>

LSMESSAGE_TOKEN_INVALID == 0

VARIABLES
  stack,       \* the invocations under way, the innermost first
  temps,       \* the converted strings that are alive: depth of the invocation, parameter
  fHandle,     \* LS2Handle::fHandle is not null
  calls,       \* the library: the tokens of the outstanding calls
  made,        \* the library: the last token
  granted,     \* the library: what else it was asked for the handle and has done
  aborted      \* FromJust() on a number that could not be had

busVars == <<fHandle, calls, made, granted>>
vars == <<stack, temps, busVars, aborted>>

Init ==
  /\ stack = << >>
  /\ temps = {}
  /\ fHandle = TRUE
  /\ calls = {}
  /\ made = 0
  /\ granted = {}
  /\ aborted = FALSE

-----------------------------------------------------------------------------

Top   == Head(stack)
Depth == Len(stack)

ScriptRuns ==
  /\ ~aborted
  /\ stack # << >> => Top.script

\* The type of the parameter to convert next, or "none".
Next_Type ==
  IF Top.bound < Len(Parameters(Top.method)) THEN Parameters(Top.method)[Top.bound + 1] ELSE "none"

Converting(type) ==
  /\ ~aborted
  /\ stack # << >>
  /\ Next_Type = type

\* A token is an unsigned long of which the script gets the JsWidth lowest bits, as
\* an unsigned number; what it passes back is taken modulo the same power of two.
TokenToJS(t) == t % 2 ^ JsWidth
TokenFromJS_Int(n) == IF n < 2 ^ (JsWidth - 1) THEN n ELSE n - 2 ^ JsWidth
TokenFromJS(n) == n % 2 ^ JsWidth

-----------------------------------------------------------------------------
(* MemberFunctionWrapper *)

\* The script calls a method; t is the token it passes to cancel.
Invoke(m, t) ==
  /\ ScriptRuns
  /\ Depth < MaxDepth
  /\ stack' = <<[method |-> m, bound |-> 0, script |-> FALSE, meant |-> t,
                 token |-> LSMESSAGE_TOKEN_INVALID]>> \o stack
  /\ UNCHANGED <<temps, busVars, aborted>>

\* The argument is an object: its toString() or valueOf() starts.
RunScript ==
  /\ \E type \in {"string", "int", "token"} : Converting(type)
  /\ ~Top.script
  /\ stack' = <<[Top EXCEPT !.script = TRUE]>> \o Tail(stack)
  /\ UNCHANGED <<temps, busVars, aborted>>

\* call() binds the converted argument and goes on to the next.
Bind(token) ==
  stack' = <<[Top EXCEPT !.bound = @ + 1, !.script = FALSE, !.token = token]>> \o Tail(stack)

\* The converter of a string is a temporary of the expression that converts the
\* parameters after it and calls the method.
TempsAfterString_OfLastOnly == {t \in temps : t[1] # Depth} \cup {<<Depth, Top.bound + 1>>}
TempsAfterString == temps \cup {<<Depth, Top.bound + 1>>}

\* ConvertFromJS<const char*>: a copy of the text, or null for null, undefined and
\* an object whose toString() throws.
ConvertString ==
  /\ Converting("string")
  /\ Bind(Top.token)
  /\ temps' = TempsAfterString
  /\ UNCHANGED <<busVars, aborted>>

\* FromJust() on the result of a valueOf() that threw.
NumberMissing ==
  /\ Top.script
  /\ aborted' = TRUE
  /\ UNCHANGED stack

\* ConvertFromJS<LSMessageToken>.
ConvertToken ==
  /\ Converting("token")
  /\ \/ Bind(TokenFromJS(TokenToJS(Top.meant))) /\ UNCHANGED aborted
     \/ NumberMissing
  /\ UNCHANGED <<temps, busVars>>

\* ConvertFromJS<int>, for a time in milliseconds.
ConvertInt ==
  /\ Converting("int")
  /\ \/ Bind(Top.token) /\ UNCHANGED aborted
     \/ NumberMissing
  /\ UNCHANGED <<temps, busVars>>

\* The invocation ends, with a result or with an exception that was caught in the
\* wrapper: the converters are destroyed.
Return ==
  /\ stack' = Tail(stack)
  /\ temps' = {t \in temps : t[1] # Depth}
  /\ UNCHANGED aborted

\* ConvertFromJS<LS2Message*>; it throws for an object that wraps nothing.
ConvertMessage ==
  /\ Converting("message")
  /\ \/ Bind(Top.token) /\ UNCHANGED <<temps, aborted>>
     \/ Return
  /\ UNCHANGED busVars

-----------------------------------------------------------------------------
(* The methods, when all arguments are bound *)

RequireHandle_Dropped == TRUE
RequireHandle == fHandle

Body(m) ==
  /\ Converting("none")
  /\ Top.method = m
  /\ Return

\* The method throws: the handle is gone, or the library refuses.  A session call
\* that is not compiled in does nothing at the bus either.
Throws(m) ==
  /\ m # "unregister"
  /\ Body(m)
  /\ UNCHANGED busVars

Call(m) ==
  /\ m \in {"call", "callSession"}
  /\ Body(m)
  /\ RequireHandle
  /\ made < MaxTokens
  /\ made' = made + 1
  /\ calls' = calls \cup {made'}
  /\ UNCHANGED <<fHandle, granted>>

\* subscriptionAdd and pushRole.
Ask(m) ==
  /\ m \in {"subscriptionAdd", "pushRole"}
  /\ Body(m)
  /\ RequireHandle
  /\ granted' = granted \cup {m}
  /\ UNCHANGED <<fHandle, calls, made>>

\* The call does not look whether its handle is valid; LSCallSetTimeout succeeds for
\* the token of an outstanding call.
SetResponseTimeout ==
  /\ Body("setResponseTimeout")
  /\ calls # {}
  /\ granted' = granted \cup {"setResponseTimeout"}
  /\ UNCHANGED <<fHandle, calls, made>>

\* LSCallCancel succeeds for the token of an outstanding call.
Cancel ==
  /\ Body("cancel")
  /\ RequireHandle
  /\ Top.token \in calls
  /\ calls' = calls \ {Top.token}
  /\ UNCHANGED <<fHandle, made, granted>>

Unregister ==
  /\ Body("unregister")
  /\ fHandle' = FALSE
  /\ calls' = {}
  /\ granted' = {}
  /\ UNCHANGED made

\* The main loop runs when no script does: the last response to a call arrives.
CallEnds(t) ==
  /\ stack = << >> /\ ~aborted
  /\ calls' = calls \ {t}
  /\ UNCHANGED <<stack, temps, fHandle, made, granted, aborted>>

Next ==
  \/ \E m \in Methods \ {"cancel"} : Invoke(m, LSMESSAGE_TOKEN_INVALID)
  \/ \E t \in 1..made : Invoke("cancel", t)
  \/ RunScript \/ ConvertString \/ ConvertToken \/ ConvertInt \/ ConvertMessage
  \/ \E m \in Methods : Call(m) \/ Ask(m) \/ Throws(m)
  \/ SetResponseTimeout \/ Cancel \/ Unregister
  \/ \E t \in calls : CallEnds(t)

Spec == Init /\ [][Next]_vars

-----------------------------------------------------------------------------

Frames ==
  [method : Methods, bound : 0..3, script : BOOLEAN,
   meant : 0..MaxTokens, token : Nat]

TypeOK ==
  /\ stack \in Seq(Frames)
  /\ temps \in SUBSET (Nat \X (1..3))
  /\ fHandle \in BOOLEAN
  /\ made \in 0..MaxTokens
  /\ calls \in SUBSET (1..made)
  /\ granted \subseteq Methods
  /\ aborted \in BOOLEAN

\* The invocation at a depth, the outermost being at depth 1.
FrameAt(d) == stack[Depth + 1 - d]

\* Whatever the conversions call, and wherever one throws, the converters alive are
\* those of the strings bound in the invocations under way: no method is given a
\* pointer into a destroyed converter, and none outlives its invocation.
StringsOutliveBody ==
  temps = {t \in (1..Depth) \X (1..3) :
             /\ t[2] <= FrameAt(t[1]).bound
             /\ Parameters(FrameAt(t[1]).method)[t[2]] = "string"}

\* Once unregister() has run, no invocation that was under way, and had even
\* converted its first argument while the handle was valid, does anything at the bus.
NothingAfterUnregister == [][~fHandle => UNCHANGED busVars]_vars

\* Handle.cancel(message.responseToken()) gives the library the token of the call that
\* got the message, as long as the library has not counted past what a number of
\* JavaScript holds; beyond that it never does, and only an older call can be hit.
CancelsWhatWasMeant ==
  \A i \in DOMAIN stack :
    stack[i].method = "cancel" /\ stack[i].bound = 1 =>
      IF stack[i].meant < 2 ^ JsWidth THEN stack[i].token = stack[i].meant
                                      ELSE stack[i].token < stack[i].meant

=============================================================================
