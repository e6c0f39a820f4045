----------------------------- MODULE LS2Message -----------------------------
(***************************************************************************)
(* LS2Message: the JavaScript face of an LSMessage.  EmitMessage makes a   *)
(* new wrapper for every event; the script may keep it and answer or read  *)
(* the message long after the callback of the bus has returned.  The       *)
(* wrapper keeps the LSMessage alive with one reference, taken in          *)
(* SetMessage and given back by its destructor.                            *)
(*                                                                         *)
(* The library is external: it holds one reference while its callback runs *)
(* and one for each subscription added with the message, and it emits the  *)
(* same LSMessage once more when that subscription is cancelled.  It frees *)
(* a message whose count reaches zero.                                     *)
(***************************************************************************)
EXTENDS Naturals, FiniteSets

CONSTANTS
  Messages,   \* LSMessages
  Wrappers,   \* LS2Message objects
  Null        \* the null pointer

ASSUME MessageAssumption ==
  /\ IsFiniteSet(Wrappers)
  /\ Null \notin Messages \cup Wrappers

VARIABLES
  messageRefs,  \* reference counts of the LSMessages
  freed,        \* the LSMessages that were freed
  argument,     \* the wrapper that the running callback emitted, or Null
  cancelling,   \* whether that callback is the one for cancelled subscriptions
  added,        \* the messages a subscription was added with
  wrapper,      \* per wrapper: "unborn", "live", "collected"
  held,         \* the wrappers the script keeps
  fMessage,     \* per wrapper, its LSMessage or Null
  misused       \* an LSMessage was used after it was freed

busVars == <<argument, cancelling, added>>
wrapVars == <<wrapper, held, fMessage>>
vars == <<messageRefs, freed, busVars, wrapVars, misused>>

Init ==
  /\ messageRefs = [m \in Messages |-> 0]
  /\ freed = {}
  /\ argument = Null
  /\ cancelling = FALSE
  /\ added = {}
  /\ wrapper = [w \in Wrappers |-> "unborn"]
  /\ held = {}
  /\ fMessage = [w \in Wrappers |-> Null]
  /\ misused = FALSE

-----------------------------------------------------------------------------

\* The message whose callback is running.
Delivering == IF argument = Null THEN Null ELSE fMessage[argument]

LSMessageRef(m) == [messageRefs EXCEPT ![m] = @ + 1]

\* LSMessageUnref: the count, and the messages that are freed by it.
LSMessageUnref(m) ==
  /\ messageRefs' = [messageRefs EXCEPT ![m] = IF @ = 0 THEN 0 ELSE @ - 1]
  /\ freed' = IF messageRefs[m] <= 1 THEN freed \cup {m} ELSE freed
  /\ misused' = (misused \/ m \in freed)

\* SetMessage on a new wrapper.
RefsAfterSetMessage_Borrowed(m) == messageRefs
RefsAfterSetMessage(m) == LSMessageRef(m)

\* EmitMessage, NewFromMessage, New, SetMessage: listeners get a new wrapper.
EmitMessage(m, w) ==
  /\ wrapper[w] = "unborn"
  /\ wrapper' = [wrapper EXCEPT ![w] = "live"]
  /\ held' = held \cup {w}
  /\ fMessage' = [fMessage EXCEPT ![w] = m]
  /\ argument' = w

\* A message arrives, for the bus callbacks of LS2Call and LS2Handle.
Deliver(m, w) ==
  /\ argument = Null
  /\ messageRefs[m] = 0 /\ m \notin freed
  /\ EmitMessage(m, w)
  /\ cancelling' = FALSE
  /\ messageRefs' = [RefsAfterSetMessage(m) EXCEPT ![m] = @ + 1]
  /\ UNCHANGED <<freed, added, misused>>

\* The cancel function of the handle is called with the message that subscribed.
DeliverCancel(m, w) ==
  /\ argument = Null
  /\ m \in added
  /\ EmitMessage(m, w)
  /\ cancelling' = TRUE
  /\ messageRefs' = RefsAfterSetMessage(m)
  /\ misused' = (misused \/ m \in freed)
  /\ UNCHANGED <<freed, added>>

\* The callback returns: the library drops its reference to the message, or the
\* one of the subscription.
CallbackReturns ==
  /\ argument # Null
  /\ LSMessageUnref(Delivering)
  /\ added' = IF cancelling THEN added \ {Delivering} ELSE added
  /\ argument' = Null
  /\ UNCHANGED <<cancelling, wrapVars>>

\* A subscription goes without notice, with its handle or its subscriber.
SubscriptionLost(m) ==
  /\ m \in added
  /\ ~(Delivering = m /\ cancelling)
  /\ added' = added \ {m}
  /\ LSMessageUnref(m)
  /\ UNCHANGED <<argument, cancelling, wrapVars>>

-----------------------------------------------------------------------------

\* new palmbus.Message(): a wrapper of nothing.
New(w) ==
  /\ wrapper[w] = "unborn"
  /\ wrapper' = [wrapper EXCEPT ![w] = "live"]
  /\ held' = held \cup {w}
  /\ UNCHANGED <<messageRefs, freed, busVars, fMessage, misused>>

\* The methods that end up in RequireMessage and use the LSMessage: the string and
\* token getters, isSubscription, print, respond.
UseMessage(w) ==
  /\ w \in held
  /\ fMessage[w] # Null
  /\ misused' = (misused \/ fMessage[w] \in freed)
  /\ UNCHANGED <<messageRefs, freed, busVars, wrapVars>>

\* Handle.subscriptionAdd with this message, in or after its callback.
SubscriptionAdd(w) ==
  LET m == fMessage[w] IN
  /\ w \in held
  /\ m # Null
  /\ m \notin added
  /\ ~(Delivering = m /\ cancelling)
  /\ added' = added \cup {m}
  /\ messageRefs' = LSMessageRef(m)
  /\ misused' = (misused \/ m \in freed)
  /\ UNCHANGED <<freed, argument, cancelling, wrapVars>>

Drop(w) ==
  /\ w \in held
  /\ held' = held \ {w}
  /\ UNCHANGED <<messageRefs, freed, busVars, wrapper, fMessage, misused>>

\* ~LS2Message gives back the reference of SetMessage.
GiveBack_Never(w) == UNCHANGED <<messageRefs, freed, misused>>
GiveBack(w) ==
  IF fMessage[w] = Null THEN UNCHANGED <<messageRefs, freed, misused>>
                        ELSE LSMessageUnref(fMessage[w])

\* ~LS2Message, run by the collector on a wrapper nobody holds; the argument of a
\* running callback is held by its HandleScope.
Collect(w) ==
  /\ wrapper[w] = "live"
  /\ w \notin held
  /\ w # argument
  /\ wrapper' = [wrapper EXCEPT ![w] = "collected"]
  /\ GiveBack(w)
  /\ UNCHANGED <<busVars, held, fMessage>>

Next ==
  \/ \E m \in Messages, w \in Wrappers : Deliver(m, w) \/ DeliverCancel(m, w)
  \/ CallbackReturns
  \/ \E m \in Messages : SubscriptionLost(m)
  \/ \E w \in Wrappers :
       New(w) \/ UseMessage(w) \/ SubscriptionAdd(w) \/ Drop(w) \/ Collect(w)

Spec == Init /\ [][Next]_vars

-----------------------------------------------------------------------------

TypeOK ==
  /\ messageRefs \in [Messages -> Nat]
  /\ freed \in SUBSET Messages
  /\ argument \in Wrappers \cup {Null}
  /\ cancelling \in BOOLEAN
  /\ added \in SUBSET Messages
  /\ wrapper \in [Wrappers -> {"unborn", "live", "collected"}]
  /\ held \in SUBSET Wrappers
  /\ fMessage \in [Wrappers -> Messages \cup {Null}]
  /\ misused \in BOOLEAN

WrappersOf(m) == {w \in Wrappers : wrapper[w] = "live" /\ fMessage[w] = m}

\* The reference the library has for the callback that is running.
CallbackRef(m) == IF Delivering = m /\ ~cancelling THEN 1 ELSE 0
AddedRef(m) == IF m \in added THEN 1 ELSE 0

\* The count of a message is the number of its live wrappers plus the references
\* of the library: LS2Message neither leaks messages nor drops a reference that
\* is not its own, also when the same message is emitted twice.
MessageRefsExact ==
  \A m \in Messages :
    messageRefs[m] = Cardinality(WrappersOf(m)) + CallbackRef(m) + AddedRef(m)

\* A message the script can still read or answer, and one the library may still
\* emit, is not freed.
NeverUsedFreed ==
  /\ ~misused
  /\ \A m \in freed : WrappersOf(m) = {} /\ m \notin added /\ Delivering # m

\* A message that was emitted is freed as soon as its last wrapper is collected and
\* the library is done with it, in whatever order the two happen: a message that
\* was emitted and not freed still has an owner.
NoMessageLeaks ==
  \A w \in Wrappers :
    LET m == fMessage[w] IN
    m # Null => m \in freed \/ WrappersOf(m) # {} \/ m \in added \/ Delivering = m

=============================================================================
