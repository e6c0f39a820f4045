----------------------------- MODULE ObjectWrap -----------------------------
(***************************************************************************)
(* The wrapper objects of the add-on: every LS2Handle and LS2Call is a     *)
(* node::ObjectWrap, a C++ object owned by a JavaScript object.            *)
(*                                                                         *)
(* ObjectWrap, V8 and its collector are outside this repository; they are  *)
(* modelled from how src/ uses them.  Wrap() leaves the persistent handle  *)
(* weak, Ref() counts up and makes it strong, Unref() counts down, makes   *)
(* it weak again at zero and asserts that the count was positive.  A weak  *)
(* object that the script cannot reach is collected at a moment of the     *)
(* collector's choosing, and its destructor runs then.                     *)
(***************************************************************************)
EXTENDS Naturals, FiniteSets

CONSTANTS
  Handles,   \* identities of the LS2Handle objects a run may create
  Calls,     \* identities of the LS2Call objects a run may create
  NoObj      \* the null pointer

Objects == Handles \cup Calls

ASSUME ObjectsAssumption ==
  /\ IsFiniteSet(Calls)
  /\ Handles \cap Calls = {}
  /\ NoObj \notin Objects

VARIABLES
  life,      \* "unborn", "live", or "collected" once the C++ object is deleted
  refs,      \* ObjectWrap::refs_
  held,      \* the objects the script keeps a strong reference to
  emitting,  \* the object whose 'emit' is running: MakeCallback is on the stack
  crash      \* "none", or how the process died

wrapVars == <<life, refs, held, emitting, crash>>

Lives   == {"unborn", "live", "collected"}
Crashes == {"none",
            "unref",      \* the assertion in ObjectWrap::Unref failed
            "null",       \* a null object pointer was dereferenced
            "dangling"}   \* the bus called back into a deleted object

WrapTypeOK ==
  /\ life \in [Objects -> Lives]
  /\ refs \in [Objects -> Nat]
  /\ held \in SUBSET Objects
  /\ emitting \in Objects \cup {NoObj}
  /\ crash \in Crashes

WrapInit ==
  /\ life = [o \in Objects |-> "unborn"]
  /\ refs = [o \in Objects |-> 0]
  /\ held = {}
  /\ emitting = NoObj
  /\ crash = "none"

-----------------------------------------------------------------------------

Running == crash = "none"

Live(o) == life[o] = "live"

\* The script can call a method of o: it stored o, or it runs in a listener of
\* o, which receives o as `this`.
Usable(o) ==
  /\ Running
  /\ Live(o)
  /\ o \in held \/ o = emitting

\* The main loop dispatches callbacks one at a time and never from a listener.
Idle ==
  /\ Running
  /\ emitting = NoObj

Ref(r, o) == [r EXCEPT ![o] = @ + 1]

\* Unref() on a zero count fails its assertion; the count then no longer matters.
Unref_Unchecked(r, o) == [r EXCEPT ![o] = @ - 1]
Unref(r, o) == [r EXCEPT ![o] = IF @ = 0 THEN 0 ELSE @ - 1]

\* The collector may delete o.  EmitMessage leaves o in the HandleScope of the
\* callback that called it, so o outlives the listeners and the callback.
Collectable(o) ==
  /\ Running
  /\ Live(o)
  /\ refs[o] = 0
  /\ o \notin held
  /\ o # emitting

-----------------------------------------------------------------------------

\* The script forgets its reference to o.
Drop(o) ==
  /\ Running
  /\ o \in held
  /\ held' = held \ {o}
  /\ UNCHANGED <<life, refs, emitting, crash>>

\* A listener stores the object it was called on.
Keep(o) ==
  /\ Running
  /\ o = emitting
  /\ o \notin held
  /\ held' = held \cup {o}
  /\ UNCHANGED <<life, refs, emitting, crash>>

\* EmitMessage: a callback of o reaches MakeCallback.  The bus only keeps o's
\* address, so o may be gone.
EmitMessage(o) ==
  /\ emitting' = IF Live(o) THEN o ELSE emitting
  /\ crash' = IF Live(o) THEN crash ELSE "dangling"
  /\ UNCHANGED <<life, refs, held>>

=============================================================================
