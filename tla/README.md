# TLA+ specification of nodejs-module-webos-sysbus

The add-on `webos-sysbus` gives Node.js services access to luna-service2, the bus of webOS.
This directory holds TLA+ modules of its core, TLC configurations that check them on small
instances, and theorems checked by TLAPS. Paths are relative to the repository root, as in
`src/node_ls2_call.cpp:198`.

## 1. The system

JavaScript objects `Handle`, `Call` and `Message` wrap C++ objects (`node::ObjectWrap`), which
wrap objects of the C library. Everything runs on one thread; what interleaves is the script,
the callbacks of the library, the two event loops and the garbage collector, which may delete
any wrapper that is weak and unreachable at any moment.

| Component | State it keeps | Operations |
|---|---|---|
| **LS2Handle** (`node_ls2_handle.cpp/.h`) | `fHandle`, the native handle, null after `unregister`; `fRegisteredMethods`; its reference count | constructor, `registerMethod`, `unregister`, `subscriptionAdd`, `pushRole`, `call`, `callSession`, `watch`, `subscribe`, `subscribeSession`, `cancel(token)`; events `request` and `cancel`; destructor |
| **LS2Call** (`node_ls2_call.cpp/.h`) | `fHandle`, a raw pointer to its LS2Handle; `fToken`; `fResponseLimit`, `fResponseCount`; its reference count | constructor, `Call`, `cancel`, `setResponseTimeout`, `ResponseArrived` / `CancelInternal`, destructor |
| **LS2Base** (`node_ls2_base.cpp`) | none | `EmitMessage`: wraps an LSMessage and runs the listeners of an event in the middle of the caller |
| **LS2Message** (`node_ls2_message.cpp/.h`) | `fMessage`, an LSMessage with one reference of its own | `NewFromMessage`, `SetMessage`, getters, `print`, `respond`, destructor |
| **Event loop bridge** (`node_ls2.cpp`) | `query`, two timers, the GPollFD array, `pfdMap`, `pollwMap` | `prepare_cb`, `poll_cb`, `check_cb`, `close_cb`, `uv_timeout_cb` |
| **Application ids** (`node_ls2_handle.cpp:384-464`) | `fRegisteredServices`, path to id; `trustedScripts` | `setAppId`, `findMyAppId`, the choice of the id in `New` |
| **Member function wrappers, conversions** (`node_ls2_member_function_wrappers.h`, `node_ls2_utils.*`, the converters of `node_ls2_message.*`) | the converters of the invocations under way, on the C++ stack | `MemberFunctionWrapper`, `call`, `ConvertFromJS`, `ConvertToJS`; C++ exceptions become JavaScript ones |
| **LSErrorWrapper**, **palmbus.js**, build files, tests | none | – |

How they interact: a handle's `call` creates an LS2Call, binds it to the handle (one `Ref()` of
the handle until the call is *destroyed*) and sends the request with the address of the LS2Call
as user data; the call takes one `Ref()` of itself while the library may call back. A response
comes in through `g_main_context_dispatch`, called by the bridge's `check_cb`; `ResponseArrived`
counts it, runs the listeners through `EmitMessage`, and then decides whether the call is over.
The first `registerMethod` takes one `Ref()` of the handle for as long as it serves, since the
library keeps the address of the handle as user data of the category.

What is hard here, and hard to test:

* the collector: raw addresses of wrappers live in the library and in other wrappers, so each
  must be pinned by exactly the references somebody gives back;
* listeners: they run in the middle of `ResponseArrived`, `RequestArrived` and `CancelArrived` and
  may cancel the call, unregister the handle, make other calls or drop every reference;
* conversions: an argument that is an object runs script, which may call other methods of the same
  handle, after the method was called and before it starts;
* refusals: the library may refuse any request after half of a method's work is done;
* two loops: watchers are one-shot, the query of GLib is skipped while a timer runs, and sources
  come and go in callbacks of either loop.

What makes each part correct:

* handles and calls: reference counts are exact; nobody uses a deleted object; `Unref()` is never
  called on a zero count; no more responses are emitted than asked for, and none after `cancel`; a finished
  call is released, and nothing else is kept from the collector;
* messages: one reference per wrapper, no use after free, no leak;
* the bridge: libuv never sleeps without watching for everything GLib waits for, and no readiness or
  timeout is lost; what a poll finds reaches every GPollFD that asked for it, and a check that follows a fresh query is told that and nothing older;
* application ids: a handle gets, and keeps, the id of the service whose script created it;
* wrappers: pointers into converted strings outlive the method that uses them, tokens that fit a number of
  JavaScript survive the way through it, and a method that was called before `unregister` does nothing after it.

`PROJECT.json` lists the hazards one by one with their lines and the properties aimed at them.

## 2. The modules

| Module | What it models |
|---|---|
| `ObjectWrap` | `life`, `refs`, reachability from the script (`held`) and the running listener (`emitting`) of every wrapper; `Ref`, `Unref` with its assertion, collectability, `EmitMessage`. External, except for `EmitMessage` |
| `LunaBus` | the library, from the way `src/` calls it: which service is up, user data of categories, subscriptions, the map of outstanding calls, timeouts. External |
| `LS2Handle` | LS2Handle: one action per method, event and destructor |
| `LS2Call` | LS2Call, and `call`, `watch`, `subscribe`, the session variants, `cancel(token)` and `subscriptionAdd` of the handle |
| `Sysbus` | the composition: script, bus, listeners and collector; all properties of handles and calls; the refinement mapping |
| `GcContract` | the abstract specification of handles and calls: no objects, counts or bus |
| `LS2Message` | wrappers of messages and the counts of the LSMessages behind them |
| `GlibBridge` | the callbacks of `node_ls2.cpp` between GLib, libuv and the kernel |
| `AppId` | `setAppId`, `findMyAppId` and the constructor's choice |
| `Wrappers` | nested invocations of methods and the conversion of their arguments; the methods as far as that needs them |
| `SysbusProofs` | types and reference counts of handles, in every environment |
| `SysbusSafetyProofs` | extends it: callbacks, tokens, limits and the ways the process can fail, under the assumptions of section 4 |
| `SysbusReleaseProofs` | extends it: calls are released with their last response, leak nothing and emit nothing after `cancel` |
| `SysbusContractProofs` | extends `SysbusSafetyProofs`: `Sysbus` implements `GcContract` |
| `GlibBridgeProofs`, `LS2MessageProofs`, `AppIdProofs`, `WrappersProofs` | the theorems of these modules |
| `MCSysbus`, `MCGlibBridge`, `MCLS2Message`, `MCAppId` | symmetry sets and constants for TLC |

`ObjectWrap`, `LunaBus`, `LS2Handle`, `LS2Call` and `Sysbus` extend each other in this order.
`Sysbus` refines `GcContract` through the `INSTANCE` at its end. The bridge, messages and application
ids share no variable with them: `BusStep` in `Sysbus` lets the library call back whenever no listener
runs, which is what `Dispatched` in `GlibBridge` amounts to. `Wrappers` shows what allows `Sysbus` to treat a
method as one step: whatever the conversion of its arguments runs, comes before the method checks anything.

### Correspondence with the code

* **A callback is two actions.** `ResponseArrived`, `RequestArrived` and `CancelArrived` run up to
  `EmitMessage`; `EndResponse` and `EndHandleEvent` are what follows when the listeners have returned.
  In between the script may do anything (`ScriptStep`), with `emitting` naming the object that is in
  scope and so cannot be collected. The main loop cannot run in between, and listeners do not nest.
* **A method that throws before it changes anything** is a stuttering step. A method that throws after
  it changed something is an action of its own (`NewHandleThrows`, `CallInternalThrows`) or a branch
  over the result of the library (`RegisterMethod`, `Unregister`, `CancelCall`).
* **Cancelling** follows the order of `CancelInternal`: `Unref()` first, then the library, and `fToken` is
  cleared only if the library agreed and nothing was thrown.
* **A failing process** is the variable `crash`: the assertion in `Unref()`, a null pointer, a callback
  into a deleted object. Nothing happens after it.
* **The destructor of a call** gives the handle's reference back and then runs `CancelInternal`, which with
  a token still valid would call `Unref()` on a dying object; the models say so instead of assuming that
  it cannot happen.
* **Subscriptions.** `subscriptionAdd` takes any message and does not ask where it came from, so the script may
  add a request of another handle or the response to a call, also to a handle without methods
  (`"foreignMessage"` in `Script`). Without it, a message that is added is a request that came in through the
  same handle, as in the documented use.
* **Numbers.** `fResponseCount` is compared with 1 and with limits of at most 2, so it is counted up to
  `CountCap` = 3 and stays there. Tokens are valid or not.
* **The bridge** follows the phases of `uv_run`: timers, prepare, poll, poll callbacks, check, closing.
  The add-on may be loaded in the main script or in a callback, hence the three initial phases. The
  descriptor GLib uses to wake itself is left out: it only makes polls end earlier. A condition may come
  (`BecomeReady`) at any time and go (`Lapse`) whenever script runs, also between the poll and the check: the
  library may read or write the descriptor. `found` is not in the code: it remembers what the poll found until
  the check.
* **Application ids** do not spell out names: `Contains` says which path is a substring of which directory.
  The order of the unordered map is any order. `findMyAppId` looks at `MaxFrames` frames, 50 in the code. `setAppId`
  converts its first argument twice, once for the permission check and once for the id, and an object may become
  two different strings: `name` and `appId`.
* **Wrappers.** `call` is recursive over the parameters: each level converts one argument into a temporary and
  calls the next. `stack` is the C++ stack of these recursions, `bound` the level, `temps` the temporaries that
  hold strings. There is one method for each list of parameter types: two strings (`call`, and `watch`, `subscribe`,
  `registerMethod`), three (`callSession`, `subscribeSession`), a string and a message (`subscriptionAdd`), one string
  (`pushRole`, `respond`), an int (`setResponseTimeout`, which does not look whether the handle is valid), a token
  (`cancel`) and nothing. Script runs when the innermost invocation is converting an object (`RunScript`). `meant` is not
  in the code: it is the token that `Call` or `Message` had before it was narrowed to a JavaScript number of `JsWidth` bits, 32 in
  the code.

### What is assumed of code that is not here

* The library calls back at most once for `LSCallOneReply` and never after a successful `LSUnregister` or
  `LSCallCancel`. It drops a finished call before (`ForgetsFirst`) or after its last callback. The run `core`
  assumes the second. With the first, a script that calls `cancel()` twice in the listener of an error reply,
  the library refusing both, gets the same abort as in `cancel_token`: `TokenMeansOutstanding` and `NoCrash`
  do not hold there. `faults` and `live` check the other properties with it.
* `LSCallCancel` on a token it does not know may succeed or fail (`CancelOutcomes`).
* The functions in `Fails` may return false, at any time.
* The collector deletes a wrapper only if it is weak, not reachable from the script and not in the handle
  scope of a running callback.
* The library emits the cancellation of a message to the cancel function of the handle that the message was
  added to, once for each subscription, as long as the service of that handle is up.
* The library holds one reference to a message during its callback and one per subscription.

## 3. What TLC checks

`tlc -config <name>.cfg <module>` in this directory runs a configuration.

| Run | Instance | Result |
|---|---|---|
| `core` | one handle, two calls, calls and registrations may be refused, script that uses neither bare calls nor tokens nor messages of other handles | `TokenMeansOutstanding`, `NoCrash`, `NoMoreThanLimit` hold, no step emits a response of a cancelled call (`NoResponseAfterCancel`) and `GcContract` is implemented (`ImplementsContract`) |
| `faults` | the same objects; all seven library functions may fail, finished calls are forgotten early, the script also uses bare calls, tokens and messages of other handles | `HandleRefsExact`, `CallHandleAlive`, `MethodsKeepHandle` hold all the same, and no callback of a last response ends with the call unreleased (`ReleasedByLastResponse`) |
| `live` | two handles, one call, all but `LSCallCancel` and `LSCategorySetData` may fail, no session calls, bare calls, tokens or messages of other handles, fairness | `CallbackTargetPinned`, `NothingLeaks`; `LastResponseReleases`, `TimeoutReleases` |
| `bridge` | three GPollFDs on two descriptors, a timer, three changes by the script, fairness | `HoldIffTimer`, `NeverSleepsBlind`, `WatchersMatchMap`, `WatchersMatchQuery`, `FreshCheckIsExact`; `EveryPollFDIsTold` of every step; `ReadyIsDispatched`, `TimeoutIsDispatched` |
| `message` | two messages, three wrappers | `MessageRefsExact`, `NeverUsedFreed`, `NoMessageLeaks` |
| `wrappers` | invocations nested three deep of seven methods, one-bit numbers, three tokens of which the first fits | `StringsOutliveBody`, `CancelsWhatWasMeant`, `NothingAfterUnregister` |
| `appid` | three services, the path of one a substring of the directory of another, stacks up to three deep of which two frames are searched | `IdOfContainingService`; no step creates a handle with another id than one of the first frame that has any (`IdOfFirstFound`) |

Five runs end in a counterexample, each to something the documentation says:

| Run | What the code does |
|---|---|
| `cancel_token` | `handle.cancel(token)` ends a call without telling its LS2Call. If the library then refuses `LSCallCancel` for the token it no longer knows, `call.cancel()` throws after `Unref()`, with the token still valid; the next `cancel()` or the destructor calls `Unref()` on zero and the process aborts |
| `cancel_unregistered` | After `unregister()` a call that was still outstanding keeps its self-reference: `cancel()` throws in `RequireHandle` before it gives the reference back. `README.md:197` says that `cancel` releases the call |
| `cancel_collected` | A handle is kept from the collector by its methods and its calls only. One that has neither but has subscriptions (the script added the response to a call, or a request of another handle) is deleted without `LSUnregister`, which leaves its address as the context of the cancel function: the cancellation calls `CancelCallback` with a deleted object, where `README.md:176` says that the handle emits the event |
| `bridge_timer` | `prepare_cb` multiplies GLib's milliseconds by `1e-3` before it gives them to `uv_timer_start`, which takes milliseconds. The poll ends a thousand times too early: wasted wakeups, but no lost timeout (`TimeoutIsDispatched` holds) |
| `appid_nested` | When the path of one service is a substring of the directory of another (`/apps/a` and `/apps/ab`), a handle of the second may register with the id of the first |

### Bounds, and why they are enough

* *Objects.* The properties relate one call to its handle and to the bus. A second call shows that counts
  of a handle add up and that calls do not disturb each other; a second handle (`live`) that one handle's
  `unregister` leaves the calls of another alone. The theorems of section 4 hold for any number.
* *Categories, subscribers, methods.* One category, one subscription and two methods (`MaxMethods`,
  `MaxSubscribers`) give every transition between none, the first, more and none again.
* *Bridge.* Descriptors only interact through the arrays and maps; two GPollFDs that share one descriptor
  and one that does not are the cases `prepare_cb` tells apart. Three changes (`MaxChanges`) are enough to
  attach, detach and attach again, or to attach and arm a timer, around one query; the theorems hold for any number. The one timeout, 2000 ms, has a nonzero
  thousandth, so that `tw` is seen both running and due.
* *Wrappers.* Three invocations deep, the innermost may unregister the handle while the one around it has its
  first argument converted and the outermost waits for both. With `JsWidth` = 1 and three tokens one fits, where the
  sign shows, one becomes the invalid token and one becomes the token of an older call: the three things that can
  happen to a token. The theorem holds for any width and number of tokens.
* *Application ids.* One pair of overlapping paths and a third service apart from both; the two searched frames
  can hold both sides of the overlap, or one and the third.
* *Messages.* Two wrappers of one message (the request and its cancellation) and one of another.

`CHECK_DEADLOCK FALSE` stands in the configurations of `Sysbus`, `LS2Message` and `Wrappers`: objects are used
once, so a run ends when all of them are collected, and the process may have failed. The bridge never stops and its
runs check deadlock; so do the application ids.

Symmetry is used for calls (`faults`) and for wrappers and messages (`message`), in runs without liveness: their
properties are about a state or a single step, and treat all calls, wrappers and messages alike.

### Fairness

* `Sysbus`: listeners are JavaScript functions that return, after which the callback continues
  (`WF(ListenersReturn)`); a response timeout is a source of the main loop, dispatched when it has expired and
  the loop is free. The loop may be busy each time one looks, so strong fairness is assumed. Nothing is
  assumed of the peer, the script or the collector.
* `GlibBridge`: `uv_run` goes on through its phases; a poll that has something ready, a timer armed or a
  handle to close ends; a running timer is due at last; GLib's time passes. No fairness is assumed for a poll
  that has nothing to wake it, so a wakeup that is lost shows as a poll that never ends. `UvTimeout` is
  strongly fair because it can only run in the timer phase of each round. Script changes sources at most
  `MaxChanges` times, so `ReadyIsDispatched` and `TimeoutIsDispatched` are about scripts that stop changing them: GLib
  drops a round in which its sources changed, and a script that changed one in every round could starve the rest.

## 4. What is proved

`tlapm <module>` checks the proofs of a module, for all values of the constants. Each theorem states a property
that a passing run above also checks, except three: `CallbackCorrect` is a part of `NoCrash`, and `ReleaseCorrect` and
`IdsAreInnermost` are about the properties that `cancel_token` and `appid_nested` find violated, where the cause of the
violation is excluded.

**Handles and calls, in every environment**, with every failure of the library and every use of the API:

* `TypeCorrect`. Counts stay natural numbers because `Unref` on zero is a failure of the process, not a decrement.
* `HandleRefsCorrect`, `CallHandleCorrect`, `MethodsCorrect`: the count of a live handle is one per live call bound
  to it plus one for its methods; a live call never points to a deleted handle; a handle with methods is not
  deleted. The three are inductive only together, as `RefInv`: the collector takes a handle whose count is zero,
  which is safe because the count is *exact*, and the count stays exact because a destroyed call gives back a
  reference that its handle, being alive, still has. One lemma stands for each way a step touches the state
  (`RefFrame`, `RefBind`, `RefLifeOfHandle`, `RefCollectCall`, `RefMethods`); `RefStep` sorts the actions under them.
* `LastResponseCorrect`: the callback that delivers the last response ends with the self-reference of the call
  given back, unless its handle was unregistered. It is an action property, about the steps out of
  `emitting = c`. What makes it true is `ReleaseInv`: while a call emits, either it can still be cancelled, and
  the end of `ResponseArrived` releases it, or it was cancelled by a listener and is released already.
  `LastResponseReleases` adds that the callback does end, which needs fairness.

**Handles and calls, in an environment that behaves.** The proof modules name their assumptions on the constants
`Fails`, `ForgetsFirst`, `Script` and `SessionCalls`:

| Assumption | Meaning |
|---|---|
| `Unnumbered` | `Handle.cancel(token)` is not used |
| `Obeyed` | `Unnumbered`, and `LSCallCancel` succeeds for a call the library knows |
| `Remembered` | the library forgets a call after its last callback |
| `Released` | `LSUnregister` succeeds |
| `Careful` | `LSCategorySetData` succeeds; `new Call()` is not used |
| `SessionsSent` | session calls are compiled in, or not used |
| `OwnRequests` | the messages that are added as subscriptions came in as requests through the same handle |

Each theorem assumes as few of them as its proof needs, and everything else may fail:

| Theorem | Assumes | Property |
|---|---|---|
| `NothingLeaksCorrect` | `Unnumbered`, `SessionsSent` | `NothingLeaks` |
| `CallbackTargetCorrect` | `Obeyed` | `CallbackTargetPinned` |
| `CallbackCorrect` | `Obeyed`, `Released`, `OwnRequests` | no callback reaches a deleted object |
| `TokenCorrect` | `Obeyed`, `Remembered` | `TokenMeansOutstanding` |
| `ReleaseCorrect` | `Obeyed`, `Remembered` | `ReleaseNeverAborts` |
| `LimitCorrect`, `CancelCorrect` | `Obeyed`, `Released` | `NoMoreThanLimit`, `NoResponseAfterCancel` |
| `ContractImplemented` | `Obeyed`, `Released`, no `new Call()` | `ImplementsContract` |
| `NoCrashCorrect` | `Obeyed`, `Remembered`, `Released`, `Careful`, `OwnRequests` | `NoCrash` |

The assumptions are there because the code needs them:

* without `Obeyed`, `cancel_token` shows a reference released twice; `ReleaseCorrect` is the same property where
  that cannot happen. Without `Unnumbered`, a call cancelled by its token keeps its self-reference although the
  library will never answer it. Without `SessionsSent` a session call references itself with nothing sent. Both
  are reachable in `faults`, which is why `NothingLeaks` is checked in `live`;
* without `Remembered`, see section 2: it decides `TokenMeansOutstanding` and `ReleaseNeverAborts`, and nothing else
  here needs it, except `NoCrash`, of which `ReleaseNeverAborts` is a part;
* without `Released`, responses reach a call whose handle was given up although the library refused to unregister
  it: `NoMoreThanLimit` and `NoResponseAfterCancel` are violated, and with a request in place of a response a
  deleted handle is called back, which `faults` reaches;
* without `OwnRequests`, `cancel_collected` shows a cancellation that reaches a deleted handle. With it a handle with
  subscriptions has received a request, so it has methods, and these keep it alive (`TargetInv`);
* without `Careful`, `faults` reaches a null pointer. The contract has no call without a handle, so
  `ContractImplemented` excludes `new Call()` too.

The invariants build on each other: on `RefInv` stands `PinInv` (what the bus may call back is alive), on that
`LinkInv` (the library's call map agrees with the call about its handle, and only calls with limit 1 are single),
and on that, side by side, `TokenInv` and `LimitInv`. What a call may still do is read off its token,
its self-reference, the call map of the library and the response in progress, and these four move together except
inside `CancelInternal` and between the two halves of `ResponseArrived`. Lemma `CallView` reduces every step to what
one call sees of it. `NoCrashCorrect` is put together from the three causes of a crash, each with an invariant of
its own (`NullInv`, `AbortInv`, `ServedInv`); lemma `CrashCauses` says which steps can be the first to fail.
`NothingLeaksCorrect` is the converse of `CallbackTargetCorrect`, with `KeptInv`: on top of `ReleaseInv`, a live call
that references itself through a valid handle is known to the library or is just emitting its last reply.
`CancelCorrect` follows from `LimitInv`: a call that starts to emit has its token. `ContractImplemented` maps initial
states to initial states and each action to one action of `GcContract`, or to none; beside `LimitInv` it needs
that a call references itself at most once, and not at all once it is deleted (`ContractInv`).

**The bridge**: `BridgeTypeCorrect`, `HoldCorrect`, `BridgeCorrect`, `WatchersServeMap`, `WatchersServeQuery`,
`FreshChecksCorrect` and `AllPollFDsTold`, for any descriptors, GPollFDs and timeouts. The invariant is `BridgeInv`: `NeverSleepsBlind`
speaks of the poll phase, which is entered from a query made in the phase before, when neither script nor sources
run, or from a skipped query, when by `HoldIffTimer` the timer runs; `FreshIsExact` follows the query from `prepare_cb`, which clears what
it had, through the callbacks, each of which stores what was found on its descriptor, to the check. `AllPollFDsTold` is about the step of `poll_cb` and adds, in `ToldInv`, that the map has all GPollFDs of a
descriptor or none, and that only a descriptor that polls has something to report.

**Messages**: `MessageRefsCorrect`, `NoUseAfterFree`, `NoLeakedMessage`, for any messages and finitely many wrappers. That the count is
exact is inductive with `Ownership` and with the fact that a freed message has count zero; that nobody owns a
freed message then follows by counting, and so does, with the fact that an unreferenced message was freed, that one
nobody owns is not leaked.

**Application ids**: `IdsAreOnStack`, for any services and stacks and without assumptions on their paths: the id of a
handle is and stays that of a path that contains a script on the stack of its constructor. Which of several paths
that is, `IdsAreFirstFound` narrows down to those of the first frame that has any, again without assumptions. That it is
the script's own is certain only under the assumption `Apart`, that no path is a substring of the directory of another
service: `IdsAreInnermost` is proved under it, and `appid_nested` shows the need for it.

**Wrappers**: `WrappersTypeCorrect`, `StringsCorrect`, `TokensCorrect`, `UnregisterIsFinal`, for any depth, any number of
calls and any width. `WrappersInv` says of every invocation on the stack that its converted token is what
`JsWidth` bits hold of the one that was meant (`Sound`), and of an unregistered handle that it has nothing left to undo. Lemmas `Push`, `Replace` and
`Pop` are the three ways the stack changes.

Otherwise the assumptions are the named `ASSUME`s of the modules: handles, calls and null are distinct, calls are
finite, `Fails` names library functions, the bounds are natural numbers, GPollFDs ask for something on a
descriptor. TLC evaluates them in the runs above.

**Only model-checked**: liveness (`LastResponseReleases`, `TimeoutReleases`, `ReadyIsDispatched`,
`TimeoutIsDispatched`), which needs `ENABLED`. What they rest on is proved: for the first two
`LastResponseCorrect`, for the others `BridgeCorrect`, `HoldCorrect` and `AllPollFDsTold`.

## 5. What is not modelled

* `pushRole`, and the boolean argument of `Handle`, which throws at once: they change no state of the add-on.
* In the wrappers: the conversion of results other than tokens; a wrong number of arguments and a null native
  object, which are refused before anything happens; null strings in `registerMethod`, whose `strlen` ends the
  process (`node_ls2_handle.cpp:340`, `:469`); the text of errors.
* `LSErrorWrapper` and `palmbus.js`: neither keeps state between calls. A second run of the module initialiser.
* Source priorities in the bridge (`maxpri`), a failing `uv_poll_init`, the growth of the GPollFD array.
* Session calls with `ENABLE_SESSION_CALL`: no build file of the repository defines it, and with it they are
  ordinary calls. Without it they send nothing but reference themselves for good; the run `faults` has them.
* The contents of messages, and a listener that throws: the exception is not caught by the add-on and ends the
  process, unless the program handles uncaught exceptions, in which case the callback goes on as after a return.

Divergences of documentation and code met on the way that no run states:

* `README.md:123` documents `setAppId(appId)`, and the tests call it so; `node_ls2_handle.cpp:390` throws for fewer
  than two arguments.
* The comment at `node_ls2_handle.cpp:412` says that an exception is generated "only if servicePath is different";
  it is generated for a known path whose *id* differs.
* `README.md:271-273` says that a handle that registered methods is never collected; after `unregister()` it may be.
* `README.md:137-143` documents a boolean argument of `Handle`; `node_ls2_handle.cpp:109-111` throws for it.
* `README.md:283` says that the call's reference to the handle is released as soon as the response arrives; it is
  given back by the destructor of the call (`node_ls2_call.cpp:178`), when the collector gets to it.
* A token is an `unsigned long` that `node_ls2_message.cpp:32` narrows to 32 bits: past these, `Handle.cancel(token)`
  names an older call or none (`CancelsWhatWasMeant` says which).
* The comment at `node_ls2_call.h:58` says that an exception is thrown for an invalid handle or token; only the
  handle is checked, and an invalid token is ignored.

## 6. Plan

Order of the work, the most important behaviour first:

1. `ObjectWrap`, `LunaBus`, `LS2Handle`, `LS2Call`, `Sysbus`, with `HandleRefsCorrect` – done.
2. `GlibBridge` with `BridgeCorrect` and `FreshChecksCorrect` – done.
3. `GcContract`, `LS2Message`, `AppId`, `Wrappers` – done.
4. Theorems for the documented use of the API (`SysbusSafetyProofs`), with the assumptions of each failure
   separated, and about the release of calls (`SysbusReleaseProofs`) – done.
5. `Sysbus` implements `GcContract` (`SysbusContractProofs`) – done.
6. Theorems about messages, application ids and wrappers – done.
7. Left: source priorities and the array of the bridge; `respond` on a message whose handle was unregistered;
   messages and calls in one module.
