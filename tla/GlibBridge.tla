----------------------------- MODULE GlibBridge -----------------------------
(***************************************************************************)
(* The bridge between the two event loops of the process (node_ls2.cpp):   *)
(* the library waits in a GLib main context, Node in the default libuv     *)
(* loop.  Before libuv polls, prepare_cb asks GLib for its GPollFDs and    *)
(* its timeout and arms one libuv watcher per descriptor; poll_cb collects *)
(* what is ready; after the poll check_cb lets GLib dispatch its sources,  *)
(* which is where all the callbacks of Sysbus come from.  For about one    *)
(* millisecond after that, prepare_cb does nothing.                        *)
(*                                                                         *)
(* GLib, libuv and the kernel are external.  libuv runs the phases timers, *)
(* prepare, poll, check and closing in a circle; its poll is level         *)
(* triggered.  A descriptor in error is reported with a negative status    *)
(* and no events.  g_main_context_check bails out when the set of GPollFDs *)
(* changed since the query.  All GLib sources have one priority here.      *)
(* A condition that the poll found may be gone when check_cb runs: script  *)
(* in between may make the library read or write the descriptor (Lapse).   *)
(***************************************************************************)
EXTENDS Integers, FiniteSets

CONSTANTS
  Fds,        \* file descriptors
  PollFDs,    \* the GPollFDs that GLib may ask for: records with fd and events
  Timeouts,   \* timeouts of GLib timer sources, in milliseconds
  MaxChanges  \* bound on the changes the script makes to the GLib sources

Conditions == {"in", "out"}

ASSUME BridgeAssumption ==
  /\ \A p \in PollFDs : p.fd \in Fds /\ p.events \in SUBSET Conditions \ {{}}
  /\ Timeouts \subseteq Nat \ {0}
  /\ MaxChanges \in Nat

Off == -1   \* no GLib timeout; a stopped timer of libuv

VARIABLES
  phase,     \* where the libuv loop is; "callbacks" is the end of the poll phase
  attached,  \* GLib: the GPollFDs of its sources
  changed,   \* GLib: these changed since the last query
  timer,     \* GLib: milliseconds to its next timer source, 0 when due, or Off
  changes,   \* how often the script changed the GLib sources
  ready,     \* the kernel: per descriptor the conditions that hold, and "err"
  dropped,   \* the kernel: descriptors closed, and so not polled, since the last query
  batch,     \* libuv: per descriptor the result of the poll not yet called back
  closing,   \* libuv: the descriptors whose watcher waits for close_cb
  found,     \* history, not in the code: what the last poll found, until check_cb
  query, timeout_handle,  \* the flag; whether the one-millisecond timer runs
  tw,        \* delay in milliseconds of the timer ctx->tw, or Off
  pfd,       \* ctx->pfd, the GPollFDs of the last query
  revents,   \* their revents
  pfdMap,    \* the GPollFDs that poll_cb can still find
  pollwMap,  \* the descriptors that have a watcher
  polling    \* per descriptor the mask its watcher polls for, {} when stopped

glibVars   == <<attached, changed, timer, changes>>
kernelVars == <<ready, dropped>>
uvVars     == <<batch, closing, found>>
bridgeVars == <<query, timeout_handle, tw, pfd, revents, pfdMap, pollwMap, polling>>
vars == <<phase, glibVars, kernelVars, uvVars, bridgeVars>>

FdsOf(S) == {p.fd : p \in S}

\* prepare_cb's EventMap: the flags of all GPollFDs on a descriptor together.
Flags_LastOnly(S, f) ==
  IF f \in FdsOf(S) THEN (CHOOSE p \in S : p.fd = f).events ELSE {}
Flags(S, f) == UNION {p.events : p \in {q \in S : q.fd = f}}

-----------------------------------------------------------------------------

\* Module initialisation: the add-on may be loaded by the main script, before
\* the loop runs, or from a callback in the middle of an iteration.
Init ==
  /\ phase \in {"timers", "callbacks", "check"}
  /\ attached = {}
  /\ changed = FALSE
  /\ timer = Off
  /\ changes = 0
  /\ ready = [f \in Fds |-> {}]
  /\ dropped = {}
  /\ batch = [f \in Fds |-> {}]
  /\ closing = {}
  /\ found = [f \in Fds |-> {}]
  /\ query = TRUE
  /\ timeout_handle = FALSE
  /\ tw = Off
  /\ pfd = {}
  /\ revents = [p \in PollFDs |-> {}]
  /\ pfdMap = {}
  /\ pollwMap = {}
  /\ polling = [f \in Fds |-> {}]

-----------------------------------------------------------------------------
(* The libuv loop and the callbacks of the bridge *)

\* uv_timeout_cb
UvTimeout ==
  /\ phase = "timers"
  /\ timeout_handle
  /\ query' = TRUE
  /\ timeout_handle' = FALSE
  /\ UNCHANGED <<phase, glibVars, kernelVars, uvVars, tw, pfd, revents, pfdMap, pollwMap, polling>>

\* The timers that were due have run.
TimersDone ==
  /\ phase = "timers"
  /\ phase' = "prepare"
  /\ UNCHANGED <<glibVars, kernelVars, uvVars, bridgeVars>>

\* The last loop of prepare_cb: the watchers no GPollFD needs any more.
Unneeded_None(S) == {}
Unneeded(S) == pollwMap \ FdsOf(S)

\* uv_timer_start is given a thousandth of GLib's milliseconds.
TimerDelay(t) == t \div 1000

\* "reset received events for the GPollFD"
ReventsAfterQuery_Kept == revents
ReventsAfterQuery == [p \in PollFDs |-> {}]

\* prepare_cb when the one millisecond has not passed
PrepareSkipped ==
  /\ phase = "prepare"
  /\ ~query
  /\ phase' = "poll"
  /\ UNCHANGED <<glibVars, kernelVars, uvVars, bridgeVars>>

\* prepare_cb
Prepare ==
  /\ phase = "prepare"
  /\ query
  /\ phase' = "poll"
  /\ changed' = FALSE
  /\ pfd' = attached
  /\ revents' = ReventsAfterQuery
  /\ pfdMap' = attached
  /\ polling' = [f \in Fds |-> Flags(attached, f)]
  /\ closing' = closing \cup Unneeded(attached)
  /\ pollwMap' = (pollwMap \cup FdsOf(attached)) \ Unneeded(attached)
  /\ tw' = IF timer # Off THEN TimerDelay(timer) ELSE tw
  /\ dropped' = {}
  /\ UNCHANGED <<attached, timer, changes, ready, batch, found, query, timeout_handle>>

\* What the poll finds on a descriptor: an error hides the other conditions.
Polled(f) ==
  IF polling[f] = {} \/ f \in dropped THEN {}
  ELSE IF "err" \in ready[f] THEN {"err"}
  ELSE ready[f] \cap polling[f]

\* The poll does not block, or something the bridge has armed ends it.
PollEnds ==
  \/ \E f \in Fds : Polled(f) # {}
  \/ timeout_handle
  \/ tw # Off
  \/ closing # {}

\* The poll ends, also when only a handle of another part of the program is ready.
Poll ==
  /\ phase = "poll"
  /\ phase' = "callbacks"
  /\ batch' = [f \in Fds |-> Polled(f)]
  /\ found' = batch'
  /\ UNCHANGED <<glibVars, kernelVars, closing, bridgeVars>>

\* poll_cb, for every GPollFD on the descriptor.  It is one shot: the descriptor
\* is not polled again before the next query.
PollfdsAfterPoll_Kept(f) == pfdMap
PollfdsAfterPoll(f) == {p \in pfdMap : p.fd # f}

\* What poll_cb adds to the revents of a GPollFD: no more than it asked for.
Received_Unmasked(p, f) == batch[f]
Received_FirstOnly(p, f) ==
  IF p = CHOOSE q \in pfdMap : q.fd = f THEN p.events \cap batch[f] ELSE {}
Received(p, f) == p.events \cap batch[f]

PollCb(f) ==
  /\ phase = "callbacks"
  /\ batch[f] # {}
  /\ batch' = [batch EXCEPT ![f] = {}]
  /\ revents' = [p \in PollFDs |->
                   IF p \in pfdMap /\ p.fd = f
                     THEN revents[p] \cup Received(p, f)
                     ELSE revents[p]]
  /\ pfdMap' = PollfdsAfterPoll(f)
  /\ polling' = [polling EXCEPT ![f] = {}]
  /\ UNCHANGED <<phase, glibVars, kernelVars, closing, found>>
  /\ UNCHANGED <<query, timeout_handle, tw, pfd, pollwMap>>

PollDone ==
  /\ phase = "callbacks"
  /\ \A f \in Fds : batch[f] = {}
  /\ phase' = "check"
  /\ UNCHANGED <<glibVars, kernelVars, uvVars, bridgeVars>>

\* g_main_context_check, called with the array of the last query.
Dispatched == IF changed THEN {} ELSE {p \in pfd : revents[p] # {}}
TimerDispatched == ~changed /\ timer = 0

\* check_cb restarts the one-millisecond timer unless it still runs.
HoldOff_OnlyWhenReady == timeout_handle \/ Dispatched # {}
HoldOff == TRUE

\* check_cb.  A dispatched source deals with the conditions it was woken for.
Check ==
  /\ phase = "check"
  /\ phase' = "closing"
  /\ tw' = Off
  /\ ready' = [f \in Fds |-> ready[f] \ UNION {revents[p] : p \in {q \in Dispatched : q.fd = f}}]
  /\ timer' = IF TimerDispatched THEN Off ELSE timer
  /\ query' = FALSE
  /\ timeout_handle' = HoldOff
  /\ found' = [f \in Fds |-> {}]
  /\ UNCHANGED <<attached, changed, changes, dropped, batch, closing>>
  /\ UNCHANGED <<pfd, revents, pfdMap, pollwMap, polling>>

\* close_cb, for every watcher closed by prepare_cb.
Closing ==
  /\ phase = "closing"
  /\ phase' = "timers"
  /\ closing' = {}
  /\ UNCHANGED <<glibVars, kernelVars, batch, found, bridgeVars>>

LoopStep ==
  \/ UvTimeout \/ TimersDone
  \/ PrepareSkipped \/ Prepare
  \/ Poll \/ PollDone \/ \E f \in Fds : PollCb(f)
  \/ Check
  \/ Closing

-----------------------------------------------------------------------------
(* The environment *)

\* JavaScript and the sources it makes the library add run in callbacks of
\* libuv, never between prepare_cb and the poll.
ScriptRuns == phase \in {"timers", "callbacks", "check", "closing"}
ScriptMayRun == ScriptRuns /\ changes < MaxChanges

Attach(p) ==
  /\ ScriptMayRun
  /\ p \notin attached
  /\ attached' = attached \cup {p}
  /\ changed' = TRUE
  /\ changes' = changes + 1
  /\ UNCHANGED <<phase, timer, kernelVars, uvVars, bridgeVars>>

\* With its last GPollFD a descriptor is closed, and the kernel drops it from the
\* poll set while its watcher still looks active; its number may be used again.
Detach(p) ==
  /\ ScriptMayRun
  /\ p \in attached
  /\ attached' = attached \ {p}
  /\ changed' = TRUE
  /\ changes' = changes + 1
  /\ ready' = [f \in Fds |-> IF f \in FdsOf(attached') THEN ready[f] ELSE {}]
  /\ dropped' = dropped \cup ({p.fd} \ FdsOf(attached'))
  /\ UNCHANGED <<phase, timer, uvVars, bridgeVars>>

\* A response timeout is armed or disarmed.
SetTimer(t) ==
  /\ ScriptMayRun
  /\ timer' = t
  /\ changes' = changes + 1
  /\ UNCHANGED <<phase, attached, changed, kernelVars, uvVars, bridgeVars>>

Expire ==
  /\ timer > 0
  /\ timer' = 0
  /\ UNCHANGED <<phase, attached, changed, changes, kernelVars, uvVars, bridgeVars>>

\* Data arrives, a buffer drains, the peer breaks the connection.
BecomeReady(f, c) ==
  /\ f \in FdsOf(attached)
  /\ c \notin ready[f]
  /\ ready' = [ready EXCEPT ![f] = @ \cup {c}]
  /\ UNCHANGED <<phase, glibVars, dropped, uvVars, bridgeVars>>

\* A condition ends, because script makes the library read or write the descriptor
\* outside check_cb.
Lapse(f, c) ==
  /\ ScriptRuns
  /\ c \in ready[f]
  /\ ready' = [ready EXCEPT ![f] = @ \ {c}]
  /\ UNCHANGED <<phase, glibVars, dropped, uvVars, bridgeVars>>

EnvStep ==
  \/ \E p \in PollFDs : Attach(p) \/ Detach(p)
  \/ \E t \in Timeouts \cup {Off} : SetTimer(t)
  \/ Expire
  \/ \E f \in Fds, c \in Conditions \cup {"err"} : BecomeReady(f, c)
  \/ \E f \in Fds, c \in Conditions : Lapse(f, c)

Next == LoopStep \/ EnvStep

Spec == Init /\ [][Next]_vars

(***************************************************************************)
(* Fairness: libuv keeps running; a poll with something ready, a timer     *)
(* armed or a handle to close ends; a running timer is due at last; time   *)
(* passes for GLib as well.  A poll with nothing armed may block forever.  *)
(***************************************************************************)
Fairness ==
  /\ WF_vars(TimersDone \/ PrepareSkipped \/ Prepare \/ PollDone \/ Check \/ Closing
             \/ \E f \in Fds : PollCb(f))
  /\ WF_vars(PollEnds /\ Poll)
  /\ SF_vars(UvTimeout)
  /\ WF_vars(Expire)

FairSpec == Spec /\ Fairness

-----------------------------------------------------------------------------
(* Properties *)

TypeOK ==
  /\ phase \in {"timers", "prepare", "poll", "callbacks", "check", "closing"}
  /\ attached \in SUBSET PollFDs
  /\ changed \in BOOLEAN
  /\ timer \in Timeouts \cup {Off, 0}
  /\ changes \in 0..MaxChanges
  /\ ready \in [Fds -> SUBSET (Conditions \cup {"err"})]
  /\ batch \in [Fds -> SUBSET (Conditions \cup {"err"})]
  /\ found \in [Fds -> SUBSET (Conditions \cup {"err"})]
  /\ dropped \in SUBSET Fds
  /\ closing \in SUBSET Fds
  /\ query \in BOOLEAN
  /\ timeout_handle \in BOOLEAN
  /\ tw \in Nat \cup {Off}
  /\ pfd \in SUBSET PollFDs
  /\ revents \in [PollFDs -> SUBSET Conditions]
  /\ pfdMap \in SUBSET PollFDs
  /\ pollwMap \in SUBSET Fds
  /\ polling \in [Fds -> SUBSET Conditions]

\* prepare_cb is on hold exactly while the one-millisecond timer runs ("return if
\* uv_timeout is active"): if the flag were down with no timer running, GLib would
\* never be asked again.
HoldIffTimer == query <=> ~timeout_handle

\* When libuv is about to block, either it polls for all that GLib waits for, with
\* a timer armed if GLib has a timeout, or the one-millisecond timer will wake it
\* up: it never sleeps on an outdated picture of GLib's sources.
NeverSleepsBlind ==
  phase = "poll" /\ ~timeout_handle =>
    /\ \A p \in attached :
         p \in pfdMap /\ p.events \subseteq polling[p.fd] /\ p.fd \notin dropped
    /\ timer # Off => tw # Off

\* A watcher polls as long as, and only if, poll_cb would find GPollFDs for its
\* descriptor, and for exactly the flags they ask for: an event libuv reports is
\* never dropped for want of a GPollFD, and no watcher polls for nobody.
WatchersMatchMap ==
  \A f \in Fds : polling[f] = Flags(pfdMap, f)

\* Watchers exist for the descriptors of the last query and no others, and all
\* GPollFDs poll_cb writes to are of that query: no watcher is leaked when GLib loses
\* interest, and no event is given to a GPollFD that GLib has taken back.
WatchersMatchQuery ==
  /\ pollwMap = FdsOf(pfd)
  /\ pfdMap \subseteq pfd

\* After a fresh query g_main_context_check is told, of every GPollFD, exactly what the
\* poll just found of the events it asked for: nothing is left over from earlier rounds
\* and nothing is lost, whatever script attached, detached, read or wrote between the
\* poll and the check.  Only on hold is the array of an older query checked again.
FreshCheckIsExact ==
  phase = "check" /\ query => \A p \in pfd : revents[p] = p.events \cap found[p.fd]

\* What the poll found on a descriptor reaches, in the one call of poll_cb, every
\* GPollFD of the last query that asked for it, whatever the script attached or
\* detached meanwhile: "Iterate over *all* GPollFDs matching the watcher's fd"
\* (node_ls2.cpp:97).
EveryPollFDIsTold ==
  [][\A p \in pfd :
       batch[p.fd] # {} /\ batch'[p.fd] = {} =>
         p.events \cap batch[p.fd] \subseteq revents'[p]]_vars

Waits(p, c) ==
  /\ p \in attached
  /\ c \in ready[p.fd] \cap p.events
  /\ "err" \notin ready[p.fd]

\* No wakeup is lost: a source that is ready is dispatched, unless it goes away, its
\* descriptor breaks or its condition ends before, in spite of one-shot watchers, skipped queries, queries
\* outdated by the script and errors on other descriptors.
ReadyIsDispatched ==
  \A p \in PollFDs, c \in Conditions : Waits(p, c) ~> ~Waits(p, c)

\* The response timeout of a call, once armed, is dispatched or disarmed.
TimeoutIsDispatched == timer # Off ~> timer = Off

\* node_ls2.cpp:49, ctx->tw is the "timeout to prevent libuv from running event
\* loop "too soon"": it does not end the poll before GLib's timeout.
NotTooSoon == phase = "poll" /\ tw # Off => tw >= timer

=============================================================================
