-------------------------- MODULE GlibBridgeProofs --------------------------
(***************************************************************************)
(* The event loop bridge is sound for every set of descriptors, GPollFDs   *)
(* and timeouts: it never sleeps on an outdated picture of GLib's sources, *)
(* its watchers and its map of GPollFDs agree, what the poll finds reaches *)
(* every GPollFD that asked for it, and after a fresh query GLib is told   *)
(* exactly that.                                                           *)
(***************************************************************************)
EXTENDS GlibBridge, TLAPS

\* The inductive invariant: its conjuncts imply each other's next step.
BridgeInv ==
  /\ TypeOK
  /\ HoldIffTimer
  /\ NeverSleepsBlind
  /\ WatchersMatchMap
  /\ WatchersMatchQuery

\* The flags of a descriptor are conditions, and include those of each GPollFD.
LEMMA FlagsType ==
  ASSUME NEW S \in SUBSET PollFDs, NEW f
  PROVE  /\ Flags(S, f) \in SUBSET Conditions
         /\ \A p \in S : p.fd = f => p.events \subseteq Flags(S, f)
BY BridgeAssumption DEF Flags

\* GLib's timeout is a natural number unless there is none, and so is the delay
\* that libuv is given.
LEMMA DelayType ==
  ASSUME TypeOK, timer # Off
  PROVE  TimerDelay(timer) \in Nat
<1>1. timer \in Nat
  BY BridgeAssumption DEF TypeOK
<1>. QED
  BY <1>1 DEF TimerDelay

\* Every variable keeps its type.
LEMMA TypeStep == TypeOK /\ [Next]_vars => TypeOK'
<1>. SUFFICES ASSUME TypeOK, [Next]_vars PROVE TypeOK'
  OBVIOUS
<1>. USE BridgeAssumption DEF TypeOK, glibVars, kernelVars, uvVars, bridgeVars
<1>1. CASE UvTimeout
  BY <1>1 DEF UvTimeout
<1>2. CASE TimersDone
  BY <1>2 DEF TimersDone
<1>3. CASE PrepareSkipped
  BY <1>3 DEF PrepareSkipped
<1>4. CASE Prepare
  <2>1. polling' \in [Fds -> SUBSET Conditions]
    BY <1>4, FlagsType DEF Prepare
  <2>2. tw' \in Nat \cup {Off}
    BY <1>4, DelayType DEF Prepare
  <2>3. closing' \in SUBSET Fds /\ pollwMap' \in SUBSET Fds
    BY <1>4 DEF Prepare, Unneeded, FdsOf
  <2>4. revents' \in [PollFDs -> SUBSET Conditions]
    BY <1>4 DEF Prepare, ReventsAfterQuery
  <2>. QED
    BY <1>4, <2>1, <2>2, <2>3, <2>4 DEF Prepare
<1>5. CASE Poll
  BY <1>5 DEF Poll, Polled, Conditions
<1>6. CASE PollDone
  BY <1>6 DEF PollDone
<1>7. ASSUME NEW f \in Fds, PollCb(f) PROVE TypeOK'
  <2>1. revents' \in [PollFDs -> SUBSET Conditions]
    BY <1>7 DEF PollCb, Received
  <2>2. polling' \in [Fds -> SUBSET Conditions]
    BY <1>7 DEF PollCb
  <2>3. pfdMap' \in SUBSET PollFDs
    BY <1>7 DEF PollCb, PollfdsAfterPoll
  <2>4. batch' \in [Fds -> SUBSET (Conditions \cup {"err"})]
    BY <1>7 DEF PollCb
  <2>. QED
    BY <1>7, <2>1, <2>2, <2>3, <2>4 DEF PollCb
<1>8. CASE Check
  <2>1. timer' \in Timeouts \cup {Off, 0} /\ tw' \in Nat \cup {Off}
    BY <1>8 DEF Check
  <2>2. ready' \in [Fds -> SUBSET (Conditions \cup {"err"})]
    BY <1>8 DEF Check
  <2>. QED
    BY <1>8, <2>1, <2>2 DEF Check, HoldOff
<1>9. CASE Closing
  BY <1>9 DEF Closing
<1>10. ASSUME NEW p \in PollFDs, Attach(p) PROVE TypeOK'
  BY <1>10 DEF Attach, ScriptMayRun, ScriptRuns
<1>11. ASSUME NEW p \in PollFDs, Detach(p) PROVE TypeOK'
  <2>1. ready' \in [Fds -> SUBSET (Conditions \cup {"err"})] /\ dropped' \in SUBSET Fds
    BY <1>11 DEF Detach
  <2>. QED
    BY <1>11, <2>1 DEF Detach, ScriptMayRun, ScriptRuns
<1>12. ASSUME NEW t \in Timeouts \cup {Off}, SetTimer(t) PROVE TypeOK'
  BY <1>12 DEF SetTimer, ScriptMayRun, ScriptRuns
<1>13. CASE Expire
  BY <1>13 DEF Expire
<1>14. ASSUME NEW f \in Fds, NEW c \in Conditions \cup {"err"}, BecomeReady(f, c) PROVE TypeOK'
  BY <1>14 DEF BecomeReady
<1>15. ASSUME NEW f \in Fds, NEW c \in Conditions, Lapse(f, c) PROVE TypeOK'
  BY <1>15 DEF Lapse
<1>16. CASE UNCHANGED vars
  BY <1>16 DEF vars
<1>. QED
  BY <1>1, <1>2, <1>3, <1>4, <1>5, <1>6, <1>7, <1>8, <1>9, <1>10, <1>11, <1>12, <1>13, <1>14, <1>15,
     <1>16
     DEF Next, LoopStep, EnvStep

\* Every step of the loop and of its environment keeps the bridge sound.
LEMMA BridgeStep == BridgeInv /\ [Next]_vars => BridgeInv'
<1>. SUFFICES ASSUME BridgeInv, [Next]_vars PROVE BridgeInv'
  OBVIOUS
<1>0. TypeOK /\ TypeOK'
  BY TypeStep DEF BridgeInv
<1>. USE DEF BridgeInv, HoldIffTimer, NeverSleepsBlind, WatchersMatchMap, WatchersMatchQuery,
             glibVars, kernelVars, uvVars, bridgeVars
<1>1. CASE UvTimeout
  BY <1>0, <1>1 DEF UvTimeout
<1>2. CASE TimersDone
  BY <1>0, <1>2 DEF TimersDone
<1>3. CASE PrepareSkipped
  BY <1>0, <1>3 DEF PrepareSkipped
<1>4. CASE Prepare
  <2>1. pollwMap' = FdsOf(pfd') /\ pfdMap' \subseteq pfd'
    BY <1>4 DEF Prepare, Unneeded
  <2>2. \A f \in Fds : polling'[f] = Flags(pfdMap', f)
    BY <1>4 DEF Prepare
  <2>3. \A p \in attached' :
          p \in pfdMap' /\ p.events \subseteq polling'[p.fd] /\ p.fd \notin dropped'
    BY <1>0, <1>4, FlagsType, BridgeAssumption DEF Prepare, TypeOK
  <2>4. timer' # Off => tw' # Off
    BY <1>0, <1>4, DelayType DEF Prepare, Off
  <2>5. query' <=> ~timeout_handle'
    BY <1>4 DEF Prepare
  <2>. QED
    BY <1>0, <2>1, <2>2, <2>3, <2>4, <2>5
<1>5. CASE Poll
  BY <1>0, <1>5 DEF Poll
<1>6. CASE PollDone
  BY <1>0, <1>6 DEF PollDone
<1>7. ASSUME NEW f \in Fds, PollCb(f) PROVE BridgeInv'
  <2>1. \A g \in Fds : polling'[g] = Flags(pfdMap', g)
    <3>. SUFFICES ASSUME NEW g \in Fds PROVE polling'[g] = Flags(pfdMap', g)
      OBVIOUS
    <3>1. pfdMap' = {p \in pfdMap : p.fd # f}
      BY <1>7 DEF PollCb, PollfdsAfterPoll
    <3>2. polling'[g] = IF g = f THEN {} ELSE polling[g]
      BY <1>0, <1>7 DEF PollCb, TypeOK
    <3>3. CASE g = f
      <4>1. {q \in pfdMap' : q.fd = g} = {}
        BY <3>1, <3>3
      <4>. QED
        BY <3>2, <3>3, <4>1 DEF Flags
    <3>4. CASE g # f
      <4>1. {q \in pfdMap' : q.fd = g} = {q \in pfdMap : q.fd = g}
        BY <3>1, <3>4
      <4>2. Flags(pfdMap', g) = Flags(pfdMap, g)
        BY <4>1 DEF Flags
      <4>. QED
        BY <3>2, <3>4, <4>2
    <3>. QED
      BY <3>3, <3>4
  <2>2. pollwMap' = FdsOf(pfd') /\ pfdMap' \subseteq pfd'
    BY <1>7 DEF PollCb, PollfdsAfterPoll
  <2>. QED
    BY <1>0, <1>7, <2>1, <2>2 DEF PollCb
<1>8. CASE Check
  BY <1>0, <1>8 DEF Check, HoldOff
<1>9. CASE Closing
  BY <1>0, <1>9 DEF Closing
<1>10. ASSUME NEW p \in PollFDs, Attach(p) PROVE BridgeInv'
  BY <1>0, <1>10 DEF Attach, ScriptMayRun, ScriptRuns
<1>11. ASSUME NEW p \in PollFDs, Detach(p) PROVE BridgeInv'
  BY <1>0, <1>11 DEF Detach, ScriptMayRun, ScriptRuns
<1>12. ASSUME NEW t \in Timeouts \cup {Off}, SetTimer(t) PROVE BridgeInv'
  BY <1>0, <1>12 DEF SetTimer, ScriptMayRun, ScriptRuns
<1>13. CASE Expire
  BY <1>0, <1>13 DEF Expire, Off
<1>14. ASSUME NEW f \in Fds, NEW c \in Conditions \cup {"err"}, BecomeReady(f, c)
       PROVE  BridgeInv'
  BY <1>0, <1>14 DEF BecomeReady
<1>15. ASSUME NEW f \in Fds, NEW c \in Conditions, Lapse(f, c) PROVE BridgeInv'
  BY <1>0, <1>15 DEF Lapse
<1>16. CASE UNCHANGED vars
  BY <1>0, <1>16 DEF vars
<1>. QED
  BY <1>1, <1>2, <1>3, <1>4, <1>5, <1>6, <1>7, <1>8, <1>9, <1>10, <1>11, <1>12, <1>13, <1>14, <1>15,
     <1>16
     DEF Next, LoopStep, EnvStep

\* The module initialisation establishes it.
LEMMA BridgeInit == Init => BridgeInv
<1>. SUFFICES ASSUME Init PROVE BridgeInv
  OBVIOUS
<1>1. TypeOK
  <2>1. timer \in Timeouts \cup {Off, 0} /\ tw \in Nat \cup {Off} /\ changes \in 0..MaxChanges
    BY BridgeAssumption DEF Init
  <2>2. /\ ready \in [Fds -> SUBSET (Conditions \cup {"err"})]
        /\ batch \in [Fds -> SUBSET (Conditions \cup {"err"})]
        /\ found \in [Fds -> SUBSET (Conditions \cup {"err"})]
        /\ revents \in [PollFDs -> SUBSET Conditions]
        /\ polling \in [Fds -> SUBSET Conditions]
    BY DEF Init
  <2>. QED
    BY <2>1, <2>2 DEF Init, TypeOK
<1>2. \A f \in Fds : Flags({}, f) = {}
  BY DEF Flags
<1>3. FdsOf({}) = {}
  BY DEF FdsOf
<1>. QED
  BY <1>1, <1>2, <1>3
     DEF Init, BridgeInv, HoldIffTimer, NeverSleepsBlind, WatchersMatchMap, WatchersMatchQuery

\* The invariant holds from the module initialisation on.
LEMMA BridgeInvariant == Spec => []BridgeInv
BY BridgeInit, BridgeStep, PTL DEF Spec

\* Every variable of the bridge, GLib, libuv and the kernel keeps its type.
THEOREM BridgeTypeCorrect == Spec => []TypeOK
<1>1. BridgeInv => TypeOK
  BY DEF BridgeInv
<1>. QED
  BY <1>1, BridgeInvariant, PTL

\* Wherever in the loop the add-on is loaded and whatever the script attaches and
\* detaches, prepare_cb is on hold exactly while the timer that ends the hold runs.
THEOREM HoldCorrect == Spec => []HoldIffTimer
<1>1. BridgeInv => HoldIffTimer
  BY DEF BridgeInv
<1>. QED
  BY <1>1, BridgeInvariant, PTL

\* libuv never blocks with an outdated picture of GLib's sources and no timer to
\* wake it.
THEOREM BridgeCorrect == Spec => []NeverSleepsBlind
<1>1. BridgeInv => NeverSleepsBlind
  BY DEF BridgeInv
<1>. QED
  BY <1>1, BridgeInvariant, PTL

\* A watcher polls for exactly the flags of the GPollFDs that poll_cb would find.
THEOREM WatchersServeMap == Spec => []WatchersMatchMap
<1>1. BridgeInv => WatchersMatchMap
  BY DEF BridgeInv
<1>. QED
  BY <1>1, BridgeInvariant, PTL

\* Watchers exist for the last query only, and poll_cb writes into its array only.
THEOREM WatchersServeQuery == Spec => []WatchersMatchQuery
<1>1. BridgeInv => WatchersMatchQuery
  BY DEF BridgeInv
<1>. QED
  BY <1>1, BridgeInvariant, PTL

-----------------------------------------------------------------------------
(* Events reach the GPollFDs *)

\* Why poll_cb finds all GPollFDs of a descriptor in its map: the map has all of
\* them or none, and a descriptor has a result to report only in the phase that
\* reports it, while its watcher polls for somebody.
ToldInv ==
  /\ BridgeInv
  /\ \A p \in pfdMap, q \in pfd : q.fd = p.fd => q \in pfdMap
  /\ \A f \in Fds : batch[f] # {} => phase = "callbacks" /\ polling[f] # {}

\* A descriptor that polls has a GPollFD in the map, and so all of them.
LEMMA PollingIsMapped ==
  ASSUME ToldInv, NEW q \in pfd, polling[q.fd] # {}
  PROVE  q \in pfdMap
<1>1. q.fd \in Fds
  BY BridgeAssumption DEF ToldInv, BridgeInv, TypeOK
<1>2. Flags(pfdMap, q.fd) # {}
  BY <1>1 DEF ToldInv, BridgeInv, WatchersMatchMap
<1>3. PICK p \in pfdMap : p.fd = q.fd
  BY <1>2 DEF Flags
<1>. QED
  BY <1>3 DEF ToldInv

\* Every step keeps the map complete for the descriptors it has.
LEMMA ToldStep == ToldInv /\ [Next]_vars => ToldInv'
<1>. SUFFICES ASSUME ToldInv, [Next]_vars PROVE ToldInv'
  OBVIOUS
<1>0. TypeOK /\ BridgeInv'
  BY BridgeStep DEF ToldInv, BridgeInv
<1>. USE DEF ToldInv, glibVars, kernelVars, uvVars, bridgeVars
<1>1. CASE UvTimeout
  BY <1>0, <1>1 DEF UvTimeout
<1>2. CASE TimersDone
  BY <1>0, <1>2 DEF TimersDone
<1>3. CASE PrepareSkipped
  BY <1>0, <1>3 DEF PrepareSkipped
<1>4. CASE Prepare
  BY <1>0, <1>4 DEF Prepare
<1>5. CASE Poll
  <2>1. \A f \in Fds : batch'[f] # {} => polling'[f] # {}
    BY <1>5 DEF Poll, Polled
  <2>. QED
    BY <1>0, <1>5, <2>1 DEF Poll
<1>6. CASE PollDone
  BY <1>0, <1>6 DEF PollDone
<1>7. ASSUME NEW f \in Fds, PollCb(f) PROVE ToldInv'
  <2>1. \A p \in pfdMap', q \in pfd' : q.fd = p.fd => q \in pfdMap'
    BY <1>7 DEF PollCb, PollfdsAfterPoll
  <2>2. \A g \in Fds : batch'[g] # {} => g # f /\ batch[g] # {} /\ polling'[g] = polling[g]
    BY <1>0, <1>7 DEF PollCb, TypeOK
  <2>. QED
    BY <1>0, <1>7, <2>1, <2>2 DEF PollCb
<1>8. CASE Check
  BY <1>0, <1>8 DEF Check
<1>9. CASE Closing
  BY <1>0, <1>9 DEF Closing
<1>10. ASSUME NEW p \in PollFDs, Attach(p) PROVE ToldInv'
  BY <1>0, <1>10 DEF Attach
<1>11. ASSUME NEW p \in PollFDs, Detach(p) PROVE ToldInv'
  BY <1>0, <1>11 DEF Detach
<1>12. ASSUME NEW t \in Timeouts \cup {Off}, SetTimer(t) PROVE ToldInv'
  BY <1>0, <1>12 DEF SetTimer
<1>13. CASE Expire
  BY <1>0, <1>13 DEF Expire
<1>14. ASSUME NEW f \in Fds, NEW c \in Conditions \cup {"err"}, BecomeReady(f, c)
       PROVE  ToldInv'
  BY <1>0, <1>14 DEF BecomeReady
<1>15. ASSUME NEW f \in Fds, NEW c \in Conditions, Lapse(f, c) PROVE ToldInv'
  BY <1>0, <1>15 DEF Lapse
<1>16. CASE UNCHANGED vars
  BY <1>0, <1>16 DEF vars
<1>. QED
  BY <1>1, <1>2, <1>3, <1>4, <1>5, <1>6, <1>7, <1>8, <1>9, <1>10, <1>11, <1>12, <1>13, <1>14, <1>15,
     <1>16
     DEF Next, LoopStep, EnvStep

\* Only poll_cb reports what the poll found, and it reports it to all.
LEMMA ReportedToAll ==
  ASSUME ToldInv, [Next]_vars, NEW p \in pfd, batch[p.fd] # {}, batch'[p.fd] = {}
  PROVE  p.events \cap batch[p.fd] \subseteq revents'[p]
<1>0. TypeOK /\ p \in PollFDs /\ p.fd \in Fds /\ phase = "callbacks" /\ p \in pfdMap
  <2>1. TypeOK /\ p \in PollFDs /\ p.fd \in Fds
    BY BridgeAssumption DEF ToldInv, BridgeInv, TypeOK
  <2>2. phase = "callbacks" /\ polling[p.fd] # {}
    BY <2>1 DEF ToldInv
  <2>. QED
    BY <2>1, <2>2, PollingIsMapped
<1>1. PICK f \in Fds : PollCb(f)
  <2>1. batch' # batch
    BY <1>0
  <2>2. ~Poll
    BY <1>0 DEF Poll
  <2>3. batch' = batch \/ Poll \/ \E f \in Fds : PollCb(f)
    BY DEF Next, LoopStep, EnvStep, UvTimeout, TimersDone, PrepareSkipped, Prepare, PollDone,
           Check, Closing, Attach, Detach, SetTimer, Expire, BecomeReady, Lapse, vars, uvVars
  <2>. QED
    BY <2>1, <2>2, <2>3
<1>2. p.fd = f
  BY <1>0, <1>1 DEF PollCb, TypeOK
<1>. QED
  BY <1>0, <1>1, <1>2 DEF PollCb, Received

\* What the poll found is reported in full, from the module initialisation on.
LEMMA ToldInvariant == Spec => []ToldInv
<1>1. Init => ToldInv
  <2>. SUFFICES ASSUME Init PROVE ToldInv
    OBVIOUS
  <2>1. BridgeInv
    BY BridgeInit
  <2>. QED
    BY <2>1 DEF Init, ToldInv
<1>. QED
  BY <1>1, ToldStep, PTL DEF Spec

\* Whatever sources share a descriptor and whatever the script attaches or detaches
\* before poll_cb runs, all GPollFDs of the last query get the events they wait for.
THEOREM AllPollFDsTold == Spec => EveryPollFDIsTold
<1>1. ToldInv /\ [Next]_vars =>
        [\A p \in pfd :
           batch[p.fd] # {} /\ batch'[p.fd] = {} =>
             p.events \cap batch[p.fd] \subseteq revents'[p]]_vars
  BY ReportedToAll
<1>. QED
  BY <1>1, ToldInvariant, PTL DEF Spec, EveryPollFDIsTold

-----------------------------------------------------------------------------
(* The check after a fresh query *)

\* Why that check is exact: the query emptied the revents, and from the poll on what a
\* GPollFD was told and what poll_cb has yet to tell it make up what the poll found.
FreshIsExact ==
  query =>
    /\ phase = "poll" => \A p \in pfd : revents[p] = {}
    /\ phase = "callbacks" =>
         \A p \in pfd :
           revents[p] \cup (p.events \cap batch[p.fd]) = p.events \cap found[p.fd]
    /\ phase = "check" => \A p \in pfd : revents[p] = p.events \cap found[p.fd]

\* Every step keeps the account.
LEMMA FreshStep == ToldInv /\ FreshIsExact /\ [Next]_vars => FreshIsExact'
<1>. SUFFICES ASSUME ToldInv, FreshIsExact, [Next]_vars PROVE FreshIsExact'
  OBVIOUS
<1>0. TypeOK /\ \A p \in pfd : p \in PollFDs /\ p.fd \in Fds
  BY BridgeAssumption DEF ToldInv, BridgeInv, TypeOK
<1>. USE DEF FreshIsExact, glibVars, kernelVars, uvVars, bridgeVars
<1>1. CASE UvTimeout \/ TimersDone \/ PrepareSkipped \/ Check \/ Closing
  BY <1>1 DEF UvTimeout, TimersDone, PrepareSkipped, Check, Closing
<1>2. CASE Prepare
  BY <1>0, <1>2 DEF Prepare, ReventsAfterQuery, TypeOK
<1>3. CASE Poll
  BY <1>0, <1>3 DEF Poll
<1>4. CASE PollDone
  BY <1>0, <1>4 DEF PollDone
<1>5. ASSUME NEW f \in Fds, PollCb(f) PROVE FreshIsExact'
  <2>. SUFFICES ASSUME query, NEW p \in pfd
                PROVE  revents'[p] \cup (p.events \cap batch'[p.fd]) = p.events \cap found'[p.fd]
    BY <1>5 DEF PollCb
  <2>1. /\ p \in PollFDs /\ p.fd \in Fds /\ found' = found
        /\ revents[p] \cup (p.events \cap batch[p.fd]) = p.events \cap found[p.fd]
    BY <1>0, <1>5 DEF PollCb
  <2>2. CASE p.fd = f
    <3>1. p \in pfdMap
      BY <1>5, <2>1, <2>2, PollingIsMapped DEF PollCb, ToldInv
    <3>2. revents'[p] = revents[p] \cup (p.events \cap batch[f]) /\ batch'[f] = {}
      BY <1>0, <1>5, <2>1, <2>2, <3>1 DEF PollCb, Received, TypeOK
    <3>. QED
      BY <2>1, <2>2, <3>2
  <2>3. CASE p.fd # f
    <3>1. revents'[p] = revents[p] /\ batch'[p.fd] = batch[p.fd]
      BY <1>0, <1>5, <2>1, <2>3 DEF PollCb, TypeOK
    <3>. QED
      BY <2>1, <3>1
  <2>. QED
    BY <2>2, <2>3
<1>6. CASE EnvStep
  BY <1>6 DEF EnvStep, Attach, Detach, SetTimer, Expire, BecomeReady, Lapse
<1>7. CASE UNCHANGED vars
  BY <1>7 DEF vars
<1>. QED
  BY <1>1, <1>2, <1>3, <1>4, <1>5, <1>6, <1>7 DEF Next, LoopStep

\* After a fresh query g_main_context_check is told of each GPollFD exactly what the poll
\* found for it, although script runs between the poll and the check, conditions come
\* and go, and descriptors are shared, closed and used again.
THEOREM FreshChecksCorrect == Spec => []FreshCheckIsExact
<1>1. Init => FreshIsExact
  BY DEF Init, FreshIsExact
<1>2. FreshIsExact => FreshCheckIsExact
  BY DEF FreshIsExact, FreshCheckIsExact
<1>. QED
  BY <1>1, <1>2, FreshStep, ToldInvariant, PTL DEF Spec

=============================================================================
