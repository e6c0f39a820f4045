\* Three GPollFDs on two descriptors, any order of events, and no lost wakeups.
SPECIFICATION FairSpec
CONSTANTS
  Fds = {1, 2}
  PollFDs <- MCPollFDs
  Timeouts = {2000}
  MaxChanges = 3
INVARIANTS TypeOK HoldIffTimer NeverSleepsBlind WatchersMatchMap WatchersMatchQuery FreshCheckIsExact
PROPERTIES EveryPollFDIsTold ReadyIsDispatched TimeoutIsDispatched
