\* The poll ends before GLib's timeout.
SPECIFICATION Spec
CONSTANTS
  Fds = {1}
  PollFDs <- MCPollFDsShared
  Timeouts = {2000}
  MaxChanges = 3
INVARIANTS NotTooSoon
