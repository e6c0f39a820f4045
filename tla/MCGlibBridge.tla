---------------------------- MODULE MCGlibBridge ----------------------------
EXTENDS GlibBridge

\* Two GPollFDs share descriptor 1, one for reading and one for both directions.
MCPollFDs ==
  {[fd |-> 1, events |-> {"in"}],
   [fd |-> 1, events |-> {"in", "out"}],
   [fd |-> 2, events |-> {"in"}]}

\* Two GPollFDs on one descriptor.
MCPollFDsShared ==
  {[fd |-> 1, events |-> {"in"}],
   [fd |-> 1, events |-> {"out"}]}

=============================================================================
