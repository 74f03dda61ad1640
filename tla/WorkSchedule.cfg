SPECIFICATION FairSpec
CONSTANTS
  N = 2
  Ext = {reactor}
  Reactor = reactor
  Handles = {h1, h2}
  NoHandle = NoHandle
INVARIANTS NothingStranded
PROPERTIES ImplementsPool StopTerminates
