CONSTANTS
  a = a  b = b  c = c
  SThreads <- MCThreads
  sprio <- MCPrio
  Initial = 1
  MaxPosts = 2
SPECIFICATION SFairSpec
INVARIANT NoLostWakeup
PROPERTIES UnitsAreTaken
\* Every thread may be left waiting for a post that nobody makes.
CHECK_DEADLOCK FALSE
