\* Three completions in flight and two callers of stop(): the smallest
\* instance with a contended exchange and a second stop().
SPECIFICATION GateFairSpec
CONSTANTS
  Handlers = {h1, h2, h3}
  Stoppers = {s1, s2}
INVARIANTS StopExcludesHandlers CountIsRunning
PROPERTIES StopReturns
