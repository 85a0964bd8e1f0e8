SPECIFICATION Spec
CONSTANTS
  Io = io
  Threads = {main, io}
  NoThread = NoThread
  MaxFrames = 3
INVARIANTS CloseSentOnce
CHECK_DEADLOCK FALSE
