\* The main thread and the connection's own thread, three calls between them:
\* a frame in flight and two behind it, or one queued after a failed write.
SPECIFICATION FairSpec
CONSTANTS
  Io = io
  Threads = {main, io}
  NoThread = NoThread
  MaxFrames = 3
INVARIANTS OneWriteAtATime NoLostWakeup WritesFront
PROPERTIES ImplementsFifo FramesLeave
\* The number of calls is bounded.
CHECK_DEADLOCK FALSE
