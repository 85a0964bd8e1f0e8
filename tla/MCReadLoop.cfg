\* Three frames: two fragments around a control frame, or three messages that
\* all arrive with the upgrade's response.
SPECIFICATION FairSpec
CONSTANTS
  Frames <- SomeFrames
  MaxFrames = 3
INVARIANTS AdditionalExact InStep HandlersInOrder
PROPERTIES ImplementsReader EveryFrameHandled
\* The server may stop sending.
CHECK_DEADLOCK FALSE
