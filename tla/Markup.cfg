\* Up to two whole pairs and up to 24 characters.
SPECIFICATION RenderFairSpec
CONSTANTS
  Texts <- SomeTexts
INVARIANTS InRange ShownOnce PatternsFound
PROPERTIES MessageDrawn
\* A message ends.
CHECK_DEADLOCK FALSE
