\* A reconnect whose old connection closes late.
SPECIFICATION Spec
CONSTANTS
  Main = main
  Workers = {w1, w2}
  None = None
PROPERTIES UnableOnlyWhenDown
CHECK_DEADLOCK FALSE
