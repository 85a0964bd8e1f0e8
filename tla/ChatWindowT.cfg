\* A press of T between the click on the close button and the next frame.
SPECIFICATION Spec
CONSTANTS
  Keys = {T, Return, Esc}
  T = T
  Return = Return
  Esc = Esc
  Alt = Alt
PROPERTIES TOpens
\* The model stops at undefined behaviour.
CHECK_DEADLOCK FALSE
