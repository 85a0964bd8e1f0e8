\* A key that opens the input and submits the line (T only does the former),
\* one that closes it, and Alt, under which both come as system keys; clicks
\* open and close the input as well.
SPECIFICATION FairSpec
CONSTANTS
  Keys = {Return, Esc, Alt}
  T = T
  Return = Return
  Esc = Esc
  Alt = Alt
INVARIANTS NoStuckKey
PROPERTIES PressToOne FocusServed
\* The model stops at undefined behaviour.
CHECK_DEADLOCK FALSE
