\* The main thread, whose own lines are plain, and two workers (an old and a
\* new connection), whose lines have a timestamp or a text that does not
\* convert.  The history is full after three messages, and two more let two
\* threads stand between the check and the erase while the main thread is
\* inside a row, or one worker append twice between two reads of a row.
SPECIFICATION FairSpec
CONSTANTS
  Main = main
  Threads = {main, w1, w2}
  Limit = 3
  ServerKinds = {"stamped", "textless"}
  MaxPosts = 5
INVARIANTS EraseFindsMessage  FieldsInOrder
PROPERTIES ImplementsLog NewestDrawn
\* The process may end (an uncaught exception, undefined behaviour).
CHECK_DEADLOCK FALSE
