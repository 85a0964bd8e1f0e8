\* Two windows; every line of up to two words with no, one or two spaces.
SPECIFICATION FairSpec
CONSTANTS
  MaxWindows = 2
  Versions <- MCVersions
  Unreadable = Unreadable
  Plain = "plain"
  Names <- MCNames
  Words = {"help", "bob", "averyverylongname"}
  Long = {"averyverylongname"}
  Blank = "blank"
  MaxWords = 2
INVARIANTS RefusedStaysOffline AnsweredAsTyped UpdateReached
PROPERTIES OutdatedStopped HookLeaves
\* The process may run out of stack.
CHECK_DEADLOCK FALSE
