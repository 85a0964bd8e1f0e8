\* One user who starts the program three times, two connections, a uuid that the
\* next start accepts and one that it refuses.
SPECIFICATION Spec
CONSTANTS
  Main = main
  Workers = {w1, w2}
  Uuids = {u1}
  Invalid = {bad}
  NoUuid = NoUuid
  Empty = Empty
  Malformed = Malformed
  Absent = Absent
  NotBoolean = NotBoolean
  MaxStarts = 3
INVARIANTS  FileIsCurrent RegistersOnlyNew
PROPERTIES RefusedFileKept
\* The user need not start the program again, and the model stops at undefined
\* behaviour.
CHECK_DEADLOCK FALSE
