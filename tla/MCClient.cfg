\* The first connection and one reconnect: the old connection's handlers can
\* run after the new one is up.  A user with an identity or none, and a server
\* that may give an identity or the empty string at any time.  An invalid one
\* differs from an identity only at the next start, which is in another run.
SPECIFICATION ClientFairSpec
CONSTANTS
  Main = main
  Workers = {w1, w2}
  None = None
  Uuids = {u1}
  Invalid = {}
  NoUuid = NoUuid
  Empty = Empty
  Malformed = Malformed
  Absent = Absent
  NotBoolean = NotBoolean
  Edits <- MCEdits
INVARIANTS PointerToLiveClient SoleConnectionUsable AnnouncementFits
PROPERTIES ImplementsIdentity AttemptReported IdentityObtained
\* The process may end.
CHECK_DEADLOCK FALSE
