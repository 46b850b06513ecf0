SPECIFICATION FairSpec
CONSTANTS
  Conn = {root, user1, user2}
  Privileged = {root}
INVARIANTS
  ReadyMeansReachable
PROPERTIES
  ServesAgain
  WaitersAreReleased
