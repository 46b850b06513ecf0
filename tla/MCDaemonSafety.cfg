SPECIFICATION Spec
CONSTANTS
  NWorkers = 2
  Conn = {c1, c2, c3}
  None = None
SYMMETRY ConnSymmetry
INVARIANTS
  TypeOK
  StreamHasOneOwner
  GracefulCause
  ChannelClosedBeforeJoins
  OneDiscardAtMost
  GracefulDrain
PROPERTIES
  ImplementsService
  ImplementsWorkGroup
  FateIsFinal
