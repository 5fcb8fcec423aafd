SPECIFICATION SteadySpec
CONSTANTS
  Sockets = {s1, s2, s3}
  NoSocket = NoSocket
  MaxTasks = 2
  MaxSent = 2
INVARIANT TypeOK
INVARIANT OneConnection
INVARIANT StandingNotIdle
INVARIANT ViewHasService
PROPERTY ClosesItsOwn
PROPERTY LossNoticed
CHECK_DEADLOCK FALSE
