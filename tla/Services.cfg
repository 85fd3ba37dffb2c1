SPECIFICATION FairSpec
CONSTANTS
  MaxTickets = 4
  Keys = {k1, k2}
  MaxSends = 3
  MaxFailures = 2
  Ttl = 2
  Cap = 7
  MaxNow = 8
  TTL = 2
  MaxClock = 5
  MaxChain = 2
  MaxProcCrashes = 1
  MaxAttempts = 2
  MaxCrashes = 2
INVARIANTS
  OneHolderInOrder
  LaunchedOncePerWrite
  ClaimIsDecidedOrFreed
  LiveLeaseUnspent
  SuccessIsCalledBack
  OfferIsAlive
PROPERTIES
  EveryTicketIsServed
  LeaseIsWatched
  ReclaimOnlyDead
  WindowFollowsLimit
  AcceptedStands
  ParkEnds
  EarlyIsUsed
CHECK_DEADLOCK FALSE
