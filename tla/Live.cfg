SPECIFICATION LiveSpec
CONSTANTS
  N = 4
  MaxRuns = 2
  Thorough = {1, 4}
  Roles = {"php", "redis"}
  Wishes = {"domain"}
  MaxWishes = 1
  Daemons = 1
  EngineFaults = {"exit", "wipe", "crash", "snapshotter", "start"}
  Feeds = {"web", "php"}
  MaxStreams = 2
  MaxWritten = 2
  History = 1
  Attaches = 2
  Capacity = 1
  RingSize = 2
  MaxTurns = 1
INVARIANTS
  AllOrNothing
  NoSilentResidue
  LinesInOrder
PROPERTIES
  ImplementsSaga
  FittingContainersStay
  StartedAsAsked
  StartsEnd
  LeftStreamsEnd
\* A finished plan that is not run again, a site that is up and a stream that
\* was left have no next step.
CHECK_DEADLOCK FALSE
