SPECIFICATION FairSpec
CONSTANTS
  Constructors = {"_NewClient", "ClientFromConfigWithoutScheduleNetworkUpdate"}
  Updater = {u1, u2}
  Mirror = {m1}
  BookSize = 2
  QueryAttempts = 1
  MaxVersion = 1
  MaxContexts = 3
INVARIANT
  BookIsWhole
  OneSchedule
PROPERTY
  ClosedIsFinal
  UpdatesEnd
