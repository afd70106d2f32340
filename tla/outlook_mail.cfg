SPECIFICATION FairSpec
CONSTANTS
  m1 = m1  m2 = m2
  Messages <- Pair
  Allowed <- OnlyM1
  Slots = {1, 2}
  MaxConcurrent = 1
  BackoffAfter = 1
  MaxFaults = 1
  MaxDisturbances = 1
  MaxStops = 1
INVARIANTS
  PermitsAccounted
  OneHandlerPerMessage
  NoSilentLoss
  ReplyPerListing
  ReadIsAnswered
PROPERTIES
  HandlersFinish
  MailSettles
