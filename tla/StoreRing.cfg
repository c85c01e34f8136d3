CONSTANTS
  RingSize = 2
  IndexMod = 4
  HeaderLen = 2
  Threads = 2
  Segments <- RequestSegments
  ReplyLen <- Replies
  EventLen = 0
  MaxEvents = 1
SPECIFICATION FairSpec
INVARIANTS TransportInv
PROPERTIES Completes EventsSeen
CHECK_DEADLOCK FALSE
