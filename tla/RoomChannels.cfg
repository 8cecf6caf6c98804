SPECIFICATION FairSpec
CONSTANTS
  c1 = c1
  c2 = c2
  c3 = c3
  r1 = r1
  r2 = r2
  Client <- MCClient
  Room = {r1, r2}
  RoomOf <- MCRoomOf
  Main = main
  MaxBreaks = 2
INVARIANTS TypeOK JoinedIsSubscribed
PROPERTIES JoinReturns SubscribedAgain LeftIsDropped
CHECK_DEADLOCK FALSE
