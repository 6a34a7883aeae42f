SPECIFICATION FairSpec
CONSTANTS
  MaxFail = 2
  Qos = {0, 1}
  MaxConns = 2
  MaxPublishes = 2
  MaxMessages = 1
INVARIANTS SubscribedWhenConnected 
 
CHECK_DEADLOCK FALSE
