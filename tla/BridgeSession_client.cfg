\* The command with either bridge and one client, up to two requests.
CONSTANTS
  Bridges <- BothBridges
  Recordings <- MCRecordings
  Requests <- MCRequests
  MaxRequests = 2
SPECIFICATION FairSpec
INVARIANTS
  CommandTypeOK
  FramesAsAsked
  OnceInOrder
  NoPlaintextLeft
PROPERTIES
  SignalStopsBridge
  CtrlZSuspends
  SubscriberIsServed
CHECK_DEADLOCK FALSE
