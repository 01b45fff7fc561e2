\* Four requests and one push; friend lists over one id.
SPECIFICATION Spec
CONSTANTS
  Friends = {f1}
  NoFriend = NoFriend
  MaxRequests = 4
  MaxPushes = 1
INVARIANTS
  ClientTypeOK
  OneAnswerEach
  MenuSeesWholeList
  StaleOnlyIfUnanswered
PROPERTIES
  RequestAnswered
  DisconnectNoticed
CHECK_DEADLOCK FALSE
