SPECIFICATION Spec
CONSTANTS
  peer = peer
  second = second
  helper = helper
  chat = chat
  None = None
  User = User
  Messages = {peer, second, helper}
  Recipients = {chat}
  To <- MCTo
  Supporting = {helper}
  Fresh = {chat}
  MaxCompleted = 2
  MaxQueued = 2
  MaxPumps = 2
  MaxFailures = 1
INVARIANTS
  TypeOK
  AtMostOnce
  SettledAfterTheTurn
PROPERTIES
  KeepsPromise
  ReachesItsRecipient
  DeliveriesEnd
