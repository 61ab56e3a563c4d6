SPECIFICATION FairSpec
CONSTANTS
  Chats = {1, 2}
  Sessions = {a, b}
  Home = a
  NoChat = none
  MaxConsecutive = 2
  MaxTotal = 3
  MaxNoise = 3
  MaxAsks = 2
  MaxSwitches = 1
  UserOps = {"stop", "switch"}
INVARIANT TypeOK
INVARIANT ChildrenReaped
PROPERTY AnswersAreMeant
PROPERTY WarningsSettled
PROPERTY ChatEnds
