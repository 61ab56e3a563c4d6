SPECIFICATION Spec
CONSTANTS
  Nodes = {desk, a, b}
  Announced = {a, b}
  Port <- Ports
  Tags = {calc}
  Offers <- EmptyOrCalc
  Tasks = {sum, chat}
  Needs <- TaskNeeds
  None = None
  Client = Client
  Gone = Gone
  MaxCalls = 3
  MaxStarts = 3
  MaxGiven = 1
  desk = desk
  a = a
  b = b
  calc = calc
  chat = chat
  sum = sum
INVARIANT TypeOK
INVARIANT NeverHandedBack
INVARIANT NoNeedlessRun
PROPERTY CallsEnd
CHECK_DEADLOCK FALSE
