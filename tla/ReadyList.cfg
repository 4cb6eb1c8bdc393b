SPECIFICATION ListSpec
CONSTANTS
  QueueSlots = 5
  User = {1, 2, 3}
  Priority <- ByNumber
  Ceiling <- CeilingTwo
INVARIANTS NoNodeLost LinksAgree
PROPERTY ImplementsQueue
CHECK_DEADLOCK FALSE
