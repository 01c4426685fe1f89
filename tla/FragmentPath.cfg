\* Buffers hold at least the rest of a component.
CONSTANTS
  Answers <- MCAnswers
  FerolPayload = 6
  BufferSizes = {3, 5, 8}
  BlockSizes = {12, 14, 18}
  BlockHeader = 2
  IdSize = 2
SPECIFICATION Spec
INVARIANTS TypeOK DataIntact
PROPERTY AllChecked
CHECK_DEADLOCK FALSE
