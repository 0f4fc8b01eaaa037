SPECIFICATION Spec
CONSTANTS
  Cells <- Units
  Fill0 <- Zero
  HeadLen = 2
  MaxBody = 10
  IntMax = 16
  SizeMax = 1024
  MaxSet = 2
  MaxMessages = 2
CHECK_DEADLOCK FALSE
INVARIANTS
  TypeOK
  LengthRefused
  Delivered
  RoundTrip
  WholeObject
  AnswerEchoes
PROPERTIES
  StreamSpec
