SPECIFICATION Spec
CONSTANTS
  Size = 6
  Sizes <- WithArgument
  Ids = {"start", "stop"}
INVARIANTS
  TypeOK
  ArgumentIsIntact
  CallbackFilterIsAlive
PROPERTIES
  DeliversInOrder
