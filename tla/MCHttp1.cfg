SPECIFICATION FairSpec
CONSTANTS
  Shapes <- SmallShapes
  MaxMessages = 2
INVARIANTS TypeOK  OnceAndInOrder
PROPERTY PatientServed
