SPECIFICATION Spec
CONSTANT Operands <- MCOperands
INVARIANTS
  TypeOK
  DecimalSums
  WordArithmetic
PROPERTIES
  ImplementsManual
