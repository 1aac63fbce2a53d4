SPECIFICATION Spec
CONSTANTS
  Width = 4
  Symbols = {"hw_out", "hw_in", "hw_init_struct", "hw_destroy_struct", "hw_interrupt_hook"}
  Keys <- MCKeys
INVARIANTS
  NoAssertionFails
  OperandsInPlace
  OnlyTheHookMayBeNull
PROPERTIES
  ImplementsShiftRegister
