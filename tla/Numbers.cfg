CONSTANT Bits = 11
SPECIFICATION Spec
INVARIANTS StackBounded WrongOnlyAtBase
