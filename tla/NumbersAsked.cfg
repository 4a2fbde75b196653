CONSTANT Bits = 11
SPECIFICATION Spec
INVARIANT WritesTheNumber
