SPECIFICATION Spec
CONSTANT MaxWidth = 7
INVARIANTS Placed Mirrored Suffix Unbreakable
CHECK_DEADLOCK FALSE
