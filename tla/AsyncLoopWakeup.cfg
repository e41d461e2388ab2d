SPECIFICATION Spec
CONSTANT MaxSpurious = 2
PROPERTY StartWakes
CHECK_DEADLOCK FALSE
