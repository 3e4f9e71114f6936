CONSTANT SlotCount = 4
SPECIFICATION Spec
INVARIANTS CheckIsSound SomeoneDetects
PROPERTY CyclesResolved
CHECK_DEADLOCK FALSE
