SPECIFICATION Session
INVARIANTS BytesInPlace RightDevice RotationExact SimulatesOnPen DiscardsUnused ReachesInput
