SPECIFICATION Spec
CONSTANTS
    MaxInputs = 2
    Width = 4
INVARIANT ManticoreOpened
