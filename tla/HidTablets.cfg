SPECIFICATION Spec
CONSTANTS
    MaxInputs = 2
    Width = 4
INVARIANTS RefusedIsStopped FixedIsEnabled PolledForUsers ReportsSound
