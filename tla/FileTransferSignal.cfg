CONSTANTS
    Size = 3
    Buffer = 2
    Window = 3
    MaxSignals = 1
SPECIFICATION Spec
INVARIANTS InterruptHandled
