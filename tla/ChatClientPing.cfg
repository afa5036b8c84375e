CONSTANTS
    MaxLines = 1
    MaxChats = 0
SPECIFICATION Spec
INVARIANTS PingWaitsForAnswer
