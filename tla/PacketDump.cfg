CONSTANTS
    Columns = 16
    BufSize = 124
    Ihls = {5, 6, 15}
    Doffs = {0, 5, 8, 15}
    Rests = {0, 8, 19, 20, 21, 31, 36, 37, 52, 53, 64}
    Sources = {"local", "remote"}
    Target = "remote"
    MaxPackets = 2
SPECIFICATION Spec
INVARIANTS
    DumpExact
    InBuffer
    DumpsCover
