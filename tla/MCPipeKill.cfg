SPECIFICATION Spec
CONSTANTS
    Proc = {p1, p2}
    Byte = {b0}
    NoByte = NoByte
    PIPESIZE = 2
    UINT = 4
    Counts = {1, 3}
INVARIANTS KilledAwake
