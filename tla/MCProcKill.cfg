SPECIFICATION Spec
CONSTANTS
    NPROC = 2
    Loads <- BusyOfTwo
PROPERTIES BornAlive
