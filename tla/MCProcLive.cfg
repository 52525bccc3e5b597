SPECIFICATION FairSpec
CONSTANTS
    NPROC = 3
    Loads <- Lively
PROPERTIES OrphansReaped KilledExit
