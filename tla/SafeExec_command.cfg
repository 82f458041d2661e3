\* Everything a child may do, twice in a row and more.
CONSTANTS
    interfaceRamStart = 5
    RamEnd = 48
    FlashStart = 100
    FlashEnd = 114
    FLASHPAGE_SIZE = 2
    Files <- ThreeFiles
    Pointers <- RamAndFile
    InitFree = 3
SPECIFICATION Spec
INVARIANTS
    ChildConfined
    
    Restored
PROPERTIES
    CommandReturns
