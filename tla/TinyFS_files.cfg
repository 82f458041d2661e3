SPECIFICATION Spec
CONSTANTS
    FLASHPAGE_SIZE = 2
    NBehind = 2
    NNames = 3
    Sizes = {0, 1, 3}
    Users <- CarefulAndAny
INVARIANTS
    FlashLayout 
PROPERTY StoreSpec
