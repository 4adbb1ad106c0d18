CONSTANTS
    Chips <- MCChips
    Programs <- MCPrograms
    WordBits = 5
    FAR = 1
    FDRI = 2
    MemoryBase = 8
    MemoryUnit = 2
    InitWords = 2
    Devices <- MCDevices
    FrameDesigns <- MCDesigns
    None = None
SPECIFICATION PartsSpec
INVARIANT
    ImageFaithful
    StreamFaithful
