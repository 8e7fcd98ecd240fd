CONSTANTS
    Sectors = 2
    MaxImage = 5
    Faults <- ButWrite
    TornFound = {0, 1}
    DFU_FLASH_PAGE_SIZE_BYTES = 3
    DFU_TRANSFER_SIZE_BYTES = 2
    DFU_USB_EN = 0
    DFU_CONFIG_USB_INBAND_FUNCTIONS = 0
SPECIFICATION PoliteFairSpec
PROPERTIES
    ProgramsErasedSlot
    DoneMeansStored
    BusyEnds
CHECK_DEADLOCK FALSE
