CONSTANTS
    Sectors = 2
    MaxImage = 2
    Images = {}
    sector_buffer = 4
    Lossy = FALSE
    Faults = {"erase"}
    TornFound = {0}
    DFU_FLASH_PAGE_SIZE_BYTES = 2
    DFU_TRANSFER_SIZE_BYTES = 2
    DFU_USB_EN = 0
    DFU_CONFIG_USB_INBAND_FUNCTIONS = 0
SPECIFICATION HostSpec
INVARIANTS
    RevertIsDone
CHECK_DEADLOCK FALSE
