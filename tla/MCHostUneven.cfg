CONSTANTS
    Sectors = 2
    MaxImage = 10
    Images = {1, 4}
    sector_buffer = 9
    Lossy = TRUE
    Faults = {}
    TornFound = {0}
    DFU_FLASH_PAGE_SIZE_BYTES = 3
    DFU_TRANSFER_SIZE_BYTES = 2
    DFU_USB_EN = 0
    DFU_CONFIG_USB_INBAND_FUNCTIONS = 0
SPECIFICATION HostSpec
INVARIANTS
    HostTypeOK
PROPERTIES
    FileIsComplete
CHECK_DEADLOCK FALSE
