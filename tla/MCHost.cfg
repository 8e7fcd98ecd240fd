CONSTANTS
    Sectors = 2
    MaxImage = 5
    Images = {1, 2, 3, 4, 5}
    sector_buffer = 4
    Lossy = FALSE
    Faults <- ButWrite
    TornFound = {0, 1}
    DFU_FLASH_PAGE_SIZE_BYTES = 2
    DFU_TRANSFER_SIZE_BYTES = 2
    DFU_USB_EN = 0
    DFU_CONFIG_USB_INBAND_FUNCTIONS = 0
SPECIFICATION HostSpec
PROPERTIES
    FollowsProtocol
    SuccessMeansStored
    RunEnds
CHECK_DEADLOCK FALSE
