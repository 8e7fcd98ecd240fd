CONSTANTS
    Sectors = 2
    MaxImage = 2
    Images = {2}
    sector_buffer = 4
    Lossy = FALSE
    Faults = {}
    TornFound = {0}
    DFU_FLASH_PAGE_SIZE_BYTES = 2
    DFU_TRANSFER_SIZE_BYTES = 2
    DFU_USB_EN = 0
    DFU_CONFIG_USB_INBAND_FUNCTIONS = 0
SPECIFICATION DisturbedSpec
PROPERTIES
    SuccessMeansStored
CHECK_DEADLOCK FALSE
