CONSTANTS
    Sectors = 2
    MaxImage = 3
    Faults = {"write"}
    TornFound = {0, 1}
    DFU_FLASH_PAGE_SIZE_BYTES = 2
    DFU_TRANSFER_SIZE_BYTES = 2
    DFU_USB_EN = 0
    DFU_CONFIG_USB_INBAND_FUNCTIONS = 0
SPECIFICATION PoliteSpec
PROPERTIES
    LastPageFailureReported
CHECK_DEADLOCK FALSE
