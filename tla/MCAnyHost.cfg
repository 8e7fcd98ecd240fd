CONSTANTS
    Sectors = 2
    MaxImage = 3
    Faults <- AllFaults
    TornFound = {0, 1}
    DFU_FLASH_PAGE_SIZE_BYTES = 2
    DFU_TRANSFER_SIZE_BYTES = 2
    DFU_USB_EN = 0
    DFU_CONFIG_USB_INBAND_FUNCTIONS = 0
SPECIFICATION Spec
INVARIANTS
    TypeOK
    StatusTellsError
    FlashClosedInApp
    NeverAWholePageLeft
    BytesAccounted
    UploadAccounted
PROPERTIES
    PadsLastPageOnly
CHECK_DEADLOCK FALSE
