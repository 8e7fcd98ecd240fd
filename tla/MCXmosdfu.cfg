CONSTANTS
    Sectors = 2
    MaxImage = 6
    Images = {0, 1, 3, 5}
    Faults <- ButErase
    TornFound = {1}
    DFU_FLASH_PAGE_SIZE_BYTES = 4
    DFU_TRANSFER_SIZE_BYTES = 2
    DFU_USB_EN = 1
    DFU_CONFIG_USB_INBAND_FUNCTIONS = 1
    usb_dfu_interface_num = 1
SPECIFICATION ToolSpec
INVARIANTS
    FlagTellsReboot
    ModeAgrees
PROPERTIES
    ResetLeavesDfu
    ImplementsDevice
    SuccessMeansStored
    FileIsComplete
    RevertMeansErased
    UploadsWholeImage
    EntersDfu
    RunEnds
    ReturnsToApp
CHECK_DEADLOCK FALSE
