CONSTANTS
    Sectors = 1
    MaxImage = 4
    Images = {1, 2}
    Faults = {}
    TornFound = {1}
    DFU_FLASH_PAGE_SIZE_BYTES = 4
    DFU_TRANSFER_SIZE_BYTES = 2
    DFU_USB_EN = 1
    DFU_CONFIG_USB_INBAND_FUNCTIONS = 1
    usb_dfu_interface_num = 1
SPECIFICATION ToolSpec
PROPERTIES
    WritesTheImage
CHECK_DEADLOCK FALSE
