\* A program that is copied to where nothing is mapped halts the machine.
CHECK_DEADLOCK FALSE
SPECIFICATION MachineSpec
CONSTANTS
    Entries = 8
    Span = 4
    TablesNeeded = 2
    ExtraTables = 3
    Regions <- RegionsBelowTop
    Buses = 1
    Devices = 2
    Functions = 2
    Bars = 3
    MaxDevices = 3
    AddressSpace = 32
    Classes = {"net", "usb", "bridge"}
    Boards <- MCBoards
    Memory <- MCMemory
    Images <- MCImages
INVARIANTS
    MachineTypeOK
    IdentityMapped
    PromisedIsMapped
    ScanFinds
    DriverReaches
    LoadedIsImage
PROPERTIES
    OnlyAdds
    OnlyEnables
