CONSTANTS
    NumFrames = 46
    Levels = 3
    Fan = 64
    PageBytes = 4
    Boots <- MCBoots
    AppImages <- MCAppImages
    Processes = {p1, p2}
    p1 = p1
    p2 = p2
    LowFrames = 2
    FrameUnits = 2
    StackFrames = 1
    GuardFrames = 1
    BitmapFrames = 1
    PagingBase = 18
    PagingPercent = 0
    ReserveUnits = 2
    MetadataPages = 2
    WindowVa = 139261
    MaxWindow = 7
    MapWindow = 2
    MaxBuffers = 1
    Mappings <- MCMappings
    UserBuffers <- MCUserBuffers
SPECIFICATION BSpec
SYMMETRY MCSymmetry
CHECK_DEADLOCK FALSE
INVARIANTS BootFramesSound AddressSpacesSound MdlDescribesRange
