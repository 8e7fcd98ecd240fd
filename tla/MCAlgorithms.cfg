CONSTANTS
    Payloads <- SomePayloads
    Numbers <- SomeNumbers
    DeviceIds <- SomeIds
    Damages <- SomeDamages
    ImageLengths <- SomeLengths
    BlockSizes = {0, 1, 2}
    Number <- WordNumbers
    Texts <- SomeTexts
    ToolOptions = {"--download", "--upload", "--revertfactory", "--x"}
    IntRange = 16
    LongRange = 256
    Buses <- SomeBuses
    WantedIds <- SomeWanted
    Delays <- SomeDelays
    TileCounts = {1, 2, 3, 4, 5, 6, 7, 8, 9}
    TimerRange = 64
    XS1_TIMER_KHZ = 3
SPECIFICATION MCSpec
INVARIANTS
    SuffixRoundTrip
    SuffixFindsDamage
    BlockNumbersDiffer
    IdsAreThoseGiven
    SameDeviceFound
    RebootDelayKept
    RebootReachesNodes
    ArgumentsFollowUsage
CHECK_DEADLOCK FALSE
