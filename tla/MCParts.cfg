SPECIFICATION PartsSpec
CONSTANTS
    NumDesc = 3
    MaxFrames = 4
    Keys = {key}
    Motor = motor
    ExtraNeurons = {extra}
    Threshold <- MCThreshold
    Leak <- MCLeak
    Refractory <- MCRefractory
    StimAmounts = {3}
    Weights = {3}
    WeightOne = 2
    InitialWeight = 1
    SpikeGain = 1
    EvidenceOne = 3
    GateOn = 1
    GateOff = 1
    Window = 1
    GatePeriod = 2
    BeepTicks = 1
    Gaps = {1}
    MaxSynapses = 2
    MaxPending = 3
    MaxCommands = 1
    Paths = {p}
    FdSlots = {0, 1}
    MaxBytes = 2
    MaxChunk = 1
    MaxWrites = 2
    MaxHeld = 2
    Packets <- MCPackets
    Width = 3
    Height = 2
    MaxPackets = 3
    MaxLost = 2
    Outputs <- MCOutputs
    DrawnCells <- MCDrawn
    Rows = 3
    Cols = 3
    PromptLengths = {1, 2}
    MaxLine = 4
    Spellings = {"a", "long1", "long2"}
    Stored <- MCStored
    Arguments <- MCArguments
    MaxDepth = 2
    Seeded = {lm, rm}
    OtherPairs = {xm}
    Trits = 3
    TritsPerByte = 2
    UnitsPerStep = 2
    LearnedValues <- MCLearned
    GivenValues <- MCGiven
    DefaultWeight = 26
    FileEntries = 3
    MaxSynapsesKept = 4
    SecondRadix = 2
    StartHours = {0, 11, 12, 22, 23}
    MaxTicks = 5
    DemoTasks = 2
    DemoBudget = 5
    FirstWinner = 2
    Hlts = 2
    MaxKeys = 2
    PageWords = 2
    CodePage = 1
    StackPage = 5
    HeapStart = 6
    HeapCount = 1
    TableSpan = 4
    UserPages = 7
    CanonicalPages = 9
    MaxLoadSegments = 2
    MaxSegmentPages = 2
    MaxElfPages = 3
    NFrames = 24
    Images <- MCImages
    ElfFiles <- MCElfFiles
    MaxStores = 1
INVARIANTS
    PartsTypeOK
    RxSlotsHaveOneOwner
    QueuedFramesSurvive
    SpikeToneIsTimed
    OpenFilesAgree
    PenFollowsMouse
    EchoIsTheLine
    WeightsComeBack
    NowIsNeverTorn
    BootStopsOnlyWhere
    PromptComesFirst
    MemoryIsPrivate
    LoadsExactlyWhatIsValid
PROPERTIES
    ImplementsFrameQueue
    EvidenceMatchesFirings
    GatesDoNotFlap
    NoLockout
    DecodesWhatWasSent
    WorkingDirStays
CHECK_DEADLOCK FALSE
