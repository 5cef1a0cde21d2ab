SPECIFICATION Spec
CONSTANTS
    Segments <- MCSegments
    LongNames = {"long"}
    Unparsable = unparsable
    BaseDocument <- MCBaseDocument
    SettingChoices <- MCSettingChoices
    DeviceChoices <- MCDeviceChoices
    VariableChoices <- MCVariableChoices
    DiskChoices <- MCDiskChoices
    WrongKeys <- MCWrongKeys
    MaxEdits = 2
INVARIANTS
    OnlyContentsRefuse
    NothingIgnored
    TopicsApart
    ExitIsClean
CHECK_DEADLOCK FALSE
