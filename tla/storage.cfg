SPECIFICATION Spec
CONSTANTS
    FILE_NUM = 2
    FileSize <- SizesRise
    RecordSize <- RecordSizes
    Values = {0, 1}
    DataSize = 24
    Slots = 3
    Offsets = {0, 4, 28}
    OffsetMod = 32
    PowerFails = TRUE
INVARIANTS
    AckedIsDurable
    JournalIsPrefix
    OffsetsArePersistent
    ReadBehindWrite
PROPERTIES
    WritesStayInFile
    ImplementsRecordLog
