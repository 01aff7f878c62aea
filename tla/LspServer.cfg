SPECIFICATION Spec
CONSTANTS
    u1 = u1
    u2 = u2
    u3 = u3
    def = def
    use = use
    bad = bad
    A = A
    Uri = {u1, u2}
    Text = {def, use, bad}
    Name = {A}
    NoText = NoText
    NoVersion = NoVersion
    NoHir = NoHir
    Malformed = {bad}
    Defines <- MCDefines
    Uses <- MCUses
    Disk <- MCDisk
    MaxVersion = 2
    MaxChannel = 2
INVARIANTS
    TypeOK
    FileIdsIdentify
    AnalysisFresh
    ViewIsCurrent
    NothingShownForClosed
    VersionTagExact
    NoSilentCorruption
    SyncedWhenDrained
PROPERTIES
    FileIdsStable
CHECK_DEADLOCK FALSE
