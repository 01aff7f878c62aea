SPECIFICATION FairSpec
CONSTANTS
    u1 = u1
    u2 = u2
    u3 = u3
    def = def
    use = use
    bad = bad
    A = A
    Uri = {u1, u2}
    Text = {def, use, bad}
    Name = {A}
    NoText = NoText
    NoVersion = NoVersion
    NoHir = NoHir
    Malformed = {bad}
    Defines <- MCDefines
    Uses <- MCUses
    Disk <- MCDisk
    MaxVersion = 2
    MaxChannel = 1
PROPERTIES
    EditsGetShown
CHECK_DEADLOCK FALSE
