SPECIFICATION Spec
CONSTANTS
    f1 = f1
    f2 = f2
    wad = wad
    settings = settings
    Files <- MCFiles
    Names <- MCNames
    Wad = wad
    Prefixes = 2
    Offsets <- MCOffsets
    MaxLength = 2
INVARIANTS
    TypeOK
    OneVolume
    NothingLeaks
    EofIsTrue
    AppendsAtEnd
SYMMETRY Symmetry
