SPECIFICATION ProbesSpec
CONSTANTS
    doom = doom
    test = test
    Clients <- MCClients
    Tester = test
    Width = 2
    Height = 2
    Scale = 2
    DisplayWidth = 4
    MappedWords = 18
    Levels = 4
    Frames <- MCFrames
    InputLengths <- MCInputLengths
    FrameCell = 1
    DisplayCell = 2
    Dark = 0
    Bright = 2
    Reported <- MCReported
    Blank = Blank
INVARIANTS
    ProbesTypeOK
    EveryWordInItsPlace
    AloneShowsWholeFrame
    TestPicturesAgree
PROPERTIES
    PresentReturns
