SPECIFICATION Spec
CONSTANTS
    Uploads <- SmallUploads
    NameOf <- SmallNameOf
    FileNameOf <- SmallFileNameOf
    NoData = "nothing"
    MaxRestarts = 1
    Handlers = {"h1", "h2"}
    Dirs = {"d1"}
CHECK_DEADLOCK FALSE
INVARIANTS
    TypeOK
    ListedScenesAreStored
    FramesAreOwn
    FramesShowTheListedScene
    FilesAreCleaned
PROPERTY
    ImplementsCatalogue
