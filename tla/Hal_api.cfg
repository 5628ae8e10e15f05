SPECIFICATION Spec
CONSTANTS
    MayFail = {}
    JpegFormats = {TRUE}
    RestartPreview = FALSE
    LiveChannel = "SNAPSHOT"
    MaxPics = 1
    Caller = {c1, c2}
    Calls <- PictureCalls
    ParamValues <- ZslParams
    MaxResults = 1
    MaxEvents = 1
SYMMETRY Symmetry
INVARIANTS
    TypeOK PreviewFollowsState PostProcOnlyForPicture
PROPERTIES
    KeepsApi
