SPECIFICATION Spec
CONSTANTS
    Image <- MCImage
    MaxAttempts = 2
    Answers <- MCAnswers
    BufferSize = 3
    Files <- MCFiles
    Urls <- MCUrls
INVARIANTS
    DfotaTypeOK
    UpdatesFromTheImage
    WritesInOrder
    BuffersAccountedFor
PROPERTIES
    StopsAfterFailure
    FailsLateByTimer
    AttemptsEnd
CHECK_DEADLOCK FALSE
